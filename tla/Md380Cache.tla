----------------------------- MODULE Md380Cache -----------------------------
(***************************************************************************)
(* The MD380 firmware has one encoder, in RAM at a fixed address.          *)
(* RouteDmrPacket re-encodes frames of several streams with it, and keeps  *)
(* the RAM of the streams it has switched away from in md380_state_cache,  *)
(* all of it under md380_mux.  With a second DVSI device nobody else uses  *)
(* the firmware, and without one RouteDmrPacket is never called.           *)
(*                                                                         *)
(* The state of the encoder is told by the frame encoded last, and every   *)
(* frame notes the state it was encoded from: 0 is that of md380_init.     *)
(***************************************************************************)
EXTENDS Integers, Sequences, FiniteSets

CONSTANTS
  Streams,      \* the stream ids of DMR packets; 0 is "no stream" to the code
  CacheMax,     \* MD380_CACHE_MAX
  MaxAge,       \* the 30 s after which an entry is stale, in ticks
  MaxFrames,    \* bound: frames re-encoded in one behaviour
  MaxTime       \* bound: ticks in one behaviour

ASSUME Md380CacheAssumption ==
  /\ Streams \subseteq Nat \ {0}
  /\ IsFiniteSet(Streams)
  /\ CacheMax \in Nat \ {0}
  /\ MaxAge \in Nat /\ MaxFrames \in Nat /\ MaxTime \in Nat

VARIABLES
  now,          \* the steady clock, in ticks
  ram,          \* the frame that left the firmware RAM as it is
  encStream,    \* md380_enc_streamid
  cache,        \* md380_state_cache: the entries of some streams
  encoded       \* history: the frames re-encoded

varsCache == <<now, ram, encStream, cache, encoded>>

Entry == [state : 0..MaxFrames, lastUsed : 0..MaxTime]
Reencoded == [stream : Streams, from : 0..MaxFrames, at : 0..MaxTime]

InitCache ==
  /\ now = 0
  /\ ram = 0
  /\ encStream = 0
  /\ cache = <<>>
  /\ encoded = <<>>

Tick ==
  /\ now < MaxTime
  /\ now' = now + 1
  /\ UNCHANGED <<ram, encStream, cache, encoded>>

(* The cache with the state of the stream switched away from. *)
MutantSaved ==   \* keeps the entry the stream had before
  IF encStream = 0 THEN cache
  ELSE [t \in DOMAIN cache \cup {encStream} |->
          IF t \in DOMAIN cache THEN cache[t]
          ELSE [state |-> ram, lastUsed |-> now]]
MutantSavedZero ==   \* saves the state of stream 0 as well, which is none
  [t \in DOMAIN cache \cup {encStream} |->
     IF t = encStream THEN [state |-> ram, lastUsed |-> now] ELSE cache[t]]
Saved ==
  IF encStream = 0 THEN cache
  ELSE [t \in DOMAIN cache \cup {encStream} |->
          IF t = encStream THEN [state |-> ram, lastUsed |-> now] ELSE cache[t]]

(* One pass over the entries, in the order of an unordered_map: an entry   *)
(* that is not of stream s goes if it is stale, or as long as there are    *)
(* too many.  So fresh entries may go that would not have been too many    *)
(* after the stale ones.                                                   *)
MutantPurged(c, s) ==   \* counts one entry too few
  LET others == DOMAIN c \ {s}
      stale == {t \in others : c[t].lastUsed + MaxAge < now}
      excess == Cardinality(DOMAIN c) - (CacheMax + 1)
  IN {[t \in DOMAIN c \ (stale \cup gone) |-> c[t]] :
        gone \in {g \in SUBSET (others \ stale) :
                    /\ g # {} => Cardinality(g) <= excess
                    /\ \/ Cardinality(g) + Cardinality(stale) >= excess
                       \/ g = others \ stale}}
Purged(c, s) ==
  LET others == DOMAIN c \ {s}
      stale == {t \in others : c[t].lastUsed + MaxAge < now}
      excess == Cardinality(DOMAIN c) - CacheMax
  IN {[t \in DOMAIN c \ (stale \cup gone) |-> c[t]] :
        gone \in {g \in SUBSET (others \ stale) :
                    /\ g # {} => Cardinality(g) <= excess
                    /\ \/ Cardinality(g) + Cardinality(stale) >= excess
                       \/ g = others \ stale}}

(* md380_encode_fec from the state the RAM now holds. *)
Reencode(s, state) ==
  /\ Len(encoded) < MaxFrames
  /\ encoded' = Append(encoded, [stream |-> s, from |-> state, at |-> now])
  /\ ram' = Len(encoded) + 1
  /\ UNCHANGED now

ReencodeSameStream(s) ==
  /\ s = encStream
  /\ Reencode(s, ram)
  /\ UNCHANGED <<encStream, cache>>

(* Save, restore what there is of the other stream, and purge. *)
ReencodeSwitch(s) ==
  /\ s # encStream
  /\ Reencode(s, IF s \in DOMAIN Saved THEN Saved[s].state ELSE ram)
  /\ cache' \in Purged(Saved, s)
  /\ encStream' = s

NextCache == Tick \/ \E s \in Streams : ReencodeSameStream(s) \/ ReencodeSwitch(s)

SpecCache == InitCache /\ [][NextCache]_varsCache

-----------------------------------------------------------------------------
(* Properties.                                                             *)

TypeOK ==
  /\ now \in 0..MaxTime
  /\ ram \in 0..MaxFrames
  /\ encStream \in Streams \cup {0}
  /\ DOMAIN cache \subseteq Streams
  /\ \A t \in DOMAIN cache : cache[t] \in Entry
  /\ encoded \in Seq(Reencoded)

(* The cache never grows beyond its bound, though it is purged only when   *)
(* the stream changes, and never of the stream that is being encoded.      *)
CacheBounded == Cardinality(DOMAIN cache) <= CacheMax

(* A stream goes on from the state its own last frame left, however the    *)
(* frames of other streams came in between, as long as there have not been *)
(* more streams than the cache holds and it has not been silent for 30 s.  *)
Of(s) == {f \in DOMAIN encoded : encoded[f].stream = s}
StreamsUpTo(f) == {encoded[g].stream : g \in 1..f}

OwnStateBack ==
  \A s \in Streams : \A g, f \in Of(s) :
    /\ g < f /\ \A h \in Of(s) : h <= g \/ h >= f
    /\ Cardinality(StreamsUpTo(f)) <= CacheMax
    /\ encoded[f].at <= encoded[g].at + MaxAge
    => encoded[f].from = g

(* Why: what CacheInv says, beside the types.  The RAM is as the last      *)
(* frame left it, which is one of the stream being encoded.  Of every      *)
(* other stream the cache has the state its last frame left, unless that   *)
(* frame is stale or there have been too many streams.                     *)
LastOf(s, g) == g \in Of(s) /\ \A h \in Of(s) : h <= g
Crowded == Cardinality(StreamsUpTo(Len(encoded))) > CacheMax

Remembered(s, g) ==
  \/ /\ s \in DOMAIN cache
     /\ cache[s].state = g
     /\ encoded[g].at <= cache[s].lastUsed
  \/ encoded[g].at + MaxAge < now
  \/ Crowded

RecallInv ==
  /\ ram = Len(encoded)
  /\ encStream = IF encoded = <<>> THEN 0 ELSE encoded[Len(encoded)].stream
  /\ \A f \in DOMAIN encoded : encoded[f].at <= now
  /\ DOMAIN cache \subseteq StreamsUpTo(Len(encoded))
  /\ \A s \in Streams \ {encStream} : \A g \in DOMAIN encoded :
       LastOf(s, g) => Remembered(s, g)

CacheInv == TypeOK /\ CacheBounded /\ RecallInv /\ OwnStateBack
=============================================================================
