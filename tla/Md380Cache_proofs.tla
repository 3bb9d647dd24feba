-------------------------- MODULE Md380Cache_proofs -------------------------
(***************************************************************************)
(* Proofs about Md380Cache, for any streams, cache size, age and bounds.   *)
(***************************************************************************)
EXTENDS Md380Cache, FiniteSetTheorems, TLAPS

(* What the save adds: at most one entry, whose state is a frame's. *)
LEMMA SavedType ==
  ASSUME TypeOK
  PROVE  /\ DOMAIN Saved = DOMAIN cache \cup ({encStream} \ {0})
         /\ DOMAIN Saved \subseteq Streams
         /\ \A t \in DOMAIN Saved : Saved[t] \in Entry
<1>1. CASE encStream = 0
  BY <1>1 DEF Saved, TypeOK
<1>2. CASE encStream # 0
  <2> DEFINE e == [state |-> ram, lastUsed |-> now]
  <2>1. Saved = [t \in DOMAIN cache \cup {encStream} |->
                   IF t = encStream THEN e ELSE cache[t]]
    BY <1>2 DEF Saved
  <2>2. e \in Entry
    BY DEF TypeOK, Entry
  <2> HIDE DEF e
  <2>3. QED BY <1>2, <2>1, <2>2 DEF TypeOK
<1>3. QED BY <1>1, <1>2

(* The purge only takes entries away. *)
LEMMA PurgedEntries ==
  ASSUME NEW c, NEW s, NEW d \in Purged(c, s)
  PROVE  /\ DOMAIN d \subseteq DOMAIN c
         /\ \A t \in DOMAIN d : d[t] = c[t]
BY DEF Purged

(* The purge brings a cache with one entry too many back to its bound: as  *)
(* there is room for one stream at least, not all entries are of s.        *)
LEMMA PurgedBound ==
  ASSUME NEW c, NEW s, NEW d \in Purged(c, s), IsFiniteSet(DOMAIN c),
         Cardinality(DOMAIN c) <= CacheMax + 1
  PROVE  Cardinality(DOMAIN d) <= CacheMax
<1> DEFINE others == DOMAIN c \ {s}
           stale == {t \in others : c[t].lastUsed + MaxAge < now}
           excess == Cardinality(DOMAIN c) - CacheMax
<1>1. PICK gone \in SUBSET (others \ stale) :
        /\ d = [t \in DOMAIN c \ (stale \cup gone) |-> c[t]]
        /\ \/ Cardinality(gone) + Cardinality(stale) >= excess
           \/ gone = others \ stale
  BY DEF Purged
<1>2. DOMAIN d = DOMAIN c \ (stale \cup gone)
  BY <1>1
<1>3. stale \subseteq DOMAIN c /\ gone \subseteq DOMAIN c
  OBVIOUS
<1>4. Cardinality(DOMAIN c) \in Nat
  BY FS_CardinalityType
<1>5. /\ Cardinality(DOMAIN d) \in Nat
      /\ Cardinality(DOMAIN d) <= Cardinality(DOMAIN c)
      /\ Cardinality(DOMAIN c) = Cardinality(DOMAIN d) => DOMAIN c = DOMAIN d
  <2>1. DOMAIN d \in SUBSET DOMAIN c
    BY <1>2
  <2>2. QED BY <2>1, FS_Subset, FS_CardinalityType
<1> HIDE DEF others, stale, excess
<1>6. CASE Cardinality(DOMAIN c) <= CacheMax
  BY <1>4, <1>5, <1>6, Md380CacheAssumption
<1>7. CASE Cardinality(DOMAIN c) = CacheMax + 1
  <2>1. excess = 1
    BY <1>7, Md380CacheAssumption DEF excess
  <2>2. stale \cup gone # {}
    <3> SUFFICES ASSUME stale = {}, gone = {} PROVE FALSE
      OBVIOUS
    <3>1. others = {}
      BY <1>1, <2>1, FS_EmptySet
    <3>2. DOMAIN c \in SUBSET {s}
      BY <3>1 DEF others
    <3>3. Cardinality(DOMAIN c) <= 1
      <4>1. IsFiniteSet({s}) /\ Cardinality({s}) = 1
        BY FS_Singleton
      <4>2. QED BY <3>2, <4>1, FS_Subset
    <3>4. QED BY <1>7, <3>3, Md380CacheAssumption
  <2>3. DOMAIN d # DOMAIN c
    BY <1>2, <1>3, <2>2
  <2>4. QED BY <1>4, <1>5, <1>7, <2>3, Md380CacheAssumption
<1>8. QED BY <1>4, <1>6, <1>7, Md380CacheAssumption

-----------------------------------------------------------------------------
LEMMA EncodeType ==
  ASSUME TypeOK, NEW s \in Streams, NEW state \in 0..MaxFrames,
         Reencode(s, state)
  PROVE  /\ now' \in 0..MaxTime /\ ram' \in 0..MaxFrames
         /\ encoded' \in Seq(Reencoded)
<1>1. [stream |-> s, from |-> state, at |-> now] \in Reencoded
  BY DEF Reencoded, TypeOK
<1>2. Len(encoded) \in Nat
  BY DEF TypeOK
<1>3. QED BY <1>1, <1>2, Md380CacheAssumption DEF Reencode, TypeOK

LEMMA TypeInit == InitCache => TypeOK
  BY Md380CacheAssumption DEF InitCache, TypeOK

LEMMA TypeStep == TypeOK /\ [NextCache]_varsCache => TypeOK'
<1> SUFFICES ASSUME TypeOK, [NextCache]_varsCache PROVE TypeOK'
  OBVIOUS
<1> USE Md380CacheAssumption
<1>1. CASE Tick
  BY <1>1 DEF Tick, TypeOK
<1>2. ASSUME NEW s \in Streams, ReencodeSameStream(s) PROVE TypeOK'
  <2>1. Reencode(s, ram) /\ ram \in 0..MaxFrames
    BY <1>2 DEF ReencodeSameStream, TypeOK
  <2>2. QED BY <1>2, <2>1, EncodeType DEF ReencodeSameStream, TypeOK
<1>3. ASSUME NEW s \in Streams, ReencodeSwitch(s) PROVE TypeOK'
  <2> DEFINE state == IF s \in DOMAIN Saved THEN Saved[s].state ELSE ram
  <2>1. state \in 0..MaxFrames
    BY SavedType DEF TypeOK, Entry
  <2>2. Reencode(s, state)
    BY <1>3 DEF ReencodeSwitch
  <2> HIDE DEF state
  <2>3. /\ now' \in 0..MaxTime /\ ram' \in 0..MaxFrames
        /\ encoded' \in Seq(Reencoded)
    BY <2>1, <2>2, EncodeType
  <2>4. /\ DOMAIN cache' \subseteq Streams
        /\ \A t \in DOMAIN cache' : cache'[t] \in Entry
    <3>1. cache' \in Purged(Saved, s)
      BY <1>3 DEF ReencodeSwitch
    <3>2. QED BY <3>1, SavedType, PurgedEntries
  <2>5. QED BY <1>3, <2>3, <2>4 DEF ReencodeSwitch, TypeOK, Entry, Reencoded
<1>4. CASE UNCHANGED varsCache
  BY <1>4 DEF varsCache, TypeOK
<1>5. QED BY <1>1, <1>2, <1>3, <1>4 DEF NextCache

LEMMA BoundedInit == InitCache => CacheBounded
<1> SUFFICES ASSUME InitCache PROVE CacheBounded
  OBVIOUS
<1>1. DOMAIN cache = {}
  BY DEF InitCache
<1>2. QED BY <1>1, FS_EmptySet, Md380CacheAssumption DEF CacheBounded

LEMMA BoundedStep == TypeOK /\ CacheBounded /\ [NextCache]_varsCache => CacheBounded'
<1> SUFFICES ASSUME TypeOK, CacheBounded, [NextCache]_varsCache PROVE CacheBounded'
  OBVIOUS
<1>1. ASSUME NEW s \in Streams, ReencodeSwitch(s) PROVE CacheBounded'
  <2>1. IsFiniteSet(DOMAIN cache)
    BY FS_Subset, Md380CacheAssumption DEF TypeOK
  <2>2. /\ IsFiniteSet(DOMAIN Saved)
        /\ Cardinality(DOMAIN Saved) <= CacheMax + 1
    <3>1. Cardinality(DOMAIN cache) \in Nat
      BY <2>1, FS_CardinalityType
    <3>2. CASE encStream = 0
      <4>1. DOMAIN Saved = DOMAIN cache
        BY <3>2, SavedType
      <4>2. QED BY <2>1, <3>1, <4>1, Md380CacheAssumption DEF CacheBounded
    <3>3. CASE encStream # 0
      <4>1. DOMAIN Saved = DOMAIN cache \cup {encStream}
        BY <3>3, SavedType
      <4>2. /\ IsFiniteSet(DOMAIN Saved)
            /\ \/ Cardinality(DOMAIN Saved) = Cardinality(DOMAIN cache)
               \/ Cardinality(DOMAIN Saved) = Cardinality(DOMAIN cache) + 1
        BY <2>1, <4>1, FS_AddElement
      <4>3. QED BY <3>1, <4>2, Md380CacheAssumption DEF CacheBounded
    <3>4. QED BY <3>2, <3>3
  <2>3. cache' \in Purged(Saved, s)
    BY <1>1 DEF ReencodeSwitch
  <2>4. QED BY <2>2, <2>3, PurgedBound DEF CacheBounded
<1>2. CASE UNCHANGED cache
  BY <1>2 DEF CacheBounded
<1>3. QED BY <1>1, <1>2 DEF NextCache, Tick, ReencodeSameStream, varsCache

-----------------------------------------------------------------------------
(* A frame more, and what is said of the frames before it stays so.        *)
LEMMA EncodeAppends ==
  ASSUME TypeOK, NEW s \in Streams, NEW state, Reencode(s, state),
         NEW n, n = Len(encoded)
  PROVE  /\ n \in Nat /\ Len(encoded') = n + 1
         /\ DOMAIN encoded = 1..n /\ DOMAIN encoded' = 1..(n + 1)
         /\ \A f \in 1..n : encoded'[f] = encoded[f]
         /\ encoded'[n + 1] = [stream |-> s, from |-> state, at |-> now]
         /\ encoded' # <<>>
         /\ ram' = n + 1 /\ now' = now
<1>1. PICK e : e = [stream |-> s, from |-> state, at |-> now]
  OBVIOUS
<1>2. encoded' = Append(encoded, e) /\ encoded \in Seq(Reencoded)
  BY <1>1 DEF Reencode, TypeOK
<1>3. ram' = n + 1 /\ now' = now
  BY DEF Reencode
<1>4. /\ n \in Nat /\ Len(encoded') = n + 1
      /\ DOMAIN encoded = 1..n /\ DOMAIN encoded' = 1..(n + 1)
      /\ \A f \in 1..n : encoded'[f] = encoded[f]
      /\ encoded'[n + 1] = e
      /\ encoded' # <<>>
  BY <1>2
<1>5. QED BY <1>1, <1>3, <1>4

LEMMA EncodeStream ==
  ASSUME TypeOK, NEW s \in Streams, NEW state, Reencode(s, state),
         NEW n, n = Len(encoded)
  PROVE  /\ \A f \in 1..n : encoded'[f].stream = encoded[f].stream
         /\ encoded'[n + 1].stream = s
<1>1. PICK e : e = [stream |-> s, from |-> state, at |-> now]
  OBVIOUS
<1>2. /\ \A f \in 1..n : encoded'[f] = encoded[f]
      /\ encoded'[n + 1] = e
  BY <1>1, EncodeAppends
<1>3. e.stream = s
  BY <1>1
<1>4. QED BY <1>2, <1>3

LEMMA EncodeOf ==
  ASSUME TypeOK, NEW s \in Streams, NEW state, Reencode(s, state),
         NEW n, n = Len(encoded)
  PROVE  /\ Of(s)' = Of(s) \cup {n + 1}
         /\ \A t \in Streams \ {s} : Of(t)' = Of(t)
<1>1. /\ n \in Nat /\ DOMAIN encoded = 1..n /\ DOMAIN encoded' = 1..(n + 1)
  BY EncodeAppends
<1>2. /\ \A f \in 1..n : encoded'[f].stream = encoded[f].stream
      /\ encoded'[n + 1].stream = s
  BY EncodeStream
<1>3. 1..(n + 1) = (1..n) \cup {n + 1} /\ n + 1 \notin 1..n
  BY <1>1
<1>4. DOMAIN encoded' = DOMAIN encoded \cup {n + 1} /\ n + 1 \notin DOMAIN encoded
  BY <1>1, <1>3
<1>5. Of(s)' = Of(s) \cup {n + 1}
  <2>1. \A f \in DOMAIN encoded : encoded'[f].stream = encoded[f].stream
    BY <1>1, <1>2
  <2>2. QED BY <1>2, <1>4, <2>1, Zenon DEF Of
<1>6. ASSUME NEW t \in Streams \ {s} PROVE Of(t)' = Of(t)
  <2>1. \A f \in DOMAIN encoded : encoded'[f].stream = encoded[f].stream
    BY <1>1, <1>2
  <2>2. \A f \in Of(t)' : f \in Of(t)
    BY <1>2, <1>4, <2>1, Zenon DEF Of
  <2>3. \A f \in Of(t) : f \in Of(t)'
    BY <1>4, <2>1, Zenon DEF Of
  <2>4. QED BY <2>2, <2>3
<1>7. QED BY <1>5, <1>6

LEMMA EncodeStreams ==
  ASSUME TypeOK, NEW s \in Streams, NEW state, Reencode(s, state),
         NEW n, n = Len(encoded)
  PROVE  /\ \A f \in 0..n : StreamsUpTo(f)' = StreamsUpTo(f)
         /\ StreamsUpTo(n + 1)' = StreamsUpTo(n) \cup {s}
<1>1. n \in Nat
  BY EncodeAppends
<1>2. /\ \A f \in 1..n : encoded'[f].stream = encoded[f].stream
      /\ encoded'[n + 1].stream = s
  BY EncodeStream
<1>3. ASSUME NEW f \in 0..n PROVE StreamsUpTo(f)' = StreamsUpTo(f)
  <2>1. \A g \in 1..f : g \in 1..n
    BY <1>1
  <2>2. QED BY <1>2, <2>1 DEF StreamsUpTo
<1>4. 1..(n + 1) = (1..n) \cup {n + 1} /\ n + 1 \notin 1..n
  BY <1>1
<1>5. \A x : x \in StreamsUpTo(n + 1)' <=> x \in StreamsUpTo(n) \/ x = s
  BY <1>2, <1>4 DEF StreamsUpTo
<1>6. QED BY <1>3, <1>5

LEMMA StreamsSeen ==
  ASSUME TypeOK, NEW f \in 0..Len(encoded)
  PROVE  /\ StreamsUpTo(f) \subseteq Streams
         /\ IsFiniteSet(StreamsUpTo(f))
         /\ Cardinality(StreamsUpTo(f)) \in Nat
<1>1. \A g \in 1..f : encoded[g].stream \in Streams
  <2>1. encoded \in Seq(Reencoded)
    BY DEF TypeOK
  <2>2. \A g \in 1..f : encoded[g] \in Reencoded
    BY <2>1
  <2>3. QED BY <2>2 DEF Reencoded
<1>2. StreamsUpTo(f) \subseteq Streams
  BY <1>1 DEF StreamsUpTo
<1>3. QED BY <1>2, FS_Subset, FS_CardinalityType, Md380CacheAssumption

(* Too many streams stay too many. *)
LEMMA CrowdedStays ==
  ASSUME TypeOK, NEW s \in Streams, NEW state, Reencode(s, state), Crowded,
         NEW n, n = Len(encoded)
  PROVE  /\ Crowded'
         /\ ~ (Cardinality(StreamsUpTo(n + 1)') <= CacheMax)
<1>1. n \in Nat /\ Len(encoded') = n + 1
  BY EncodeAppends
<1>2. PICK S, T : S = StreamsUpTo(n) /\ T = StreamsUpTo(n + 1)'
  OBVIOUS
<1>3. T = S \cup {s}
  BY <1>2, EncodeStreams
<1>4. Cardinality(S) > CacheMax /\ Cardinality(S) \in Nat /\ IsFiniteSet(S)
  BY <1>1, <1>2, StreamsSeen DEF Crowded
<1>5. Cardinality(S) <= Cardinality(T) /\ Cardinality(T) \in Nat
  <2>1. IsFiniteSet(T)
    BY <1>3, <1>4, FS_AddElement
  <2>2. S \in SUBSET T
    BY <1>3
  <2>3. QED BY <2>1, <2>2, FS_Subset, FS_CardinalityType
<1>6. Cardinality(T) > CacheMax /\ ~ (Cardinality(T) <= CacheMax)
  BY <1>4, <1>5, Md380CacheAssumption
<1>7. Crowded'
  BY <1>1, <1>2, <1>6 DEF Crowded
<1>8. QED BY <1>2, <1>6, <1>7, Zenon

(* What the purge takes was stale, or one of too many. *)
LEMMA PurgedReason ==
  ASSUME NEW c, NEW s, NEW d \in Purged(c, s), NEW t \in DOMAIN c \ DOMAIN d,
         IsFiniteSet(DOMAIN c)
  PROVE  \/ c[t].lastUsed + MaxAge < now
         \/ Cardinality(DOMAIN c) > CacheMax
<1> DEFINE others == DOMAIN c \ {s}
           stale == {u \in others : c[u].lastUsed + MaxAge < now}
           excess == Cardinality(DOMAIN c) - CacheMax
<1>1. PICK gone \in SUBSET (others \ stale) :
        /\ d = [u \in DOMAIN c \ (stale \cup gone) |-> c[u]]
        /\ gone # {} => Cardinality(gone) <= excess
  BY DEF Purged
<1>2. t \in stale \/ t \in gone
  BY <1>1
<1>3. CASE t \in stale
  BY <1>3
<1>4. CASE t \in gone
  <2>1. IsFiniteSet(gone) /\ gone # {}
    BY <1>1, <1>4, FS_Subset
  <2>2. Cardinality(gone) \in Nat /\ Cardinality(gone) # 0
    BY <2>1, FS_CardinalityType, FS_EmptySet
  <2>3. Cardinality(gone) <= excess
    BY <1>1, <2>1
  <2>4. Cardinality(DOMAIN c) \in Nat
    BY FS_CardinalityType
  <2>5. QED BY <2>2, <2>3, <2>4, Md380CacheAssumption
<1>5. QED BY <1>2, <1>3, <1>4

-----------------------------------------------------------------------------
(* OwnStateBack is kept by a frame encoded from the state its stream left, *)
(* if it has to be.                                                        *)
LEMMA OwnStep ==
  ASSUME TypeOK, OwnStateBack, NEW s \in Streams, NEW state, Reencode(s, state),
         NEW n, n = Len(encoded),
         \A g \in Of(s) :
           /\ LastOf(s, g)
           /\ Cardinality(StreamsUpTo(n + 1)') <= CacheMax
           /\ now <= encoded[g].at + MaxAge
           => state = g
  PROVE  OwnStateBack'
<1> SUFFICES ASSUME NEW t \in Streams, NEW g \in Of(t)', NEW f \in Of(t)',
                    g < f, \A h \in Of(t)' : h <= g \/ h >= f,
                    Cardinality(StreamsUpTo(f)') <= CacheMax,
                    encoded'[f].at <= encoded'[g].at + MaxAge
             PROVE  encoded'[f].from = g
  BY DEF OwnStateBack
<1>1. /\ n \in Nat /\ DOMAIN encoded = 1..n
      /\ \A h \in 1..n : encoded'[h] = encoded[h]
      /\ encoded'[n + 1] = [stream |-> s, from |-> state, at |-> now]
  BY EncodeAppends
<1>2. Of(s)' = Of(s) \cup {n + 1} /\ \A u \in Streams \ {s} : Of(u)' = Of(u)
  BY EncodeOf
<1>3. \A u : Of(u) \subseteq 1..n
  BY <1>1 DEF Of
<1>4. g \in Of(t) /\ (f \in Of(t) \/ (t = s /\ f = n + 1))
  <2>1. CASE t = s
    <3>1. /\ g \in Of(s) \/ g = n + 1
          /\ f \in Of(s) \/ f = n + 1
      BY <1>2, <2>1
    <3>2. g # n + 1
      <4>1. f \in 1..n \/ f = n + 1
        BY <1>3, <3>1
      <4>2. QED BY <1>1, <4>1
    <3>3. QED BY <2>1, <3>1, <3>2
  <2>2. CASE t # s
    BY <1>2, <2>2
  <2>3. QED BY <2>1, <2>2
<1>5. \A h \in Of(t) : h <= g \/ h >= f
  BY <1>2
<1>6. g \in 1..n /\ encoded'[g].at = encoded[g].at
  BY <1>1, <1>3, <1>4
<1>7. CASE f \in Of(t)
  <2>1. f \in 1..n /\ encoded'[f] = encoded[f]
    BY <1>1, <1>3, <1>7
  <2>2. StreamsUpTo(f)' = StreamsUpTo(f)
    <3>1. f \in 0..n
      BY <1>1, <2>1
    <3>2. QED BY <3>1, EncodeStreams
  <2>3. encoded[f].at <= encoded[g].at + MaxAge
    BY <1>6, <2>1
  <2>4. Cardinality(StreamsUpTo(f)) <= CacheMax
    BY <2>2, Zenon
  <2>5. encoded[f].from = g
    BY <1>4, <1>5, <1>7, <2>3, <2>4 DEF OwnStateBack
  <2>6. QED BY <2>1, <2>5
<1>8. CASE t = s /\ f = n + 1
  <2>1. encoded'[f].at = now /\ encoded'[f].from = state
    BY <1>1, <1>8
  <2>2. g \in Of(s)
    BY <1>4, <1>8
  <2>3. LastOf(s, g)
    <3>1. ASSUME NEW h \in Of(s) PROVE h <= g
      <4>1. h \in 1..n /\ (h <= g \/ h >= n + 1)
        BY <1>3, <1>5, <1>8
      <4>2. QED BY <1>1, <4>1
    <3>2. QED BY <2>2, <3>1 DEF LastOf
  <2>4. now <= encoded[g].at + MaxAge
    BY <1>6, <2>1
  <2>5. Cardinality(StreamsUpTo(n + 1)') <= CacheMax
    BY <1>8, Zenon
  <2>6. state = g
    BY <2>2, <2>3, <2>4, <2>5
  <2>7. QED BY <2>1, <2>6
<1>9. QED BY <1>4, <1>7, <1>8

LEMMA RecallInit == InitCache => RecallInv /\ OwnStateBack
<1> SUFFICES ASSUME InitCache PROVE RecallInv /\ OwnStateBack
  OBVIOUS
<1>1. DOMAIN encoded = {} /\ Len(encoded) = 0 /\ DOMAIN cache = {}
  BY DEF InitCache
<1>2. OwnStateBack
  BY <1>1 DEF OwnStateBack, Of
<1>3. RecallInv
  BY <1>1 DEF RecallInv, InitCache
<1>4. QED BY <1>2, <1>3

(* What both re-encodes do to RecallInv: the last frame is now one of s,   *)
(* and of the other streams it is enough that the cache remembers what it  *)
(* should.                                                                 *)
LEMMA RecallEncode ==
  ASSUME TypeOK, RecallInv, NEW s \in Streams, NEW state, Reencode(s, state),
         NEW n, n = Len(encoded),
         encStream' = s,
         DOMAIN cache' \subseteq StreamsUpTo(n),
         \A t \in Streams \ {s} : \A g \in DOMAIN encoded :
           LastOf(t, g) => \/ /\ t \in DOMAIN cache'
                              /\ cache'[t].state = g
                              /\ encoded[g].at <= cache'[t].lastUsed
                           \/ encoded[g].at + MaxAge < now
                           \/ Crowded
  PROVE  RecallInv'
<1>1. /\ n \in Nat /\ Len(encoded') = n + 1
      /\ DOMAIN encoded = 1..n /\ DOMAIN encoded' = 1..(n + 1)
      /\ \A f \in 1..n : encoded'[f] = encoded[f]
      /\ encoded'[n + 1] = [stream |-> s, from |-> state, at |-> now]
      /\ encoded' # <<>> /\ ram' = n + 1 /\ now' = now
  BY EncodeAppends
<1>2. encStream' = encoded'[Len(encoded')].stream
  BY <1>1
<1>3. ASSUME NEW f \in DOMAIN encoded' PROVE encoded'[f].at <= now'
  <2>1. CASE f \in 1..n
    BY <1>1, <2>1 DEF RecallInv
  <2>2. CASE f = n + 1
    <3>1. encoded'[f].at = now /\ now \in Int
      BY <1>1, <2>2 DEF TypeOK
    <3>2. QED BY <1>1, <3>1
  <2>3. f \in 1..n \/ f = n + 1
    BY <1>1
  <2>4. QED BY <2>1, <2>2, <2>3
<1>4. (DOMAIN cache \subseteq StreamsUpTo(Len(encoded)))'
  <2>1. StreamsUpTo(n + 1)' = StreamsUpTo(n) \cup {s}
    BY EncodeStreams
  <2>2. DOMAIN cache' \subseteq StreamsUpTo(n + 1)'
    BY <2>1
  <2>3. QED BY <1>1, <2>2 DEF StreamsUpTo
<1>5. ASSUME NEW t \in Streams \ {s}, NEW g \in DOMAIN encoded', LastOf(t, g)'
      PROVE  Remembered(t, g)'
  <2>1. Of(t)' = Of(t)
    BY EncodeOf
  <2>2. LastOf(t, g) /\ g \in Of(t)
    BY <1>5, <2>1, Zenon DEF LastOf
  <2>3. g \in DOMAIN encoded /\ encoded'[g] = encoded[g]
    BY <1>1, <2>2 DEF Of
  <2>4. CASE /\ t \in DOMAIN cache'
             /\ cache'[t].state = g
             /\ encoded[g].at <= cache'[t].lastUsed
    BY <2>3, <2>4 DEF Remembered
  <2>5. CASE encoded[g].at + MaxAge < now
    BY <1>1, <2>3, <2>5 DEF Remembered
  <2>6. CASE Crowded
    BY <2>6, CrowdedStays DEF Remembered
  <2>7. QED BY <2>2, <2>3, <2>4, <2>5, <2>6
<1>6. QED BY <1>1, <1>2, <1>3, <1>4, <1>5 DEF RecallInv

LEMMA RecallSameStream ==
  ASSUME TypeOK, RecallInv, OwnStateBack, NEW s \in Streams,
         ReencodeSameStream(s)
  PROVE  RecallInv' /\ OwnStateBack'
<1>1. PICK n : n = Len(encoded)
  OBVIOUS
<1>2. /\ Reencode(s, ram) /\ s = encStream
      /\ encStream' = encStream /\ cache' = cache
  BY DEF ReencodeSameStream
<1>3. /\ n \in Nat /\ DOMAIN encoded = 1..n
  BY <1>1, <1>2, EncodeAppends
<1>4. encoded # <<>> /\ n # 0 /\ s = encoded[n].stream /\ ram = n
  <2>1. s # 0
    BY Md380CacheAssumption
  <2>2. encoded # <<>> /\ s = encoded[n].stream /\ ram = n
    BY <1>1, <1>2, <2>1 DEF RecallInv
  <2>3. QED BY <1>1, <2>2 DEF TypeOK
<1>5. ASSUME NEW g \in Of(s), LastOf(s, g) PROVE ram = g
  <2>1. n \in Of(s) /\ g \in 1..n
    BY <1>3, <1>4 DEF Of
  <2>2. n <= g
    BY <1>5, <2>1 DEF LastOf
  <2>3. QED BY <1>3, <1>4, <2>1, <2>2
<1>6. OwnStateBack'
  BY <1>1, <1>2, <1>5, OwnStep
<1>7. RecallInv'
  <2>1. DOMAIN cache' \subseteq StreamsUpTo(n)
    BY <1>1, <1>2 DEF RecallInv
  <2>2. \A t \in Streams \ {s} : \A g \in DOMAIN encoded :
          LastOf(t, g) => \/ /\ t \in DOMAIN cache'
                             /\ cache'[t].state = g
                             /\ encoded[g].at <= cache'[t].lastUsed
                          \/ encoded[g].at + MaxAge < now
                          \/ Crowded
    BY <1>2 DEF RecallInv, Remembered
  <2>3. QED BY <1>1, <1>2, <2>1, <2>2, RecallEncode
<1>8. QED BY <1>6, <1>7

(* The switch: the stream left is saved as its last frame leaves it, and   *)
(* what the purge takes need not be remembered.                            *)
LEMMA RecallSwitch ==
  ASSUME TypeOK, RecallInv, OwnStateBack, NEW s \in Streams, ReencodeSwitch(s)
  PROVE  RecallInv' /\ OwnStateBack'
<1>1. PICK n : n = Len(encoded)
  OBVIOUS
<1>2. PICK state : /\ state = IF s \in DOMAIN Saved THEN Saved[s].state ELSE ram
                   /\ Reencode(s, state)
  BY DEF ReencodeSwitch
<1>3. s # encStream /\ encStream' = s /\ cache' \in Purged(Saved, s)
  BY DEF ReencodeSwitch
<1>4. n \in Nat /\ DOMAIN encoded = 1..n
  BY <1>1, <1>2, EncodeAppends
<1>5. ASSUME NEW t \in Streams \ {encStream}
      PROVE  /\ t \in DOMAIN Saved <=> t \in DOMAIN cache
             /\ t \in DOMAIN cache => Saved[t] = cache[t]
  <2>1. t # 0
    BY Md380CacheAssumption
  <2>2. QED BY <2>1, SavedType DEF Saved
<1>6. OwnStateBack'
  <2>1. ASSUME NEW g \in Of(s), LastOf(s, g),
               Cardinality(StreamsUpTo(n + 1)') <= CacheMax,
               now <= encoded[g].at + MaxAge
        PROVE  state = g
    <3>1. g \in DOMAIN encoded /\ encoded[g].at \in Int /\ now \in Int
      <4>1. g \in DOMAIN encoded /\ encoded \in Seq(Reencoded)
        BY DEF Of, TypeOK
      <4>2. encoded[g] \in Reencoded
        BY <4>1
      <4>3. QED BY <4>1, <4>2 DEF Reencoded, TypeOK
    <3>2. Remembered(s, g)
      BY <1>3, <2>1, <3>1 DEF RecallInv
    <3>3. ~ Crowded
      BY <1>1, <1>2, <2>1, CrowdedStays
    <3>4. ~ (encoded[g].at + MaxAge < now)
      BY <2>1, <3>1, Md380CacheAssumption
    <3>5. s \in DOMAIN cache /\ cache[s].state = g
      BY <3>2, <3>3, <3>4 DEF Remembered
    <3>6. QED BY <1>2, <1>3, <1>5, <3>5
  <2>2. QED BY <1>1, <1>2, <2>1, OwnStep
<1>7. DOMAIN Saved \subseteq StreamsUpTo(n)
  <2>1. encStream # 0 => encStream \in StreamsUpTo(n)
    <3>1. ASSUME encStream # 0 PROVE n \in 1..n /\ encStream = encoded[n].stream
      <4>1. encoded # <<>> /\ encStream = encoded[n].stream
        BY <1>1, <3>1 DEF RecallInv
      <4>2. QED BY <1>1, <1>4, <4>1 DEF TypeOK
    <3>2. QED BY <3>1 DEF StreamsUpTo
  <2>2. DOMAIN cache \subseteq StreamsUpTo(n)
    BY <1>1 DEF RecallInv
  <2>3. QED BY <2>1, <2>2, SavedType
<1>8. IsFiniteSet(DOMAIN Saved) /\ (Cardinality(DOMAIN Saved) > CacheMax => Crowded)
  <2>1. /\ IsFiniteSet(StreamsUpTo(n))
        /\ Cardinality(StreamsUpTo(n)) \in Nat
    <3>1. n \in 0..Len(encoded)
      BY <1>1, <1>4
    <3>2. QED BY <3>1, StreamsSeen
  <2>2. /\ IsFiniteSet(DOMAIN Saved)
        /\ Cardinality(DOMAIN Saved) <= Cardinality(StreamsUpTo(n))
        /\ Cardinality(DOMAIN Saved) \in Nat
    BY <1>7, <2>1, FS_Subset, FS_CardinalityType
  <2>3. QED BY <1>1, <2>1, <2>2, Md380CacheAssumption DEF Crowded
<1>9. DOMAIN cache' \subseteq StreamsUpTo(n)
  BY <1>3, <1>7, PurgedEntries
(* The save, before the purge. *)
<1>10. ASSUME NEW t \in Streams \ {s}, NEW g \in DOMAIN encoded, LastOf(t, g)
       PROVE  \/ /\ t \in DOMAIN Saved
                 /\ Saved[t].state = g
                 /\ encoded[g].at <= Saved[t].lastUsed
              \/ encoded[g].at + MaxAge < now
              \/ Crowded
  <2>1. CASE t # encStream
    <3>1. Remembered(t, g)
      BY <1>10, <2>1 DEF RecallInv
    <3>2. QED BY <1>5, <2>1, <3>1 DEF Remembered
  <2>2. CASE t = encStream
    <3>1. t # 0
      BY Md380CacheAssumption
    <3>2. t \in DOMAIN Saved /\ Saved[t] = [state |-> ram, lastUsed |-> now]
      BY <2>2, <3>1 DEF Saved
    <3>3. encoded # <<>> /\ t = encoded[n].stream /\ ram = n
      BY <1>1, <2>2, <3>1 DEF RecallInv
    <3>4. g = n
      <4>1. n \in DOMAIN encoded
        BY <1>1, <1>4, <3>3 DEF TypeOK
      <4>2. n \in Of(t)
        BY <3>3, <4>1 DEF Of
      <4>3. n <= g
        BY <1>10, <4>2 DEF LastOf
      <4>4. QED BY <1>4, <4>3
    <3>5. encoded[g].at <= now
      BY DEF RecallInv
    <3>6. Saved[t].state = n /\ Saved[t].lastUsed = now
      BY <3>2, <3>3
    <3>7. QED BY <3>2, <3>4, <3>5, <3>6
  <2>3. QED BY <2>1, <2>2
(* And after it. *)
<1>11. ASSUME NEW t \in Streams \ {s}, NEW g \in DOMAIN encoded, LastOf(t, g)
       PROVE  \/ /\ t \in DOMAIN cache'
                 /\ cache'[t].state = g
                 /\ encoded[g].at <= cache'[t].lastUsed
              \/ encoded[g].at + MaxAge < now
              \/ Crowded
  <2>1. SUFFICES ASSUME t \in DOMAIN Saved, Saved[t].state = g,
                        encoded[g].at <= Saved[t].lastUsed
                 PROVE  \/ /\ t \in DOMAIN cache'
                           /\ cache'[t].state = g
                           /\ encoded[g].at <= cache'[t].lastUsed
                        \/ encoded[g].at + MaxAge < now
                        \/ Crowded
    BY <1>10, <1>11
  <2>2. CASE t \in DOMAIN cache'
    <3>1. cache'[t] = Saved[t]
      BY <1>3, <2>2, PurgedEntries
    <3>2. QED BY <2>1, <2>2, <3>1
  <2>3. CASE t \notin DOMAIN cache'
    <3>1. \/ Saved[t].lastUsed + MaxAge < now
          \/ Cardinality(DOMAIN Saved) > CacheMax
      BY <1>3, <1>8, <2>1, <2>3, PurgedReason
    <3>2. /\ encoded[g].at \in Int /\ now \in Int
          /\ Saved[t].lastUsed \in Int /\ MaxAge \in Int
      <4>1. encoded[g] \in Reencoded /\ Saved[t] \in Entry
        BY <2>1, SavedType DEF TypeOK
      <4>2. QED BY <4>1, Md380CacheAssumption DEF Reencoded, Entry, TypeOK
    <3>3. QED BY <1>8, <2>1, <3>1, <3>2
  <2>4. QED BY <2>2, <2>3
<1>12. RecallInv'
  BY <1>1, <1>2, <1>3, <1>9, <1>11, RecallEncode
<1>13. QED BY <1>6, <1>12

LEMMA RecallStep ==
  TypeOK /\ RecallInv /\ OwnStateBack /\ [NextCache]_varsCache
    => RecallInv' /\ OwnStateBack'
<1> SUFFICES ASSUME TypeOK, RecallInv, OwnStateBack, [NextCache]_varsCache
             PROVE  RecallInv' /\ OwnStateBack'
  OBVIOUS
<1>1. CASE Tick
  <2>1. /\ now' = now + 1
        /\ UNCHANGED <<ram, encStream, cache, encoded>>
    BY <1>1 DEF Tick
  <2>2. OwnStateBack'
    BY <2>1 DEF OwnStateBack, Of, StreamsUpTo
  <2>3. \A f \in DOMAIN encoded : encoded[f].at \in Int
    <3>1. \A f \in DOMAIN encoded : encoded[f] \in Reencoded
      BY DEF TypeOK
    <3>2. QED BY <3>1 DEF Reencoded
  <2>4. now \in Int
    BY DEF TypeOK
  <2>5. \A f \in DOMAIN encoded : encoded[f].at <= now'
    BY <2>1, <2>3, <2>4 DEF RecallInv
  <2>6. ASSUME NEW t \in Streams \ {encStream}, NEW g \in DOMAIN encoded,
               LastOf(t, g)
        PROVE  Remembered(t, g)'
    <3>1. Remembered(t, g)
      BY <2>6 DEF RecallInv
    <3>2. encoded[g].at + MaxAge < now => encoded[g].at + MaxAge < now'
      BY <2>1, <2>3, <2>4, Md380CacheAssumption
    <3>3. Crowded' <=> Crowded
      BY <2>1 DEF Crowded, StreamsUpTo
    <3>4. QED BY <2>1, <3>1, <3>2, <3>3 DEF Remembered
  <2>7. \A t, g : LastOf(t, g)' <=> LastOf(t, g)
    BY <2>1 DEF LastOf, Of
  <2>8. RecallInv'
    BY <2>1, <2>5, <2>6, <2>7 DEF RecallInv, StreamsUpTo
  <2>9. QED BY <2>2, <2>8
<1>2. ASSUME NEW s \in Streams, ReencodeSameStream(s)
      PROVE  RecallInv' /\ OwnStateBack'
  BY <1>2, RecallSameStream
<1>3. ASSUME NEW s \in Streams, ReencodeSwitch(s)
      PROVE  RecallInv' /\ OwnStateBack'
  BY <1>3, RecallSwitch
<1>4. CASE UNCHANGED varsCache
  BY <1>4 DEF varsCache, RecallInv, OwnStateBack, Remembered, LastOf, Crowded, Of,
              StreamsUpTo
<1>5. QED BY <1>1, <1>2, <1>3, <1>4 DEF NextCache

-----------------------------------------------------------------------------
(* The inductive invariant of md380_state_cache: its types, its bound, and *)
(* that it remembers where every stream's own last frame left the encoder. *)
THEOREM CacheSound == SpecCache => []CacheInv
<1>1. InitCache => CacheInv
  BY TypeInit, BoundedInit, RecallInit DEF CacheInv
<1>2. CacheInv /\ [NextCache]_varsCache => CacheInv'
  BY TypeStep, BoundedStep, RecallStep DEF CacheInv
<1>3. QED BY <1>1, <1>2, PTL DEF SpecCache

(* RouteDmrPacket never keeps more than MD380_CACHE_MAX states, each of    *)
(* 128 KB, though it purges only when the stream changes, spares the new   *)
(* stream's entry, and visits the entries in no particular order.          *)
THEOREM CacheStaysBounded == SpecCache => []CacheBounded
<1>1. CacheInv => CacheBounded
  BY DEF CacheInv
<1>2. QED BY <1>1, CacheSound, PTL

(* A stream goes on from the state of its own last frame, however many     *)
(* streams have come in between over any time, if there is room in the     *)
(* cache for all of them and it has not been silent for too long: no order *)
(* of saves, restores and purges loses it or gives it another's state.     *)
THEOREM OwnStateComesBack == SpecCache => []OwnStateBack
<1>1. CacheInv => OwnStateBack
  BY DEF CacheInv
<1>2. QED BY <1>1, CacheSound, PTL
=============================================================================
