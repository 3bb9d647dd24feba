--------------------------- MODULE M17Halves_proofs ---------------------------
(***************************************************************************)
(* Proofs about M17Halves, for any modules, codecs and bounds.             *)
(*                                                                         *)
(* Both properties rest on order: packets of one module and one decoder    *)
(* reach the codec2 thread in the order in which they were spoken, so that *)
(* nothing of theirs can come between the two packets of a pair.           *)
(***************************************************************************)
EXTENDS M17Halves, Functions, TLAPS

(* A half of a frame, which need not be one that has been sent. *)
Halves == [m : Modules, stream : 1..MaxStreams, seq : Nat, codecIn : Codecs]

TypeInv ==
  /\ talking \in [Modules -> Packets \cup {NoPacket}]
  /\ \A m \in Modules : talking[m] # NoPacket => talking[m].m = m
  /\ streams \in 0..MaxStreams
  /\ decoding \in [Decoders -> Seq(Packets)]
  /\ \A c \in Decoders : \A p \in Range(decoding[c]) : p.codecIn = c
  /\ codec2Queue \in Seq(Packets)
  /\ held \subseteq Packets
  /\ dataStore \in [Modules -> Packets \cup {NoPacket}]
  /\ audioStore \in [Modules -> (Halves \cup {NoPacket}) \X Nat]

Alike(p, q) == p.m = q.m /\ p.codecIn = q.codecIn
Before(p, q) == p.stream < q.stream \/ (p.stream = q.stream /\ p.seq < q.seq)

Ahead(S, T) == \A p \in S : \A q \in T : Alike(p, q) => Before(p, q)
Ordered(s) ==
  \A i, j \in DOMAIN s : i < j /\ Alike(s[i], s[j]) => Before(s[i], s[j])

(* What has been spoken on a module is older than what is spoken next. *)
Older(p) == p.stream <= streams
              /\ (talking[p.m] # NoPacket => Before(p, talking[p.m]))

AirInv ==
  /\ \A m \in Modules : talking[m] # NoPacket => talking[m].stream <= streams
  /\ \A p \in held \cup Range(codec2Queue) : Older(p)
  /\ \A c \in Decoders : \A p \in Range(decoding[c]) : Older(p)

(* From the codec2 thread back to the decoders, alike packets are in the   *)
(* order in which they were spoken.                                        *)
WayInv ==
  /\ Ordered(codec2Queue)
  /\ \A c \in Decoders : Ordered(decoding[c])
  /\ Ahead(held, Range(codec2Queue))
  /\ \A c \in Decoders : Ahead(held \cup Range(codec2Queue), Range(decoding[c]))

(* A store keeps a first packet that was held, or what is its mate's, and  *)
(* of those alike it the last.                                             *)
DataInv ==
  /\ \A m \in Modules :
       dataStore[m] # NoPacket => dataStore[m] \in held /\ dataStore[m].m = m
  /\ \A h \in held : ~ IsM17(h.codecIn) =>
       /\ dataStore[h.m] # NoPacket
       /\ dataStore[h.m].codecIn = h.codecIn =>
            dataStore[h.m] = h \/ Before(h, dataStore[h.m])

Stored(m, h) == audioStore[m][1] = Mate(h) /\ h.m = m /\ h.codecIn = "c2_1600"

AudioInv ==
  /\ \A m \in Modules : audioStore[m][1] # NoPacket =>
       \E h \in held : Stored(m, h)
  /\ \A h \in held : h.codecIn = "c2_1600" =>
       /\ audioStore[h.m][1] # NoPacket
       /\ \A g \in held : Stored(h.m, g) => g = h \/ Before(h, g)

HalvesInv ==
  /\ TypeInv /\ AirInv /\ WayInv
  /\ \A h \in held : ~ IsSecond(h)
  /\ DataInv /\ AudioInv
  /\ FrameOfOnePair /\ AudioOfOwnPacket

-----------------------------------------------------------------------------
(* Packets and sequences.                                                  *)

LEMMA PacketFields ==
  ASSUME NEW p \in Packets
  PROVE  /\ p.m \in Modules /\ p.codecIn \in Codecs
         /\ p.stream \in 1..MaxStreams /\ p.stream \in Nat
         /\ p.seq \in 0..MaxSequence /\ p.seq \in Nat
         /\ p # NoPacket
<1>1. /\ p.m \in Modules /\ p.codecIn \in Codecs
      /\ p.stream \in 1..MaxStreams /\ p.stream \in Nat
      /\ p.seq \in 0..MaxSequence /\ p.seq \in Nat
  BY M17HalvesAssumption DEF Packets
<1>2. p = [m |-> p.m, stream |-> p.stream, seq |-> p.seq, codecIn |-> p.codecIn]
  BY DEF Packets
<1>3. p \in [m : Modules, stream : Nat, seq : Nat, codecIn : Codecs]
  BY <1>1, <1>2
<1>4. QED BY <1>1, <1>3, M17HalvesAssumption

LEMMA HalfNotNone ==
  ASSUME NEW p \in Halves
  PROVE  p # NoPacket
<1>1. p = [m |-> p.m, stream |-> p.stream, seq |-> p.seq, codecIn |-> p.codecIn]
  BY DEF Halves
<1>2. /\ p.m \in Modules /\ p.codecIn \in Codecs /\ p.stream \in Nat
      /\ p.seq \in Nat
  BY M17HalvesAssumption DEF Halves
<1>3. p \in [m : Modules, stream : Nat, seq : Nat, codecIn : Codecs]
  BY <1>1, <1>2
<1>4. QED BY <1>3, M17HalvesAssumption

(* The mate of a packet, which may be one too many for its stream.         *)
LEMMA MateFields ==
  ASSUME NEW p \in Packets
  PROVE  /\ Mate(p) \in Halves
         /\ Mate(p).m = p.m /\ Mate(p).codecIn = p.codecIn
         /\ Mate(p).stream = p.stream
         /\ Mate(p).seq = IF IsSecond(p) THEN p.seq - 1 ELSE p.seq + 1
         /\ IsSecond(p) => p.seq > 0
<1>1. PICK n : n = IF IsSecond(p) THEN p.seq - 1 ELSE p.seq + 1
  OBVIOUS
<1>2. n \in Nat /\ (IsSecond(p) => p.seq > 0)
  BY <1>1, PacketFields DEF IsSecond
<1>3. Mate(p) = [m |-> p.m, stream |-> p.stream, seq |-> n, codecIn |-> p.codecIn]
  BY <1>1 DEF Mate, Packets
<1>4. QED BY <1>1, <1>2, <1>3, PacketFields DEF Halves

LEMMA MateOfFirst ==
  ASSUME NEW p \in Packets, ~ IsSecond(p)
  PROVE  Mate(p) = [m |-> p.m, stream |-> p.stream, seq |-> p.seq + 1,
                    codecIn |-> p.codecIn]
  BY DEF Mate, Packets

(* Two packets of a pair are each other's mates. *)
LEMMA MateOfMate ==
  ASSUME NEW p \in Packets, NEW q \in Packets, IsSecond(p), q = Mate(p)
  PROVE  ~ IsSecond(q) /\ Mate(q) = p
<1>1. /\ p.m = q.m /\ p.codecIn = q.codecIn /\ p.stream = q.stream
      /\ q.seq = p.seq - 1 /\ p.seq \in Nat /\ q.seq \in Nat
  BY MateFields, PacketFields
<1>2. ~ IsSecond(q)
  BY <1>1 DEF IsSecond
<1>3. Mate(q) = p
  <2>1. Mate(q) = [m |-> q.m, stream |-> q.stream, seq |-> q.seq + 1,
                   codecIn |-> q.codecIn]
    BY <1>2, MateOfFirst
  <2>2. q.seq + 1 = p.seq
    BY <1>1
  <2>3. p = [m |-> p.m, stream |-> p.stream, seq |-> p.seq, codecIn |-> p.codecIn]
    BY DEF Packets
  <2>4. QED BY <1>1, <2>1, <2>2, <2>3
<1>4. QED BY <1>2, <1>3

(* Nothing alike is spoken between the two packets of a pair.              *)
LEMMA NothingBetween ==
  ASSUME NEW p \in Packets, NEW q \in Packets, IsSecond(p),
         q = Mate(p) \/ Before(Mate(p), q), Before(q, p), Alike(q, p)
  PROVE  q = Mate(p)
<1>1. /\ Mate(p).stream = p.stream /\ Mate(p).seq = p.seq - 1
      /\ p.seq \in Nat /\ q.seq \in Nat /\ p.stream \in Nat /\ q.stream \in Nat
  BY MateFields, PacketFields
<1>2. ~ Before(Mate(p), q)
  BY <1>1 DEF Before
<1>3. QED BY <1>2

LEMMA AppendRange ==
  ASSUME NEW S, NEW s \in Seq(S), NEW e \in S
  PROVE  /\ Append(s, e) \in Seq(S)
         /\ Range(Append(s, e)) = Range(s) \cup {e}
<1>1. /\ Append(s, e) \in Seq(S)
      /\ DOMAIN Append(s, e) = DOMAIN s \cup {Len(s) + 1}
      /\ \A i \in DOMAIN s : Append(s, e)[i] = s[i]
      /\ Append(s, e)[Len(s) + 1] = e
  OBVIOUS
<1>2. QED BY <1>1 DEF Range

LEMMA AppendOrdered ==
  ASSUME NEW S, NEW s \in Seq(S), NEW e \in S, Ordered(s), Ahead(Range(s), {e})
  PROVE  Ordered(Append(s, e))
<1>1. PICK t, n : t = Append(s, e) /\ n = Len(s)
  OBVIOUS
<1>2. /\ n \in Nat /\ DOMAIN s = 1..n /\ DOMAIN t = 1..(n + 1)
      /\ \A i \in 1..n : t[i] = s[i]
      /\ t[n + 1] = e
  BY <1>1
<1>3. ASSUME NEW i \in DOMAIN t, NEW j \in DOMAIN t, i < j, Alike(t[i], t[j])
      PROVE  Before(t[i], t[j])
  <2>1. i \in 1..n /\ (j \in 1..n \/ j = n + 1)
    BY <1>2, <1>3
  <2>2. t[i] = s[i] /\ s[i] \in Range(s)
    BY <1>2, <2>1 DEF Range
  <2>3. CASE j \in 1..n
    BY <1>2, <1>3, <2>1, <2>2, <2>3 DEF Ordered
  <2>4. CASE j = n + 1
    BY <1>2, <1>3, <2>2, <2>4 DEF Ahead
  <2>5. QED BY <2>1, <2>3, <2>4
<1>4. QED BY <1>1, <1>3 DEF Ordered

LEMMA TailRange ==
  ASSUME NEW S, NEW s \in Seq(S), s # <<>>
  PROVE  /\ Tail(s) \in Seq(S) /\ Head(s) \in S
         /\ Head(s) \in Range(s) /\ Range(Tail(s)) \subseteq Range(s)
<1>1. /\ Tail(s) \in Seq(S) /\ Head(s) \in S
      /\ Head(s) = s[1] /\ 1 \in DOMAIN s
      /\ \A i \in DOMAIN Tail(s) : i + 1 \in DOMAIN s /\ Tail(s)[i] = s[i + 1]
  OBVIOUS
<1>2. QED BY <1>1 DEF Range

LEMMA TailOrdered ==
  ASSUME NEW S, NEW s \in Seq(S), s # <<>>, Ordered(s)
  PROVE  Ordered(Tail(s)) /\ Ahead({Head(s)}, Range(Tail(s)))
<1>1. PICK t : t = Tail(s)
  OBVIOUS
<1>2. /\ Head(s) = s[1] /\ 1 \in DOMAIN s
      /\ \A i \in DOMAIN t : /\ i \in Nat /\ i + 1 \in DOMAIN s /\ 1 < i + 1
                             /\ t[i] = s[i + 1]
  BY <1>1
<1>3. \A i, j \in DOMAIN t : i < j => i + 1 < j + 1
  BY <1>2
<1>4. Ordered(t)
  BY <1>2, <1>3 DEF Ordered
<1>5. \A i \in DOMAIN t : Alike(Head(s), t[i]) => Before(Head(s), t[i])
  BY <1>2 DEF Ordered
<1>6. Ahead({Head(s)}, Range(t))
  BY <1>5 DEF Ahead, Range
<1>7. QED BY <1>1, <1>4, <1>6

(* A packet has one mate, and is the only one whose mate that is.          *)
LEMMA MateOnce ==
  ASSUME NEW p \in Packets, NEW q \in Packets, ~ IsSecond(p), ~ IsSecond(q),
         Mate(p) = Mate(q)
  PROVE  p = q
<1>1. /\ p.m = q.m /\ p.codecIn = q.codecIn /\ p.stream = q.stream
      /\ p.seq + 1 = q.seq + 1
  BY MateFields
<1>2. p.seq = q.seq
  BY <1>1, PacketFields
<1>3. /\ p = [m |-> p.m, stream |-> p.stream, seq |-> p.seq, codecIn |-> p.codecIn]
      /\ q = [m |-> q.m, stream |-> q.stream, seq |-> q.seq, codecIn |-> q.codecIn]
  BY DEF Packets
<1>4. QED BY <1>1, <1>2, <1>3

-----------------------------------------------------------------------------
LEMMA HalvesInit == InitHalves => HalvesInv
<1> SUFFICES ASSUME InitHalves PROVE HalvesInv
  OBVIOUS
<1> USE DEF InitHalves
<1>1. /\ held = {} /\ codec2Queue = <<>> /\ Range(codec2Queue) = {}
      /\ \A c \in Decoders : decoding[c] = <<>> /\ Range(decoding[c]) = {}
  BY DEF Range
<1>2. TypeInv
  <2>1. <<>> \in Seq(Packets)
    OBVIOUS
  <2>2. <<NoHalf, 0>> \in (Halves \cup {NoPacket}) \X Nat
    BY DEF NoHalf
  <2>3. 0 \in 0..MaxStreams
    BY M17HalvesAssumption
  <2>4. QED BY <1>1, <2>1, <2>2, <2>3 DEF TypeInv, NoHalf
<1>3. AirInv
  BY <1>1 DEF AirInv
<1>4. WayInv
  BY <1>1 DEF WayInv, Ordered, Ahead
<1>5. DataInv
  BY <1>1 DEF DataInv, NoHalf
<1>6. AudioInv
  BY <1>1 DEF AudioInv, NoHalf
<1>7. FrameOfOnePair /\ AudioOfOwnPacket
  BY DEF FrameOfOnePair, AudioOfOwnPacket, Joined
<1>8. QED BY <1>1, <1>2, <1>3, <1>4, <1>5, <1>6, <1>7 DEF HalvesInv

(* What the codec2 thread is done with and has stored stays as it is while *)
(* it does nothing.                                                        *)
LEMMA ThreadIdle ==
  ASSUME HalvesInv, UNCHANGED <<storeVars, doneVars>>
  PROVE  /\ \A h \in held' : ~ IsSecond(h)
         /\ DataInv' /\ AudioInv' /\ FrameOfOnePair' /\ AudioOfOwnPacket'
BY DEF HalvesInv, storeVars, doneVars, DataInv, AudioInv, Stored,
       FrameOfOnePair, AudioOfOwnPacket, Joined

LEMMA InPackets ==
  ASSUME TypeInv
  PROVE  /\ held \cup Range(codec2Queue) \subseteq Packets
         /\ \A c \in Decoders : Range(decoding[c]) \subseteq Packets
<1>1. ASSUME NEW s \in Seq(Packets) PROVE Range(s) \subseteq Packets
  BY DEF Range
<1>2. QED BY <1>1 DEF TypeInv

LEMMA StartsKeeps ==
  ASSUME HalvesInv, NEW m \in Modules, NEW codec \in Codecs, StreamStarts(m, codec)
  PROVE  HalvesInv'
<1>1. PICK n, p : n = streams + 1
                  /\ p = [m |-> m, stream |-> n, seq |-> 0, codecIn |-> codec]
  OBVIOUS
<1>2. /\ talking' = [talking EXCEPT ![m] = p]
      /\ streams' = n
      /\ UNCHANGED <<wayVars, storeVars, doneVars>>
  BY <1>1 DEF StreamStarts
<1>3. n \in 1..MaxStreams /\ streams \in Nat /\ n \in Nat
  BY <1>1, M17HalvesAssumption DEF StreamStarts, HalvesInv, TypeInv
<1>4. p \in Packets /\ p.m = m /\ p.stream = n
  BY <1>1, <1>3, M17HalvesAssumption DEF Packets
<1>5. TypeInv'
  <2>1. \A k \in Modules : talking'[k] = IF k = m THEN p ELSE talking[k]
    BY <1>2 DEF HalvesInv, TypeInv
  <2>2. talking' \in [Modules -> Packets \cup {NoPacket}]
    BY <1>2, <1>4 DEF HalvesInv, TypeInv
  <2>3. QED
    BY <1>2, <1>3, <1>4, <2>1, <2>2
    DEF HalvesInv, TypeInv, wayVars, storeVars, doneVars
<1>6. ASSUME NEW q \in Packets, Older(q) PROVE Older(q)'
  <2>1. q.m \in Modules /\ q.stream \in Nat
    BY PacketFields
  <2>2. q.stream < n
    BY <1>1, <1>3, <1>6, <2>1 DEF Older
  <2>3. talking'[q.m] = IF q.m = m THEN p ELSE talking[q.m]
    BY <1>2, <2>1 DEF HalvesInv, TypeInv
  <2>4. CASE q.m = m
    BY <1>2, <1>3, <1>4, <2>1, <2>2, <2>3, <2>4 DEF Older, Before
  <2>5. CASE q.m # m
    BY <1>2, <1>3, <1>6, <2>1, <2>2, <2>3, <2>5 DEF Older
  <2>6. QED BY <2>4, <2>5
<1>7. AirInv'
  <2>1. ASSUME NEW k \in Modules, talking'[k] # NoPacket
        PROVE  talking'[k].stream <= streams'
    <3>1. talking'[k] = IF k = m THEN p ELSE talking[k]
      BY <1>2 DEF HalvesInv, TypeInv
    <3>2. CASE k = m
      BY <1>2, <1>3, <1>4, <3>1, <3>2
    <3>3. CASE k # m
      <4>1. talking[k] \in Packets /\ talking[k].stream <= streams
        BY <2>1, <3>1, <3>3 DEF HalvesInv, TypeInv, AirInv
      <4>2. talking[k].stream \in Nat
        BY <4>1, PacketFields
      <4>3. QED BY <1>1, <1>2, <1>3, <3>1, <3>3, <4>1, <4>2
    <3>4. QED BY <3>2, <3>3
  <2>2. /\ \A q \in held \cup Range(codec2Queue) : Older(q)'
        /\ \A c \in Decoders : \A q \in Range(decoding[c]) : Older(q)'
    BY <1>6, InPackets DEF HalvesInv, AirInv
  <2>3. QED BY <1>2, <2>1, <2>2 DEF AirInv, wayVars, doneVars
<1>8. WayInv'
  BY <1>2 DEF HalvesInv, WayInv, wayVars, doneVars
<1>9. QED BY <1>2, <1>5, <1>7, <1>8, ThreadIdle DEF HalvesInv

LEMMA EndsKeeps ==
  ASSUME HalvesInv, NEW m \in Modules, StreamEnds(m)
  PROVE  HalvesInv'
<1>1. /\ talking' = [talking EXCEPT ![m] = NoPacket] /\ streams' = streams
      /\ UNCHANGED <<wayVars, storeVars, doneVars>>
  BY DEF StreamEnds
<1>2. \A k \in Modules : talking'[k] = IF k = m THEN NoPacket ELSE talking[k]
  BY <1>1 DEF HalvesInv, TypeInv
<1>3. TypeInv'
  <2>1. talking' \in [Modules -> Packets \cup {NoPacket}]
    BY <1>1 DEF HalvesInv, TypeInv
  <2>2. QED
    BY <1>1, <1>2, <2>1 DEF HalvesInv, TypeInv, wayVars, storeVars, doneVars
<1>4. ASSUME NEW q \in Packets, Older(q) PROVE Older(q)'
  <2>1. q.m \in Modules
    BY PacketFields
  <2>2. QED BY <1>1, <1>2, <1>4, <2>1 DEF Older
<1>5. AirInv'
  <2>1. /\ \A q \in held \cup Range(codec2Queue) : Older(q)'
        /\ \A c \in Decoders : \A q \in Range(decoding[c]) : Older(q)'
    BY <1>4, InPackets DEF HalvesInv, AirInv
  <2>2. QED BY <1>1, <1>2, <2>1 DEF HalvesInv, AirInv, wayVars, doneVars
<1>6. WayInv'
  BY <1>1 DEF HalvesInv, WayInv, wayVars, doneVars
<1>7. QED BY <1>1, <1>3, <1>5, <1>6, ThreadIdle DEF HalvesInv

(* The stream on a module goes on: what is spoken is older than the rest.  *)
LEMMA SpokenGoesOn ==
  ASSUME HalvesInv, NEW m \in Modules, Spoken(m), streams' = streams
  PROVE  /\ talking[m] \in Packets /\ talking[m].m = m
         /\ talking' \in [Modules -> Packets \cup {NoPacket}]
         /\ \A k \in Modules : talking'[k] # NoPacket =>
              talking'[k].m = k /\ talking'[k].stream <= streams'
         /\ \A q \in Packets : Older(q) => Older(q)'
         /\ \A q \in Packets : q = talking[m] => Older(q)'
<1>1. PICK p, q : p = talking[m] /\ q = [p EXCEPT !.seq = @ + 1]
  OBVIOUS
<1>2. /\ p \in Packets /\ p.m = m /\ p.stream <= streams
      /\ p.seq < MaxSequence
  BY <1>1 DEF Spoken, HalvesInv, TypeInv, AirInv
<1>3. /\ q \in Packets /\ q.m = m /\ q.stream = p.stream /\ q.seq = p.seq + 1
      /\ p.seq \in Nat /\ p.stream \in Nat
  <2>1. p.seq + 1 \in 0..MaxSequence
    BY <1>2, PacketFields, M17HalvesAssumption
  <2>2. QED BY <1>1, <1>2, <2>1, PacketFields DEF Packets
<1>4. talking' = [talking EXCEPT ![m] = q]
  BY <1>1 DEF Spoken
<1>5. \A k \in Modules : talking'[k] = IF k = m THEN q ELSE talking[k]
  BY <1>4 DEF HalvesInv, TypeInv
<1>6. talking' \in [Modules -> Packets \cup {NoPacket}]
  BY <1>3, <1>4 DEF HalvesInv, TypeInv
<1>7. \A k \in Modules : talking'[k] # NoPacket =>
        talking'[k].m = k /\ talking'[k].stream <= streams'
  BY <1>2, <1>3, <1>5 DEF HalvesInv, TypeInv, AirInv
<1>8. ASSUME NEW r \in Packets, Older(r) PROVE Older(r)'
  <2>1. r.m \in Modules /\ r.stream \in Nat /\ r.seq \in Nat
    BY PacketFields
  <2>2. CASE r.m = m
    <3>1. Before(r, p)
      BY <1>1, <1>2, <1>8, <2>2, PacketFields DEF Older
    <3>2. Before(r, q)
      BY <1>3, <2>1, <3>1 DEF Before
    <3>3. QED BY <1>5, <1>8, <2>1, <2>2, <3>2 DEF Older
  <2>3. CASE r.m # m
    BY <1>5, <1>8, <2>1, <2>3 DEF Older
  <2>4. QED BY <2>2, <2>3
<1>9. Older(p)'
  <2>1. Before(p, q)
    BY <1>3 DEF Before
  <2>2. talking'[p.m] = q /\ streams' = streams
    BY <1>2, <1>5
  <2>3. QED BY <1>2, <2>1, <2>2 DEF Older
<1>10. QED BY <1>1, <1>2, <1>6, <1>7, <1>8, <1>9

LEMMA MissKeeps ==
  ASSUME HalvesInv, NEW m \in Modules, Miss(m)
  PROVE  HalvesInv'
<1>1. /\ Spoken(m) /\ streams' = streams
      /\ UNCHANGED <<wayVars, storeVars, doneVars>>
  BY DEF Miss
<1>2. /\ talking' \in [Modules -> Packets \cup {NoPacket}]
      /\ \A k \in Modules : talking'[k] # NoPacket =>
           talking'[k].m = k /\ talking'[k].stream <= streams'
      /\ \A q \in Packets : Older(q) => Older(q)'
  BY <1>1, SpokenGoesOn
<1>3. TypeInv'
  BY <1>1, <1>2 DEF HalvesInv, TypeInv, wayVars, storeVars, doneVars
<1>4. /\ \A q \in held \cup Range(codec2Queue) : Older(q)'
      /\ \A c \in Decoders : \A q \in Range(decoding[c]) : Older(q)'
  BY <1>2, InPackets DEF HalvesInv, AirInv
<1>5. AirInv'
  BY <1>1, <1>2, <1>4 DEF AirInv, wayVars, doneVars
<1>6. WayInv'
  BY <1>1 DEF HalvesInv, WayInv, wayVars, doneVars
<1>7. QED BY <1>1, <1>3, <1>5, <1>6, ThreadIdle DEF HalvesInv

(* A packet that enters codec2_queue behind all that are alike, and before *)
(* those that are still being decoded.                                     *)
LEMMA QueueGrows ==
  ASSUME HalvesInv, NEW p \in Packets,
         codec2Queue' = Append(codec2Queue, p), UNCHANGED <<storeVars, doneVars>>,
         \A c \in Decoders :
           /\ Range(decoding[c])' \subseteq Range(decoding[c])
           /\ Ordered(decoding[c])'
           /\ Ahead({p}, Range(decoding[c])'),
         Ahead(held \cup Range(codec2Queue), {p})
  PROVE  /\ codec2Queue' \in Seq(Packets)
         /\ Range(codec2Queue)' = Range(codec2Queue) \cup {p}
         /\ WayInv'
<1>1. PICK q : q = codec2Queue'
  OBVIOUS
<1>2. /\ q \in Seq(Packets)
      /\ Range(q) = Range(codec2Queue) \cup {p}
  BY <1>1, AppendRange DEF HalvesInv, TypeInv
<1>3. held' = held
  BY DEF doneVars
<1>4. Ordered(q)
  <2>1. Ordered(codec2Queue) /\ codec2Queue \in Seq(Packets)
    BY DEF HalvesInv, WayInv, TypeInv
  <2>2. Ahead(Range(codec2Queue), {p})
    BY DEF Ahead
  <2>3. QED BY <1>1, <2>1, <2>2, AppendOrdered
<1>5. Ahead(held, Range(q))
  BY <1>2 DEF HalvesInv, WayInv, Ahead
<1>6. ASSUME NEW c \in Decoders
      PROVE  Ahead(held \cup Range(q), Range(decoding[c])')
  BY <1>2 DEF HalvesInv, WayInv, Ahead
<1>7. WayInv'
  BY <1>1, <1>3, <1>4, <1>5, <1>6 DEF WayInv
<1>8. QED BY <1>1, <1>2, <1>7

LEMMA ReceiveKeeps ==
  ASSUME HalvesInv, NEW m \in Modules, Receive(m)
  PROVE  HalvesInv'
<1>1. PICK p : p = talking[m]
  OBVIOUS
<1>2. Spoken(m) /\ streams' = streams /\ UNCHANGED <<storeVars, doneVars>>
  BY DEF Receive
<1>3. /\ p \in Packets /\ p.m = m /\ Older(p)'
      /\ talking' \in [Modules -> Packets \cup {NoPacket}]
      /\ \A k \in Modules : talking'[k] # NoPacket =>
           talking'[k].m = k /\ talking'[k].stream <= streams'
      /\ \A q \in Packets : Older(q) => Older(q)'
  BY <1>1, <1>2, SpokenGoesOn
<1>4. /\ held \cup Range(codec2Queue) \subseteq Packets
      /\ \A c \in Decoders : Range(decoding[c]) \subseteq Packets
  BY InPackets DEF HalvesInv
<1>5. /\ Ahead(held \cup Range(codec2Queue), {p})
      /\ \A c \in Decoders : Ahead(Range(decoding[c]), {p})
  <2>1. ASSUME NEW q, Older(q), Alike(q, p) PROVE Before(q, p)
    BY <1>1, <1>3, <2>1, PacketFields DEF Older, Alike
  <2>2. QED BY <2>1 DEF HalvesInv, AirInv, Ahead
<1>6. CASE IsM17(p.codecIn)
  <2>1. codec2Queue' = Append(codec2Queue, p) /\ decoding' = decoding
    BY <1>1, <1>6 DEF Receive
  <2>2. ASSUME NEW c \in Decoders
        PROVE  /\ Range(decoding[c])' \subseteq Range(decoding[c])
               /\ Ordered(decoding[c])'
               /\ Ahead({p}, Range(decoding[c])')
    <3>1. decoding[c]' = decoding[c]
      BY <2>1
    <3>2. \A q \in Range(decoding[c]) : ~ Alike(p, q)
      BY <1>6 DEF HalvesInv, TypeInv, Alike, Decoders
    <3>3. QED BY <3>1, <3>2 DEF HalvesInv, WayInv, Ahead
  <2>3. /\ codec2Queue' \in Seq(Packets)
        /\ Range(codec2Queue)' = Range(codec2Queue) \cup {p}
        /\ WayInv'
    BY <1>2, <1>3, <1>5, <2>1, <2>2, QueueGrows
  <2>4. TypeInv'
    BY <1>2, <1>3, <2>1, <2>3 DEF HalvesInv, TypeInv, storeVars, doneVars
  <2>5. AirInv'
    <3>1. \A q \in (held \cup Range(codec2Queue))' : Older(q)'
      BY <1>2, <1>3, <1>4, <2>3 DEF HalvesInv, AirInv, doneVars
    <3>2. \A c \in Decoders : \A q \in Range(decoding[c])' : Older(q)'
      BY <1>3, <1>4, <2>1 DEF HalvesInv, AirInv
    <3>3. QED BY <1>3, <3>1, <3>2 DEF AirInv
  <2>6. QED BY <1>2, <2>3, <2>4, <2>5, ThreadIdle DEF HalvesInv
<1>7. CASE ~ IsM17(p.codecIn)
  <2>1. /\ codec2Queue' = codec2Queue
        /\ decoding' = [decoding EXCEPT ![p.codecIn] = Append(@, p)]
    BY <1>1, <1>7 DEF Receive
  <2>2. p.codecIn \in Decoders
    BY <1>3, <1>7, PacketFields DEF Decoders
  <2>3. ASSUME NEW c \in Decoders
        PROVE  /\ decoding'[c] \in Seq(Packets)
               /\ Range(decoding'[c]) = IF c = p.codecIn
                                          THEN Range(decoding[c]) \cup {p}
                                          ELSE Range(decoding[c])
               /\ Ordered(decoding'[c])
    <3>1. PICK s : s = decoding[c]
      OBVIOUS
    <3>2. decoding'[c] = IF c = p.codecIn THEN Append(s, p) ELSE s
      BY <2>1, <3>1 DEF HalvesInv, TypeInv
    <3>3. s \in Seq(Packets) /\ Ordered(s) /\ Ahead(Range(s), {p})
      BY <1>5, <3>1 DEF HalvesInv, TypeInv, WayInv
    <3>4. /\ Append(s, p) \in Seq(Packets)
          /\ Range(Append(s, p)) = Range(s) \cup {p}
          /\ Ordered(Append(s, p))
      BY <1>3, <3>3, AppendRange, AppendOrdered
    <3>5. QED BY <3>1, <3>2, <3>3, <3>4
  <2>4. decoding' \in [Decoders -> Seq(Packets)]
    BY <2>1, <2>3 DEF HalvesInv, TypeInv
  <2>5. TypeInv'
    <3>1. \A c \in Decoders : \A q \in Range(decoding[c])' : q.codecIn = c
      BY <2>3 DEF HalvesInv, TypeInv
    <3>2. QED
      BY <1>2, <1>3, <2>1, <2>4, <3>1
      DEF HalvesInv, TypeInv, storeVars, doneVars
  <2>6. AirInv'
    <3>1. \A q \in (held \cup Range(codec2Queue))' : Older(q)'
      BY <1>2, <1>3, <1>4, <2>1 DEF HalvesInv, AirInv, doneVars
    <3>2. \A c \in Decoders : \A q \in Range(decoding'[c]) : Older(q)'
      BY <1>3, <1>4, <2>3 DEF HalvesInv, AirInv
    <3>3. QED BY <1>3, <3>1, <3>2 DEF AirInv
  <2>7. WayInv'
    <3>1. \A c \in Decoders :
            Ahead(held \cup Range(codec2Queue), Range(decoding'[c]))
      BY <1>5, <2>3 DEF HalvesInv, WayInv, Ahead
    <3>2. QED BY <1>2, <2>1, <2>3, <3>1 DEF HalvesInv, WayInv, doneVars
  <2>8. QED BY <1>2, <2>5, <2>6, <2>7, ThreadIdle DEF HalvesInv
<1>8. QED BY <1>6, <1>7

LEMMA DecodedKeeps ==
  ASSUME HalvesInv, NEW d \in Decoders, Decoded(d)
  PROVE  HalvesInv'
<1>1. PICK s, p : s = decoding[d] /\ p = Head(s)
  OBVIOUS
<1>2. /\ s # <<>> /\ decoding' = [decoding EXCEPT ![d] = Tail(s)]
      /\ codec2Queue' = Append(codec2Queue, p)
      /\ UNCHANGED airVars /\ UNCHANGED <<storeVars, doneVars>>
  BY <1>1 DEF Decoded
<1>3. /\ s \in Seq(Packets) /\ Ordered(s)
      /\ Ahead(held \cup Range(codec2Queue), Range(s))
  BY <1>1 DEF HalvesInv, TypeInv, WayInv
<1>4. /\ p \in Packets /\ p \in Range(s) /\ Tail(s) \in Seq(Packets)
      /\ Range(Tail(s)) \subseteq Range(s)
      /\ Ordered(Tail(s)) /\ Ahead({p}, Range(Tail(s)))
  BY <1>1, <1>2, <1>3, TailRange, TailOrdered
<1>5. p.codecIn = d /\ Older(p)
  BY <1>1, <1>4 DEF HalvesInv, TypeInv, AirInv
<1>6. ASSUME NEW c \in Decoders
      PROVE  /\ Range(decoding[c])' \subseteq Range(decoding[c])
             /\ Ordered(decoding[c])'
             /\ Ahead({p}, Range(decoding[c])')
             /\ decoding'[c] \in Seq(Packets)
  <2>1. decoding'[c] = IF c = d THEN Tail(s) ELSE decoding[c]
    BY <1>2 DEF HalvesInv, TypeInv
  <2>2. CASE c = d
    BY <1>1, <1>4, <2>1, <2>2
  <2>3. CASE c # d
    <3>1. \A q \in Range(decoding[c]) : ~ Alike(p, q)
      BY <1>5, <2>3 DEF HalvesInv, TypeInv, Alike
    <3>2. QED BY <2>1, <2>3, <3>1 DEF HalvesInv, TypeInv, WayInv, Ahead
  <2>4. QED BY <2>2, <2>3
<1>7. Ahead(held \cup Range(codec2Queue), {p})
  BY <1>3, <1>4 DEF Ahead
<1>8. /\ codec2Queue' \in Seq(Packets)
      /\ Range(codec2Queue)' = Range(codec2Queue) \cup {p}
      /\ WayInv'
  BY <1>2, <1>4, <1>6, <1>7, QueueGrows
<1>9. TypeInv'
  <2>1. decoding' \in [Decoders -> Seq(Packets)]
    BY <1>2, <1>4 DEF HalvesInv, TypeInv
  <2>2. \A c \in Decoders : \A q \in Range(decoding[c])' : q.codecIn = c
    BY <1>6 DEF HalvesInv, TypeInv
  <2>3. QED
    BY <1>2, <1>8, <2>1, <2>2
    DEF HalvesInv, TypeInv, airVars, storeVars, doneVars
<1>10. AirInv'
  <2>1. \A q : Older(q) => Older(q)'
    BY <1>2 DEF Older, airVars
  <2>2. \A q \in (held \cup Range(codec2Queue))' : Older(q)'
    BY <1>2, <1>5, <1>8, <2>1 DEF HalvesInv, AirInv, doneVars
  <2>3. \A c \in Decoders : \A q \in Range(decoding[c])' : Older(q)'
    BY <1>6, <2>1 DEF HalvesInv, AirInv
  <2>4. QED BY <1>2, <2>2, <2>3 DEF HalvesInv, AirInv, airVars
<1>11. QED BY <1>2, <1>8, <1>9, <1>10, ThreadIdle DEF HalvesInv

-----------------------------------------------------------------------------
(* The packet the codec2 thread takes comes after all of its kind that it  *)
(* held before.                                                            *)
LEMMA TakenInTurn ==
  ASSUME HalvesInv, codec2Queue # <<>>,
         NEW p, p = Head(codec2Queue), NextPacket(p)
  PROVE  /\ p \in Packets
         /\ held \subseteq Packets /\ \A h \in held : ~ IsSecond(h)
         /\ \A h \in held : Alike(h, p) => Before(h, p)
         /\ held' \subseteq Packets /\ \A h \in held' : ~ IsSecond(h)
         /\ codec2Queue' \in Seq(Packets)
         /\ UNCHANGED <<talking, streams, decoding>>
         /\ AirInv' /\ WayInv'
<1>1. PICK q, t : q = codec2Queue /\ t = Tail(q)
  OBVIOUS
<1>2. /\ codec2Queue' = t /\ UNCHANGED <<talking, streams, decoding>>
      /\ held' = IF IsSecond(p) THEN held ELSE held \cup {p}
  BY <1>1 DEF NextPacket, airVars
<1>3. /\ q \in Seq(Packets) /\ Ordered(q)
      /\ held \subseteq Packets /\ \A h \in held : ~ IsSecond(h)
  BY <1>1 DEF HalvesInv, TypeInv, WayInv
<1>4. /\ p \in Packets /\ p \in Range(q) /\ t \in Seq(Packets)
      /\ Range(t) \subseteq Range(q)
      /\ Ordered(t) /\ Ahead({p}, Range(t))
  BY <1>1, <1>3, TailRange, TailOrdered
<1>5. \A h \in held : Alike(h, p) => Before(h, p)
  BY <1>1, <1>4 DEF HalvesInv, WayInv, Ahead
<1>6. held' \subseteq Packets /\ \A h \in held' : ~ IsSecond(h)
  BY <1>2, <1>3, <1>4
<1>7. held' \cup Range(t) \subseteq held \cup Range(q)
  BY <1>2, <1>4
<1>8. AirInv'
  <2>1. \A r : Older(r) => Older(r)'
    BY <1>2 DEF Older
  <2>2. \A r \in (held \cup Range(codec2Queue))' : Older(r)'
    BY <1>1, <1>2, <1>7, <2>1 DEF HalvesInv, AirInv
  <2>3. \A c \in Decoders : \A r \in Range(decoding[c])' : Older(r)'
    BY <1>2, <2>1 DEF HalvesInv, AirInv
  <2>4. QED BY <1>2, <2>2, <2>3 DEF HalvesInv, AirInv
<1>9. WayInv'
  <2>1. Ahead(held', Range(t))
    BY <1>1, <1>2, <1>4 DEF HalvesInv, WayInv, Ahead
  <2>2. \A c \in Decoders : Ahead(held' \cup Range(t), Range(decoding[c]))
    BY <1>1, <1>7 DEF HalvesInv, WayInv, Ahead
  <2>3. QED BY <1>2, <1>4, <2>1, <2>2 DEF HalvesInv, WayInv
<1>10. QED BY <1>1, <1>2, <1>3, <1>4, <1>5, <1>6, <1>8, <1>9

LEMMA EncodeFirstKeeps ==
  ASSUME HalvesInv, codec2Queue # <<>>,
         NEW p, p = Head(codec2Queue), EncodeFirst(p)
  PROVE  HalvesInv'
<1>1. /\ NextPacket(p) /\ ~ IsM17(p.codecIn) /\ ~ IsSecond(p)
      /\ dataStore' = [dataStore EXCEPT ![p.m] = p]
      /\ audio' = <<p, 1>> /\ audioStore' = audioStore
      /\ done' = p /\ held' = held \cup {p}
  BY DEF EncodeFirst, NextPacket
<1>2. /\ p \in Packets
      /\ held \subseteq Packets
      /\ \A h \in held : Alike(h, p) => Before(h, p)
      /\ held' \subseteq Packets /\ \A h \in held' : ~ IsSecond(h)
      /\ codec2Queue' \in Seq(Packets)
      /\ UNCHANGED <<talking, streams, decoding>>
      /\ AirInv' /\ WayInv'
  BY <1>1, TakenInTurn
<1>3. p.m \in Modules /\ p # NoPacket
  BY <1>2, PacketFields
<1>4. \A m \in Modules : dataStore'[m] = IF m = p.m THEN p ELSE dataStore[m]
  BY <1>1 DEF HalvesInv, TypeInv
<1>5. TypeInv'
  <2>1. dataStore' \in [Modules -> Packets \cup {NoPacket}]
    BY <1>1, <1>2 DEF HalvesInv, TypeInv
  <2>2. QED BY <1>1, <1>2, <2>1 DEF HalvesInv, TypeInv
<1>6. DataInv'
  <2>1. ASSUME NEW m \in Modules, dataStore'[m] # NoPacket
        PROVE  dataStore'[m] \in held' /\ dataStore'[m].m = m
    BY <1>1, <1>4, <2>1 DEF HalvesInv, DataInv
  <2>2. ASSUME NEW h \in held', ~ IsM17(h.codecIn)
        PROVE  /\ dataStore'[h.m] # NoPacket
               /\ dataStore'[h.m].codecIn = h.codecIn =>
                    dataStore'[h.m] = h \/ Before(h, dataStore'[h.m])
    <3>1. h.m \in Modules /\ (h = p \/ h \in held)
      BY <1>1, <1>2, PacketFields
    <3>2. CASE h.m = p.m
      BY <1>2, <1>3, <1>4, <3>1, <3>2 DEF Alike
    <3>3. CASE h.m # p.m
      BY <1>4, <2>2, <3>1, <3>3 DEF HalvesInv, DataInv
    <3>4. QED BY <3>2, <3>3
  <2>3. QED BY <2>1, <2>2 DEF DataInv
<1>7. AudioInv'
  <2>1. p.codecIn # "c2_1600"
    BY <1>1 DEF IsM17
  <2>2. QED BY <1>1, <2>1 DEF HalvesInv, AudioInv, Stored
<1>8. FrameOfOnePair' /\ AudioOfOwnPacket'
  BY <1>1 DEF FrameOfOnePair, AudioOfOwnPacket, Joined
<1>9. QED BY <1>2, <1>5, <1>6, <1>7, <1>8 DEF HalvesInv

LEMMA EncodeSecondKeeps ==
  ASSUME HalvesInv, codec2Queue # <<>>,
         NEW p, p = Head(codec2Queue), EncodeSecond(p)
  PROVE  HalvesInv'
<1>1. PICK d : d = dataStore[p.m]
  OBVIOUS
<1>2. /\ NextPacket(p) /\ ~ IsM17(p.codecIn) /\ IsSecond(p)
      /\ m17' = <<d, p>> /\ audio' = <<p, 1>>
      /\ UNCHANGED <<dataStore, audioStore>>
      /\ done' = p /\ held' = held
  BY <1>1 DEF EncodeSecond, NextPacket, storeVars
<1>3. /\ p \in Packets
      /\ held \subseteq Packets
      /\ \A h \in held : Alike(h, p) => Before(h, p)
      /\ held' \subseteq Packets /\ \A h \in held' : ~ IsSecond(h)
      /\ codec2Queue' \in Seq(Packets)
      /\ UNCHANGED <<talking, streams, decoding>>
      /\ AirInv' /\ WayInv'
  BY <1>2, TakenInTurn
<1>4. TypeInv'
  BY <1>2, <1>3 DEF HalvesInv, TypeInv
<1>5. DataInv' /\ AudioInv'
  BY <1>2 DEF HalvesInv, DataInv, AudioInv, Stored
<1>6. FrameOfOnePair'
  <2>1. p.m \in Modules
    BY <1>3, PacketFields
  <2>2. d # NoPacket => d \in held /\ d.m = p.m
    BY <1>1, <2>1 DEF HalvesInv, DataInv
  <2>3. ASSUME Mate(p) \in held, d.codecIn = p.codecIn PROVE d = Mate(p)
    <3>1. Mate(p).m = p.m /\ Mate(p).codecIn = p.codecIn
      BY <1>3, MateFields
    <3>2. d # NoPacket /\ (d = Mate(p) \/ Before(Mate(p), d))
      BY <1>1, <1>2, <2>3, <3>1 DEF HalvesInv, DataInv
    <3>3. d \in Packets /\ Alike(d, p) /\ Before(d, p)
      BY <1>3, <2>2, <2>3, <3>2 DEF Alike
    <3>4. QED BY <1>2, <1>3, <3>2, <3>3, NothingBetween
  <2>4. /\ m17'[1] = d /\ m17'[2] = p
        /\ d = Mate(p) => m17' = <<Mate(p), p>>
    BY <1>2
  <2>5. \/ m17' = <<Mate(p), p>>
        \/ /\ m17'[2] = p
           /\ m17'[1] # NoPacket => m17'[1].m = p.m
           /\ Mate(p) \notin held \/ m17'[1].codecIn # p.codecIn
    BY <2>2, <2>3, <2>4
  <2>6. QED BY <1>2, <2>5 DEF FrameOfOnePair, NoHalf
<1>7. AudioOfOwnPacket'
  BY <1>2 DEF AudioOfOwnPacket
<1>8. QED BY <1>3, <1>4, <1>5, <1>6, <1>7 DEF HalvesInv

LEMMA DecodeFirstKeeps ==
  ASSUME HalvesInv, codec2Queue # <<>>,
         NEW p, p = Head(codec2Queue), DecodeFirst(p)
  PROVE  HalvesInv'
<1>1. /\ NextPacket(p) /\ IsM17(p.codecIn) /\ ~ IsSecond(p)
      /\ audio' = <<p, 1>> /\ dataStore' = dataStore
      /\ audioStore' = IF p.codecIn = "c2_1600"
                         THEN [audioStore EXCEPT ![p.m] = <<Mate(p), 1>>]
                         ELSE audioStore
      /\ done' = p /\ held' = held \cup {p}
  BY DEF DecodeFirst, NextPacket
<1>2. /\ p \in Packets
      /\ held \subseteq Packets /\ \A h \in held : ~ IsSecond(h)
      /\ \A h \in held : Alike(h, p) => Before(h, p)
      /\ held' \subseteq Packets /\ \A h \in held' : ~ IsSecond(h)
      /\ codec2Queue' \in Seq(Packets)
      /\ UNCHANGED <<talking, streams, decoding>>
      /\ AirInv' /\ WayInv'
  BY <1>1, TakenInTurn
<1>3. p.m \in Modules /\ Mate(p) \in Halves /\ Mate(p) # NoPacket
  BY <1>2, PacketFields, MateFields, HalfNotNone
<1>4. TypeInv'
  <2>1. <<Mate(p), 1>> \in (Halves \cup {NoPacket}) \X Nat
    BY <1>3
  <2>2. audioStore' \in [Modules -> (Halves \cup {NoPacket}) \X Nat]
    BY <1>1, <2>1 DEF HalvesInv, TypeInv
  <2>3. QED BY <1>1, <1>2, <2>2 DEF HalvesInv, TypeInv
<1>5. DataInv'
  BY <1>1 DEF HalvesInv, DataInv
<1>6. AudioInv'
  <2>1. CASE p.codecIn # "c2_1600"
    BY <1>1, <2>1 DEF HalvesInv, AudioInv, Stored
  <2>2. CASE p.codecIn = "c2_1600"
    <3>1. \A m \in Modules :
            audioStore'[m] = IF m = p.m THEN <<Mate(p), 1>> ELSE audioStore[m]
      BY <1>1, <2>2 DEF HalvesInv, TypeInv
    <3>2. \A m \in Modules :
            audioStore'[m][1] = IF m = p.m THEN Mate(p) ELSE audioStore[m][1]
      BY <3>1
    <3>3. ASSUME NEW m \in Modules, audioStore'[m][1] # NoPacket
          PROVE  \E h \in held' : Stored(m, h)'
      <4>1. CASE m = p.m
        BY <1>1, <2>2, <3>2, <4>1 DEF Stored
      <4>2. CASE m # p.m
        <5>1. PICK h \in held : Stored(m, h)
          BY <3>2, <3>3, <4>2 DEF HalvesInv, AudioInv
        <5>2. Stored(m, h)'
          BY <3>2, <4>2, <5>1 DEF Stored
        <5>3. QED BY <1>1, <5>1, <5>2
      <4>3. QED BY <4>1, <4>2
    <3>4. ASSUME NEW h \in held', h.codecIn = "c2_1600"
          PROVE  /\ audioStore'[h.m][1] # NoPacket
                 /\ \A g \in held' : Stored(h.m, g)' => g = h \/ Before(h, g)
      <4>1. h \in Packets /\ h.m \in Modules /\ (h = p \/ h \in held)
        BY <1>1, <1>2, PacketFields
      <4>2. CASE h.m = p.m
        <5>1. \A g \in held' : Stored(h.m, g)' => g = p
          BY <1>1, <1>2, <3>2, <4>1, <4>2, MateOnce DEF Stored
        <5>2. h = p \/ Before(h, p)
          BY <1>2, <2>2, <3>4, <4>1, <4>2 DEF Alike
        <5>3. QED BY <1>3, <3>2, <4>1, <4>2, <5>1, <5>2
      <4>3. CASE h.m # p.m
        <5>1. h \in held /\ audioStore[h.m][1] # NoPacket
          BY <3>4, <4>1, <4>3 DEF HalvesInv, AudioInv
        <5>2. \A g \in held' : Stored(h.m, g)' => g \in held /\ Stored(h.m, g)
          BY <1>1, <3>2, <4>1, <4>3 DEF Stored
        <5>3. QED
          BY <3>2, <3>4, <4>1, <4>3, <5>1, <5>2 DEF HalvesInv, AudioInv
      <4>4. QED BY <4>2, <4>3
    <3>5. QED BY <3>3, <3>4 DEF AudioInv
  <2>3. QED BY <2>1, <2>2
<1>7. FrameOfOnePair' /\ AudioOfOwnPacket'
  BY <1>1 DEF FrameOfOnePair, AudioOfOwnPacket, Joined
<1>8. QED BY <1>2, <1>4, <1>5, <1>6, <1>7 DEF HalvesInv

LEMMA DecodeSecondKeeps ==
  ASSUME HalvesInv, codec2Queue # <<>>,
         NEW p, p = Head(codec2Queue), DecodeSecond(p)
  PROVE  HalvesInv'
<1>1. PICK a : a = audioStore[p.m][1]
  OBVIOUS
<1>2. /\ NextPacket(p) /\ IsSecond(p)
      /\ m17' = <<Mate(p), p>>
      /\ p.codecIn = "c2_1600" => audio'[1] = a
      /\ p.codecIn # "c2_1600" => audio'[1] = p
      /\ UNCHANGED <<dataStore, audioStore>>
      /\ done' = p /\ held' = held
  BY <1>1 DEF DecodeSecond, NextPacket, storeVars
<1>3. /\ p \in Packets
      /\ held \subseteq Packets /\ \A h \in held : ~ IsSecond(h)
      /\ \A h \in held : Alike(h, p) => Before(h, p)
      /\ held' \subseteq Packets /\ \A h \in held' : ~ IsSecond(h)
      /\ codec2Queue' \in Seq(Packets)
      /\ UNCHANGED <<talking, streams, decoding>>
      /\ AirInv' /\ WayInv'
  BY <1>2, TakenInTurn
<1>4. TypeInv'
  BY <1>2, <1>3 DEF HalvesInv, TypeInv
<1>5. DataInv' /\ AudioInv'
  BY <1>2 DEF HalvesInv, DataInv, AudioInv, Stored
<1>6. FrameOfOnePair'
  BY <1>2 DEF FrameOfOnePair
<1>7. AudioOfOwnPacket'
  <2>1. CASE p.codecIn # "c2_1600"
    BY <1>2, <2>1 DEF AudioOfOwnPacket
  <2>2. CASE p.codecIn = "c2_1600"
    <3>1. p.m \in Modules
      BY <1>3, PacketFields
    <3>2. ASSUME NEW h \in held, Stored(p.m, h)
          PROVE  /\ h \in Packets /\ a = Mate(h)
                 /\ Alike(h, p) /\ Before(h, p)
      BY <1>1, <1>3, <2>2, <3>2 DEF Stored, Alike
    <3>3. ASSUME Mate(p) \in held PROVE a = p
      <4>1. Mate(p).m = p.m /\ Mate(p).codecIn = p.codecIn
        BY <1>3, MateFields
      <4>2. PICK h \in held : Stored(p.m, h)
        BY <1>1, <2>2, <3>1, <3>3, <4>1 DEF HalvesInv, AudioInv
      <4>3. h = Mate(p) \/ Before(Mate(p), h)
        BY <2>2, <3>3, <4>1, <4>2 DEF HalvesInv, AudioInv
      <4>4. h = Mate(p)
        BY <1>2, <1>3, <3>2, <4>2, <4>3, NothingBetween
      <4>5. QED BY <1>2, <1>3, <3>2, <4>2, <4>4, MateOfMate
    <3>4. ASSUME a # NoPacket, a # p
          PROVE  /\ a.m = p.m /\ a.codecIn = "c2_1600"
                 /\ \/ a.stream < p.stream
                    \/ a.stream = p.stream /\ a.seq < p.seq
      <4>1. PICK h \in held : Stored(p.m, h)
        BY <1>1, <3>1, <3>4 DEF HalvesInv, AudioInv
      <4>2. h \in Packets /\ a = Mate(h) /\ Alike(h, p) /\ Before(h, p)
        BY <3>2, <4>1
      <4>3. a = [m |-> h.m, stream |-> h.stream, seq |-> h.seq + 1,
                 codecIn |-> h.codecIn]
        BY <1>3, <4>2, MateOfFirst
      <4>4. h.m = p.m /\ h.codecIn = p.codecIn
        BY <4>2 DEF Alike
      <4>5. CASE h.stream < p.stream
        BY <2>2, <4>3, <4>4, <4>5
      <4>6. CASE h.stream = p.stream /\ h.seq < p.seq
        <5>1. p = [m |-> p.m, stream |-> p.stream, seq |-> p.seq,
                   codecIn |-> p.codecIn]
          BY <1>3 DEF Packets
        <5>2. h.seq + 1 # p.seq
          BY <3>4, <4>3, <4>4, <4>6, <5>1
        <5>3. h.seq \in Nat /\ p.seq \in Nat
          BY <1>3, <4>2, PacketFields
        <5>4. h.seq + 1 < p.seq
          BY <4>6, <5>2, <5>3
        <5>5. QED BY <2>2, <4>3, <4>4, <4>6, <5>4
      <4>7. QED BY <4>2, <4>5, <4>6 DEF Before
    <3>5. \/ a = p
          \/ /\ Mate(p) \notin held
             /\ a # NoPacket =>
                  /\ a.m = p.m /\ a.codecIn = "c2_1600"
                  /\ \/ a.stream < p.stream
                     \/ a.stream = p.stream /\ a.seq < p.seq
      BY <3>3, <3>4
    <3>6. audio'[1] = a
      BY <1>2, <2>2
    <3>7. QED BY <1>2, <2>2, <3>5, <3>6 DEF AudioOfOwnPacket, NoHalf
  <2>3. QED BY <2>1, <2>2
<1>8. QED BY <1>3, <1>4, <1>5, <1>6, <1>7 DEF HalvesInv

LEMMA HalvesStep == HalvesInv /\ [NextHalves]_varsHalves => HalvesInv'
<1> SUFFICES ASSUME HalvesInv, [NextHalves]_varsHalves PROVE HalvesInv'
  OBVIOUS
<1>1. ASSUME NEW m \in Modules, NEW c \in Codecs, StreamStarts(m, c)
      PROVE  HalvesInv'
  BY <1>1, StartsKeeps
<1>2. ASSUME NEW m \in Modules, StreamEnds(m) PROVE HalvesInv'
  BY <1>2, EndsKeeps
<1>3. ASSUME NEW m \in Modules, Receive(m) PROVE HalvesInv'
  BY <1>3, ReceiveKeeps
<1>4. ASSUME NEW m \in Modules, Miss(m) PROVE HalvesInv'
  BY <1>4, MissKeeps
<1>5. ASSUME NEW c \in Decoders, Decoded(c) PROVE HalvesInv'
  BY <1>5, DecodedKeeps
<1>6. ASSUME ProcessC2 PROVE HalvesInv'
  <2>1. PICK p : p = Head(codec2Queue)
    OBVIOUS
  <2>2. /\ codec2Queue # <<>>
        /\ \/ EncodeFirst(p) \/ EncodeSecond(p)
           \/ DecodeFirst(p) \/ DecodeSecond(p)
    BY <1>6, <2>1 DEF ProcessC2
  <2>3. QED
    BY <2>1, <2>2, EncodeFirstKeeps, EncodeSecondKeeps, DecodeFirstKeeps,
       DecodeSecondKeeps
<1>7. CASE UNCHANGED varsHalves
  <2>1. /\ UNCHANGED <<talking, streams, missed, decoding, codec2Queue>>
        /\ UNCHANGED <<storeVars, doneVars>>
    BY <1>7 DEF varsHalves, airVars, wayVars
  <2>2. TypeInv' /\ AirInv' /\ WayInv'
    BY <2>1
    DEF HalvesInv, TypeInv, AirInv, WayInv, Older, storeVars, doneVars
  <2>3. QED BY <2>1, <2>2, ThreadIdle DEF HalvesInv
<1>8. QED BY <1>1, <1>2, <1>3, <1>4, <1>5, <1>6, <1>7 DEF NextHalves

(* ProcessC2Thread, with a first half kept per module: whatever streams    *)
(* follow each other, through whatever decoders and with whatever missed,  *)
(* a frame is of one pair unless its first was missed or a first packet    *)
(* from another decoder came between.                                      *)
THEOREM FrameIsOnePairs == SpecHalves => []FrameOfOnePair
<1>1. HalvesInv => FrameOfOnePair
  BY DEF HalvesInv
<1>2. QED BY <1>1, HalvesInit, HalvesStep, PTL DEF SpecHalves

(* Codec2toAudio: what a second packet of Codec2 1600 is given is its own  *)
(* half, or if its first was missed what one before it left, never a half  *)
(* of another codec or module.                                             *)
THEOREM AudioIsItsOwn == SpecHalves => []AudioOfOwnPacket
<1>1. HalvesInv => AudioOfOwnPacket
  BY DEF HalvesInv
<1>2. QED BY <1>1, HalvesInit, HalvesStep, PTL DEF SpecHalves
===============================================================================
