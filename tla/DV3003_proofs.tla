----------------------------- MODULE DV3003_proofs -----------------------------
(***************************************************************************)
(* Proofs about DV3003, for any number of packets in the four set-ups.     *)
(*                                                                         *)
(* Only target_channel is shared by the two requests for a packet.  What   *)
(* makes up for that is a count: as many requests are in line for the      *)
(* device as have been queued and not been fed, so that the one whose      *)
(* target was overwritten finds its channel the only one left.             *)
(***************************************************************************)
EXTENDS DV3003, FiniteSets, FiniteSetTheorems, SequenceTheorems,
        TLAPS

(* The requests for p in line for FeedDevice, the one at it included. *)
Copies(s, p) == {i \in DOMAIN s : s[i] = p}
Count(s, p) == Cardinality(Copies(s, p))
Line(p) == Count(inputQueue, p) + (IF feeding = p THEN 1 ELSE 0)

Size(E) == (IF "dstar" \in E THEN 1 ELSE 0) + (IF "dmrsf" \in E THEN 1 ELSE 0)
InLine(s) == {s[i] : i \in DOMAIN s}
Distinct(s) == \A i, j \in DOMAIN s : s[i] = s[j] => i = j

Source(p) == SourceEnc(codecIn[p])

(* The encodings asked for, with the one whose channel has been noted but  *)
(* which is not in the queue yet. *)
Ordered(p) ==
  asked[p] \cup (IF adding[p] THEN {Wanted(Head(todo[p]))} ELSE {})

TypeInv ==
  /\ hardware \in {"mixed", "onemodule", "dstar", "dmrsf"}
  /\ module \in [Packets -> Modules \cup {None}]
  /\ codecIn \in [Packets -> CodecsIn \cup {None}]
  /\ isSet \in [Packets -> SUBSET Encodings]
  /\ decoded \in [Packets -> BOOLEAN]
  /\ todo \in [Packets -> Seq(Channels \cup {None})]
  /\ adding \in [Packets -> BOOLEAN]
  /\ target \in [Packets -> Channels \cup {None}]
  /\ inputQueue \in Seq(Packets)
  /\ feeding \in Packets \cup {None}
  /\ waiting \in [Channels -> Seq(Packets)]
  /\ chip \in [Channels -> Seq({"encode", "decode"})]
  /\ asked \in [Packets -> SUBSET Encodings]
  /\ fed \in [Packets -> Seq(Channels \cup {Unmapped})]

(* For every packet: what has been asked for is in line or has been fed.   *)
LineInv(p) ==
  /\ Line(p) + Len(fed[p]) = Size(asked[p])
  /\ Distinct(fed[p])
  /\ adding[p] => todo[p] # <<>>
  /\ module[p] = None => /\ todo[p] = <<>> /\ asked[p] = {} /\ codecIn[p] = None
                         /\ target[p] = None
  /\ module[p] # None => codecIn[p] # None

(* Outside the mixed set-up a packet is asked for once, without a target.  *)
SingleInv(p) ==
  /\ target[p] = None
  /\ asked[p] \subseteq {DeviceEnc}
  /\ todo[p] \in {<<>>, <<None>>}
  /\ todo[p] # <<>> => asked[p] = {}
  /\ Source(p) # None /\ Source(p) # DeviceEnc /\ ~ decoded[p] =>
       todo[p] = <<>> /\ asked[p] = {}
  /\ Source(p) # None => Source(p) \in isSet[p]
  /\ Source(p) = DeviceEnc => ~ decoded[p]

(* Where it is fed to on a device of one encoding ... *)
OneEncInv(p) ==
  /\ FedTo(p) \subseteq {0, Unmapped}
  /\ Source(p) = hardware => FedTo(p) \subseteq {Unmapped}
  /\ hardware = "dstar" /\ Source(p) # "dstar" =>
       /\ FedTo(p) \subseteq {0}
       /\ "dstar" \notin isSet[p] \/ fed[p] # <<>>
  /\ hardware = "dmrsf" =>
       /\ Source(p) = "dmrsf" => "dstar" \notin isSet[p]
       /\ Source(p) = "dstar" => FedTo(p) \subseteq {0}
       /\ 0 \in FedTo(p) => "dstar" \in isSet[p]

(* ... and beside a DV3000 with one module. *)
LoneInv(p) ==
  /\ FedTo(p) \subseteq {0, 1}
  /\ Source(p) = "dstar" => FedTo(p) \subseteq {1}
  /\ Source(p) = "dmrsf" =>
       FedTo(p) \subseteq {0} /\ ("dstar" \notin isSet[p] \/ fed[p] # <<>>)

(* In the mixed set-up a packet of the first module is asked for once, of  *)
(* the second twice; the target noted is of what has been asked for and    *)
(* not fed, and if none is noted, the fallback finds the channel.          *)
FirstInv(p) ==
  /\ target[p] \in {None, 1}
  /\ target[p] = 1 <=> adding[p] \/ Line(p) > 0
  /\ asked[p] \subseteq {"dmrsf"}
  /\ todo[p] \in {<<>>, <<1>>}
  /\ todo[p] # <<>> => asked[p] = {}
  /\ Source(p) = "dstar" /\ ~ decoded[p] => todo[p] = <<>> /\ asked[p] = {}
  /\ FedTo(p) \subseteq {1}

PlanInv(p) ==
  CASE Source(p) = None ->
         \/ todo[p] = <<0, 2>> /\ asked[p] = {}
         \/ todo[p] = <<2>> /\ asked[p] = {"dstar"}
         \/ todo[p] = <<>> /\ asked[p] = {"dstar", "dmrsf"}
    [] Source(p) = "dstar" /\ ~ decoded[p] ->
         \/ todo[p] = <<0>> /\ asked[p] = {}
         \/ todo[p] = <<>> /\ asked[p] = {"dstar"}
    [] Source(p) = "dstar" /\ decoded[p] ->
         \/ todo[p] = <<2>> /\ asked[p] = {"dstar"}
         \/ todo[p] = <<>> /\ asked[p] = {"dstar", "dmrsf"}
    [] Source(p) = "dmrsf" /\ ~ decoded[p] ->
         \/ todo[p] = <<2>> /\ asked[p] = {}
         \/ todo[p] = <<>> /\ asked[p] = {"dmrsf"}
    [] Source(p) = "dmrsf" /\ decoded[p] ->
         \/ todo[p] = <<0>> /\ asked[p] = {"dmrsf"}
         \/ todo[p] = <<>> /\ asked[p] = {"dstar", "dmrsf"}

TargetInv(p) ==
  /\ target[p] \in {None, 0, 2}
  /\ target[p] = 0 => /\ "dstar" \in Ordered(p) /\ 0 \notin FedTo(p)
                      /\ "dmrsf" \notin Ordered(p) \/ 2 \in FedTo(p)
  /\ target[p] = 2 => "dmrsf" \in Ordered(p) /\ 2 \notin FedTo(p)
  /\ target[p] = None => "dmrsf" \notin Ordered(p) \/ 2 \in FedTo(p)
  /\ Source(p) = "dstar" =>
       "dstar" \notin Ordered(p) \/ target[p] = 0 \/ 0 \in FedTo(p)

SecondInv(p) ==
  /\ PlanInv(p) /\ TargetInv(p)
  /\ FedTo(p) \subseteq {0, 2}
  /\ 0 \in FedTo(p) => "dstar" \in Ordered(p)
  /\ 2 \in FedTo(p) => "dmrsf" \in Ordered(p)
  /\ "dstar" \in isSet[p] => Source(p) = "dstar" \/ 0 \in FedTo(p)
  /\ Source(p) = "dstar" => ~ decoded[p] \/ 0 \in FedTo(p)
  /\ Source(p) = "dmrsf" => ~ decoded[p] \/ 2 \in FedTo(p)

PacketInv(p) ==
  /\ LineInv(p)
  /\ module[p] # None /\ hardware # "mixed" => SingleInv(p)
  /\ module[p] # None /\ hardware \in Encodings => OneEncInv(p)
  /\ module[p] # None /\ hardware = "onemodule" => LoneInv(p)
  /\ module[p] = "first" /\ hardware = "mixed" => FirstInv(p)
  /\ module[p] = "second" /\ hardware = "mixed" => SecondInv(p)

(* A packet waits once on a channel it has been fed to, and on the one     *)
(* that decodes it only until that has been done.                          *)
Waits(ch, p) ==
  /\ ch \in FedTo(p)
  /\ ~ decoded[p] \/ ChannelEnc[ch] # Source(p) \/ module[p] # "second"

WaitingInv ==
  \A ch \in Channels :
    /\ Len(waiting[ch]) = Len(chip[ch])
    /\ Distinct(waiting[ch])
    /\ \A p \in InLine(waiting[ch]) : Waits(ch, p)

DV3003Inv ==
  /\ TypeInv /\ WaitingInv
  /\ \A p \in Packets : PacketInv(p)

-----------------------------------------------------------------------------
(* Sequences and counts.                                                   *)

LEMMA CopiesFinite ==
  ASSUME NEW S, NEW s \in Seq(S), NEW p
  PROVE  IsFiniteSet(Copies(s, p)) /\ Count(s, p) \in Nat
<1>1. IsFiniteSet(1..Len(s))
  BY FS_Interval
<1>2. Copies(s, p) \in SUBSET (1..Len(s))
  BY DEF Copies
<1>3. QED BY <1>1, <1>2, FS_Subset, FS_CardinalityType DEF Count

LEMMA CountAppend ==
  ASSUME NEW S, NEW s \in Seq(S), NEW e \in S, NEW p
  PROVE  Count(Append(s, e), p) = Count(s, p) + (IF e = p THEN 1 ELSE 0)
<1>1. PICK n : n = Len(s) + 1
  OBVIOUS
<1>2. n \notin Copies(s, p) /\ IsFiniteSet(Copies(s, p)) /\ Count(s, p) \in Nat
  BY <1>1, CopiesFinite DEF Copies
<1>3. Copies(Append(s, e), p) =
        IF e = p THEN Copies(s, p) \cup {n} ELSE Copies(s, p)
  <2>1. /\ DOMAIN Append(s, e) = DOMAIN s \cup {n}
        /\ n \notin DOMAIN s
        /\ \A i \in DOMAIN s : Append(s, e)[i] = s[i]
        /\ Append(s, e)[n] = e
    BY <1>1
  <2>2. QED BY <2>1 DEF Copies
<1>4. Cardinality(Copies(s, p) \cup {n}) = Cardinality(Copies(s, p)) + 1
  BY <1>2, FS_AddElement
<1>5. QED BY <1>2, <1>3, <1>4 DEF Count

LEMMA CountTail ==
  ASSUME NEW S, NEW s \in Seq(S), s # <<>>, NEW p
  PROVE  Count(s, p) = Count(Tail(s), p) + (IF Head(s) = p THEN 1 ELSE 0)
<1>1. PICK t, n : t = Tail(s) /\ n = Len(s)
  OBVIOUS
<1>2. /\ n \in Nat /\ n > 0 /\ DOMAIN s = 1..n /\ DOMAIN t = 1..(n - 1)
      /\ \A i \in 1..(n - 1) : t[i] = s[i + 1]
      /\ Head(s) = s[1] /\ t \in Seq(S)
  BY <1>1
<1>3. IsFiniteSet(Copies(s, p)) /\ IsFiniteSet(Copies(t, p))
  BY <1>2, CopiesFinite
<1>4. Cardinality(Copies(s, p) \ {1}) = Cardinality(Copies(t, p))
  <2> DEFINE f == [i \in Copies(t, p) |-> i + 1]
             U == Copies(s, p) \ {1}
  <2>1. ASSUME NEW i \in Copies(t, p) PROVE f[i] \in U
    BY <1>2 DEF Copies
  <2>2. ASSUME NEW j \in U PROVE j - 1 \in Copies(t, p) /\ f[j - 1] = j
    BY <1>2 DEF Copies
  <2>3. \A i, j \in Copies(t, p) : f[i] = f[j] => i = j
    BY <1>2 DEF Copies
  <2>4. f \in Bijection(Copies(t, p), U)
    BY <2>1, <2>2, <2>3 DEF Bijection, Injection, Surjection, IsInjective
  <2>5. ExistsBijection(Copies(t, p), U)
    BY <2>4 DEF ExistsBijection
  <2>6. QED BY <1>3, <2>5, FS_Bijection
<1>5. 1 \in Copies(s, p) <=> Head(s) = p
  BY <1>2 DEF Copies
<1>6. Count(t, p) \in Nat /\ Count(s, p) \in Nat
  BY <1>2, CopiesFinite
<1>7. Cardinality(Copies(s, p) \ {1}) =
        IF 1 \in Copies(s, p) THEN Cardinality(Copies(s, p)) - 1
                              ELSE Cardinality(Copies(s, p))
  BY <1>3, FS_RemoveElement
<1>8. QED BY <1>1, <1>4, <1>5, <1>6, <1>7 DEF Count

LEMMA CountEmpty == \A p : Count(<<>>, p) = 0
  BY FS_EmptySet DEF Count, Copies

LEMMA DistinctAppend ==
  ASSUME NEW S, NEW s \in Seq(S), NEW e \in S, Distinct(s),
         e \notin InLine(s)
  PROVE  /\ Distinct(Append(s, e)) /\ Append(s, e) \in Seq(S)
         /\ Len(Append(s, e)) = Len(s) + 1
         /\ InLine(Append(s, e)) = InLine(s) \cup {e}
<1>1. PICK t, n : t = Append(s, e) /\ n = Len(s) + 1
  OBVIOUS
<1>2. /\ t \in Seq(S) /\ Len(t) = n
      /\ DOMAIN t = DOMAIN s \cup {n} /\ n \notin DOMAIN s
      /\ \A i \in DOMAIN s : t[i] = s[i]
      /\ t[n] = e
  BY <1>1
<1>3. Distinct(t)
  BY <1>2 DEF Distinct, InLine
<1>4. InLine(t) = InLine(s) \cup {e}
  BY <1>2 DEF InLine
<1>5. QED BY <1>1, <1>2, <1>3, <1>4

LEMMA DistinctTail ==
  ASSUME NEW S, NEW s \in Seq(S), s # <<>>, Distinct(s)
  PROVE  /\ Distinct(Tail(s)) /\ Tail(s) \in Seq(S) /\ Head(s) \in S
         /\ Head(s) \in InLine(s) /\ Len(Tail(s)) = Len(s) - 1
         /\ InLine(Tail(s)) \subseteq InLine(s) \ {Head(s)}
<1>1. PICK t : t = Tail(s)
  OBVIOUS
<1>2. /\ Head(s) = s[1] /\ 1 \in DOMAIN s /\ Head(s) \in S /\ t \in Seq(S)
      /\ Len(t) = Len(s) - 1
      /\ \A i \in DOMAIN t : /\ i \in Nat /\ i > 0
                             /\ i + 1 \in DOMAIN s /\ t[i] = s[i + 1]
  BY <1>1
<1>3. \A i, j \in DOMAIN t : i + 1 = j + 1 => i = j
  BY <1>2
<1>4. Distinct(t)
  BY <1>2, <1>3 DEF Distinct
<1>5. \A i \in DOMAIN t : t[i] # Head(s) /\ t[i] \in InLine(s)
  BY <1>2 DEF Distinct, InLine
<1>6. InLine(t) \subseteq InLine(s) \ {Head(s)} /\ Head(s) \in InLine(s)
  BY <1>2, <1>5 DEF InLine
<1>7. QED BY <1>1, <1>2, <1>4, <1>6

-----------------------------------------------------------------------------
(* The tables of InitVocoders and the controller in the four set-ups.      *)

LEMMA SizeIs ==
  ASSUME NEW E \in SUBSET Encodings
  PROVE  /\ Size(E) \in 0..2
         /\ Size(E) = 0 <=> E = {}
         /\ \A e \in Encodings \ E : Size(E \cup {e}) = Size(E) + 1
BY DEF Size, Encodings

LEMMA WantedIs ==
  /\ hardware = "mixed" =>
       Wanted(0) = "dstar" /\ Wanted(1) = "dmrsf" /\ Wanted(2) = "dmrsf"
  /\ Wanted(None) = DeviceEnc
  /\ hardware \in {"onemodule", "dstar", "dmrsf"} => DeviceEnc \in Encodings
  /\ hardware \in Encodings => DeviceEnc = hardware
BY DV3003Assumption DEF Wanted, ChannelEnc, Channels, DeviceEnc, Encodings

LEMMA EncOfChannel ==
  /\ hardware = "mixed" =>
       ChannelEnc[0] = "dstar" /\ ChannelEnc[1] = "dmrsf" /\ ChannelEnc[2] = "dmrsf"
  /\ hardware = "onemodule" =>
       ChannelEnc[0] = "dstar" /\ ChannelEnc[1] = "dmrsf" /\ ChannelEnc[2] = "dmrsf"
  /\ hardware \in Encodings => \A ch \in Channels : ChannelEnc[ch] = hardware
BY DEF ChannelEnc, Channels, Encodings

LEMMA RequestIs ==
  ASSUME NEW m \in Modules, NEW enc \in Encodings
  PROVE  /\ hardware # "mixed" =>
              Request(m, enc) = IF enc = DeviceEnc THEN <<None>> ELSE <<>>
         /\ hardware = "mixed" /\ m = "first" =>
              Request(m, enc) = IF enc = "dmrsf" THEN <<1>> ELSE <<>>
         /\ hardware = "mixed" /\ m = "second" =>
              Request(m, enc) = IF enc = "dmrsf" THEN <<2>> ELSE <<0>>
BY DEF Request, MixedMode, Modules, Encodings

LEMMA Pairs ==
  /\ <<0>> \o <<2>> = <<0, 2>> /\ <<>> \o <<1>> = <<1>>
  /\ <<None>> \o <<>> = <<None>> /\ <<>> \o <<None>> = <<None>>
  /\ <<>> \o <<0>> = <<0>> /\ <<>> \o <<2>> = <<2>> /\ <<>> \o <<>> = <<>>
  /\ Head(<<0, 2>>) = 0 /\ Tail(<<0, 2>>) = <<2>> /\ <<0, 2>> # <<>>
  /\ \A x : Head(<<x>>) = x /\ Tail(<<x>>) = <<>> /\ <<x>> # <<>>
  /\ \A x, y : <<x>> = <<y>> => x = y
<1>1. <<0>> \o <<2>> = <<0, 2>>
  <2>1. PICK s, t : s = <<0>> \o <<2>> /\ t = <<0, 2>>
    OBVIOUS
  <2>2. /\ s \in Seq(Nat) /\ t \in Seq(Nat) /\ Len(s) = 2 /\ Len(t) = 2
        /\ s[1] = 0 /\ s[2] = 2 /\ t[1] = 0 /\ t[2] = 2
    BY <2>1
  <2>3. \A i \in 1..Len(s) : s[i] = t[i]
    BY <2>2
  <2>4. s = t
    BY <2>2, <2>3, SeqEqual
  <2>5. QED BY <2>1, <2>4
<1>2. /\ <<>> \o <<1>> = <<1>>
      /\ <<None>> \o <<>> = <<None>> /\ <<>> \o <<None>> = <<None>>
  OBVIOUS
<1>3. /\ <<>> \o <<0>> = <<0>> /\ <<>> \o <<2>> = <<2>> /\ <<>> \o <<>> = <<>>
  OBVIOUS
<1>4. Head(<<0, 2>>) = 0 /\ Tail(<<0, 2>>) = <<2>> /\ <<0, 2>> # <<>>
  OBVIOUS
<1>5. \A x : Head(<<x>>) = x /\ Tail(<<x>>) = <<>> /\ <<x>> # <<>>
  OBVIOUS
<1>6. \A x, y : <<x>> = <<y>> => x = y
  OBVIOUS
<1>7. QED BY <1>1, <1>2, <1>3, <1>4, <1>5, <1>6

LEMMA RequestTypes ==
  \A r \in {<<None>>, <<>>, <<1>>, <<0>>, <<2>>, <<0, 2>>} :
    r \in Seq(Channels \cup {None})
<1>1. PICK S : S = Channels \cup {None}
  OBVIOUS
<1>2. None \in S /\ 0 \in S /\ 1 \in S /\ 2 \in S
  BY <1>1 DEF Channels
<1>3. /\ \A x \in S : <<x>> \in Seq(S)
      /\ \A x, y \in S : <<x, y>> \in Seq(S)
      /\ <<>> \in Seq(S)
  OBVIOUS
<1>4. QED BY <1>1, <1>2, <1>3

LEMMA FirstChannelIs ==
  ASSUME hardware \in {"dstar", "dmrsf"}
  PROVE  /\ FirstChannel(hardware) = 0
         /\ \A enc \in Encodings : enc # hardware => FirstChannel(enc) = Unmapped
<1>1. {ch \in Channels : ChannelEnc[ch] = hardware} = Channels
  BY EncOfChannel DEF Encodings
<1>2. \A enc \in Encodings : enc # hardware =>
        {ch \in Channels : ChannelEnc[ch] = enc} = {}
  BY EncOfChannel DEF Encodings
<1>3. (CHOOSE ch \in Channels : \A o \in Channels : ch <= o) = 0
  BY DEF Channels
<1>4. 0 \in Channels
  BY DEF Channels
<1>5. FirstChannel(hardware) = 0
  BY <1>1, <1>3, <1>4 DEF FirstChannel
<1>6. \A enc \in Encodings : enc # hardware => FirstChannel(enc) = Unmapped
  BY <1>2 DEF FirstChannel
<1>7. QED BY <1>5, <1>6

LEMMA FirstChannelLone ==
  ASSUME hardware = "onemodule"
  PROVE  FirstChannel("dstar") = 0 /\ FirstChannel("dmrsf") = 1
<1>1. /\ {ch \in Channels : ChannelEnc[ch] = "dstar"} = {0}
      /\ {ch \in Channels : ChannelEnc[ch] = "dmrsf"} = {1, 2}
  BY EncOfChannel DEF Channels
<1>2. /\ (CHOOSE ch \in {0} : \A o \in {0} : ch <= o) = 0
      /\ (CHOOSE ch \in {1, 2} : \A o \in {1, 2} : ch <= o) = 1
  OBVIOUS
<1>3. QED BY <1>1, <1>2 DEF FirstChannel

LEMMA Mapped ==
  ASSUME NEW p
  PROVE  /\ target[p] # None => MapPacketToChannel(p) = target[p]
         /\ hardware \in {"dstar", "dmrsf"} /\ target[p] = None =>
              MapPacketToChannel(p) =
                IF ("dstar" \in isSet[p]) = (hardware = "dmrsf")
                  THEN 0 ELSE Unmapped
         /\ hardware = "onemodule" /\ target[p] = None =>
              MapPacketToChannel(p) = IF "dstar" \in isSet[p] THEN 1 ELSE 0
         /\ (hardware = "mixed" /\ module[p] = "second" /\ target[p] = None
               /\ "dstar" \notin isSet[p]) => MapPacketToChannel(p) = 0
<1>1. target[p] # None => MapPacketToChannel(p) = target[p]
  BY DEF MapPacketToChannel
<1>2. ASSUME hardware \in {"dstar", "dmrsf"}, target[p] = None
      PROVE  MapPacketToChannel(p) =
               IF ("dstar" \in isSet[p]) = (hardware = "dmrsf")
                 THEN 0 ELSE Unmapped
  <2>1. \A m, enc : ModuleChannel(m, enc) = None
    BY <1>2 DEF ModuleChannel, MixedMode
  <2>2. MapPacketToChannel(p) =
          FirstChannel(IF "dstar" \in isSet[p] THEN "dmrsf" ELSE "dstar")
    BY <1>2, <2>1 DEF MapPacketToChannel
  <2>3. QED BY <1>2, <2>2, FirstChannelIs DEF Encodings
<1>3. ASSUME hardware = "mixed", module[p] = "second", target[p] = None,
             "dstar" \notin isSet[p]
      PROVE  MapPacketToChannel(p) = 0
  <2>1. ModuleChannel(module[p], "dstar") = 0
    BY <1>3 DEF ModuleChannel, MixedMode
  <2>2. 0 # None
    BY DV3003Assumption
  <2>3. QED BY <1>3, <2>1, <2>2 DEF MapPacketToChannel
<1>4. ASSUME hardware = "onemodule", target[p] = None
      PROVE  MapPacketToChannel(p) = IF "dstar" \in isSet[p] THEN 1 ELSE 0
  <2>1. \A m, enc : ModuleChannel(m, enc) = None
    BY <1>4 DEF ModuleChannel, MixedMode
  <2>2. QED BY <1>4, <2>1, FirstChannelLone DEF MapPacketToChannel
<1>5. QED BY <1>1, <1>2, <1>3, <1>4

(* How many channels a packet has been fed to. *)
LEMMA FedCount ==
  ASSUME TypeInv, NEW p \in Packets, Distinct(fed[p])
  PROVE  /\ Len(fed[p]) \in Nat
         /\ Len(fed[p]) = 0 <=> FedTo(p) = {}
         /\ Len(fed[p]) = 0 <=> fed[p] = <<>>
         /\ \A x, y \in FedTo(p) : x # y => Len(fed[p]) >= 2
         /\ \A x : FedTo(p) \subseteq {x} => Len(fed[p]) <= 1
<1>1. PICK s, n : s = fed[p] /\ n = Len(s)
  OBVIOUS
<1>2. /\ s \in Seq(Channels \cup {Unmapped}) /\ n \in Nat /\ DOMAIN s = 1..n
      /\ FedTo(p) = {s[i] : i \in 1..n} /\ Distinct(s)
  <2>1. s \in Seq(Channels \cup {Unmapped}) /\ Distinct(s)
    BY <1>1 DEF TypeInv
  <2>2. n \in Nat /\ DOMAIN s = 1..n
    BY <1>1, <2>1
  <2>3. QED BY <1>1, <2>1, <2>2 DEF FedTo
<1>3. n = 0 <=> s = <<>>
  BY <1>1, <1>2
<1>4. n = 0 <=> FedTo(p) = {}
  <2>1. n # 0 => s[1] \in FedTo(p)
    BY <1>2
  <2>2. QED BY <1>2, <2>1
<1>5. ASSUME NEW x \in FedTo(p), NEW y \in FedTo(p), x # y PROVE n >= 2
  <2>1. PICK i, j \in 1..n : s[i] = x /\ s[j] = y
    BY <1>2
  <2>2. QED BY <1>2, <1>5, <2>1
<1>6. ASSUME NEW x, FedTo(p) \subseteq {x}, ~ (n <= 1) PROVE FALSE
  <2>1. 1 \in 1..n /\ 2 \in 1..n
    BY <1>2, <1>6
  <2>2. s[1] = x /\ s[2] = x
    BY <1>2, <1>6, <2>1
  <2>3. QED BY <1>2, <2>1, <2>2 DEF Distinct
<1>7. QED BY <1>1, <1>2, <1>3, <1>4, <1>5, <1>6

LEMMA LineType ==
  ASSUME TypeInv, NEW p \in Packets
  PROVE  /\ Line(p) \in Nat
         /\ feeding = p => Line(p) > 0
         /\ inputQueue = <<>> /\ feeding # p => Line(p) = 0
<1>1. Count(inputQueue, p) \in Nat
  BY CopiesFinite DEF TypeInv
<1>2. QED BY <1>1, CountEmpty DEF Line

LEMMA SourceIs ==
  ASSUME NEW c \in CodecsIn
  PROVE  /\ SourceEnc(c) \in Encodings \cup {None}
         /\ None \notin Encodings /\ c # None
BY DV3003Assumption DEF SourceEnc, Encodings

LEMMA FirstRequestsIs ==
  ASSUME hardware \in {"mixed", "onemodule", "dstar", "dmrsf"},
         NEW m \in Modules, NEW c \in CodecsIn
  PROVE  /\ hardware # "mixed" =>
              FirstRequests(m, c) = IF SourceEnc(c) \in {None, DeviceEnc}
                                      THEN <<None>> ELSE <<>>
         /\ hardware = "mixed" /\ m = "first" =>
              FirstRequests(m, c) = IF SourceEnc(c) = "dstar" THEN <<>> ELSE <<1>>
         /\ hardware = "mixed" /\ m = "second" =>
              FirstRequests(m, c) = IF SourceEnc(c) = "dstar" THEN <<0>>
                                    ELSE IF SourceEnc(c) = "dmrsf" THEN <<2>>
                                    ELSE <<0, 2>>
<1>1. "dstar" \in Encodings /\ "dmrsf" \in Encodings
  BY DEF Encodings
<1>2. CASE SourceEnc(c) = None
  <2>1. FirstRequests(m, c) = Request(m, "dstar") \o Request(m, "dmrsf")
    BY <1>2 DEF FirstRequests
  <2>2. hardware # "mixed" => FirstRequests(m, c) = <<None>>
    <3>1. hardware # "mixed" => DeviceEnc \in Encodings
      BY WantedIs
    <3>2. QED BY <1>1, <2>1, <3>1, RequestIs, Pairs DEF Encodings
  <2>3. hardware = "mixed" /\ m = "first" => FirstRequests(m, c) = <<1>>
    BY <1>1, <2>1, RequestIs, Pairs
  <2>4. hardware = "mixed" /\ m = "second" => FirstRequests(m, c) = <<0, 2>>
    BY <1>1, <2>1, RequestIs, Pairs
  <2>5. None # "dstar" /\ None # "dmrsf"
    BY <1>1, SourceIs
  <2>6. QED BY <1>2, <2>2, <2>3, <2>4, <2>5
<1>3. CASE SourceEnc(c) # None
  BY <1>3, RequestIs, SourceIs DEF FirstRequests, Encodings
<1>4. QED BY <1>2, <1>3

-----------------------------------------------------------------------------
LEMMA SoundInit == Init => DV3003Inv
<1> SUFFICES ASSUME Init PROVE DV3003Inv
  OBVIOUS
<1> USE DEF Init
<1>1. TypeInv
  BY DV3003Assumption DEF TypeInv, Modules, Encodings
<1>2. WaitingInv
  BY DEF WaitingInv, Distinct, InLine
<1>3. ASSUME NEW p \in Packets PROVE PacketInv(p)
  <2>1. Line(p) = 0
    BY CountEmpty, DV3003Assumption DEF Line
  <2>2. Len(fed[p]) = 0 /\ Distinct(fed[p])
    BY DEF Distinct
  <2>3. None # "first" /\ None # "second"
    BY DV3003Assumption DEF Modules
  <2>4. QED BY <2>1, <2>2, <2>3 DEF PacketInv, LineInv, Size
<1>4. QED BY <1>1, <1>2, <1>3 DEF DV3003Inv

(* A packet to which nothing happens. *)
LEMMA Untouched ==
  ASSUME NEW p \in Packets, PacketInv(p), hardware' = hardware,
         UNCHANGED <<module[p], codecIn[p], isSet[p], decoded[p], todo[p],
                     adding[p], target[p], asked[p], fed[p]>>,
         Line(p)' = Line(p)
  PROVE  PacketInv(p)'
<1>1. FedTo(p)' = FedTo(p) /\ Source(p)' = Source(p)
  BY DEF FedTo, Source
<1>2. Ordered(p)' = Ordered(p)
  BY DEF Ordered, Wanted, ChannelEnc, DeviceEnc
<1>3. LineInv(p)'
  BY DEF PacketInv, LineInv
<1>4. /\ SingleInv(p) => SingleInv(p)'
      /\ OneEncInv(p) => OneEncInv(p)'
      /\ LoneInv(p) => LoneInv(p)'
  BY <1>1 DEF SingleInv, OneEncInv, LoneInv, DeviceEnc
<1>5. FirstInv(p) => FirstInv(p)'
  BY <1>1 DEF FirstInv
<1>6. PlanInv(p) => PlanInv(p)'
  BY <1>1 DEF PlanInv
<1>7. TargetInv(p) => TargetInv(p)'
  BY <1>1, <1>2 DEF TargetInv
<1>8. SecondInv(p) => SecondInv(p)'
  BY <1>1, <1>2, <1>6, <1>7 DEF SecondInv
<1>9. QED BY <1>3, <1>4, <1>5, <1>8 DEF PacketInv

(* The channels go on with what they have. *)
LEMMA WaitingStays ==
  ASSUME TypeInv, WaitingInv, UNCHANGED <<hardware, waiting, chip, fed>>,
         \A p \in Packets : \A ch \in Channels : ch \in FedTo(p) =>
           /\ Source(p)' = Source(p) /\ module'[p] = module[p]
           /\ ChannelEnc[ch] = Source(p) /\ module[p] = "second" =>
                decoded'[p] = decoded[p]
  PROVE  WaitingInv'
<1>1. \A ch \in Channels : InLine(waiting[ch]) \subseteq Packets
  BY DEF TypeInv, InLine
<1>2. ChannelEnc' = ChannelEnc /\ \A p \in Packets : FedTo(p)' = FedTo(p)
  BY DEF ChannelEnc, FedTo
<1>3. \A ch \in Channels, p \in Packets : Waits(ch, p) => Waits(ch, p)'
  BY <1>2 DEF Waits
<1>4. QED BY <1>1, <1>3 DEF WaitingInv

(* A packet that has not arrived has been asked for and fed nowhere. *)
LEMMA NotArrived ==
  ASSUME TypeInv, NEW p \in Packets, LineInv(p), module[p] = None
  PROVE  /\ todo[p] = <<>> /\ asked[p] = {} /\ target[p] = None /\ ~ adding[p]
         /\ Line(p) = 0 /\ Len(fed[p]) = 0 /\ FedTo(p) = {} /\ fed[p] = <<>>
<1>1. todo[p] = <<>> /\ asked[p] = {} /\ target[p] = None /\ ~ adding[p]
  BY DEF LineInv
<1>2. Line(p) + Len(fed[p]) = 0
  BY <1>1 DEF LineInv, Size
<1>3. Distinct(fed[p])
  BY DEF LineInv
<1>4. QED BY <1>1, <1>2, <1>3, LineType, FedCount

LEMMA ArriveKeeps ==
  ASSUME DV3003Inv, NEW p \in Packets, NEW m \in Modules, NEW c \in CodecsIn,
         Arrive(p, m, c)
  PROVE  DV3003Inv'
<1>1. /\ TypeInv /\ WaitingInv /\ \A q \in Packets : PacketInv(q)
      /\ module[p] = None /\ LineInv(p)
  BY DEF DV3003Inv, PacketInv, Arrive
<1>2. /\ todo[p] = <<>> /\ asked[p] = {} /\ target[p] = None /\ ~ adding[p]
      /\ Line(p) = 0 /\ Len(fed[p]) = 0 /\ FedTo(p) = {} /\ fed[p] = <<>>
  BY <1>1, NotArrived
<1>3. PICK src, first : src = SourceEnc(c) /\ first = FirstRequests(m, c)
  OBVIOUS
<1>4. /\ hardware' = hardware
      /\ UNCHANGED <<adding, target, inputQueue, feeding, waiting, chip, asked, fed>>
      /\ module' = [module EXCEPT ![p] = m]
      /\ codecIn' = [codecIn EXCEPT ![p] = c]
      /\ isSet' = [isSet EXCEPT ![p] = {src} \ {None}]
      /\ decoded' = [decoded EXCEPT ![p] = src = None]
      /\ todo' = [todo EXCEPT ![p] = first]
  BY <1>3 DEF Arrive
<1>5. /\ src \in Encodings \cup {None} /\ None \notin Encodings
      /\ c # None /\ m # None
  BY <1>3, SourceIs, DV3003Assumption
<1>6. /\ hardware # "mixed" =>
           first = IF src \in {None, DeviceEnc} THEN <<None>> ELSE <<>>
      /\ hardware = "mixed" /\ m = "first" =>
           first = IF src = "dstar" THEN <<>> ELSE <<1>>
      /\ hardware = "mixed" /\ m = "second" =>
           first = IF src = "dstar" THEN <<0>>
                   ELSE IF src = "dmrsf" THEN <<2>> ELSE <<0, 2>>
  BY <1>1, <1>3, FirstRequestsIs DEF TypeInv
<1>7. TypeInv'
  <2>1. first \in Seq(Channels \cup {None})
    <3>1. first \in {<<None>>, <<>>, <<1>>, <<0>>, <<2>>, <<0, 2>>}
      <4>1. CASE hardware # "mixed"
        BY <1>6, <4>1
      <4>2. CASE hardware = "mixed" /\ m = "first"
        BY <1>6, <4>2
      <4>3. CASE hardware = "mixed" /\ m = "second"
        BY <1>6, <4>3
      <4>4. QED BY <4>1, <4>2, <4>3 DEF Modules
    <3>2. QED BY <3>1, RequestTypes
  <2>2. QED BY <1>1, <1>4, <1>5, <2>1 DEF TypeInv
<1>8. \A q \in Packets :
        Line(q)' = Line(q) /\ FedTo(q)' = FedTo(q) /\ (q # p => Source(q)' = Source(q))
  BY <1>1, <1>4 DEF Line, FedTo, Source, TypeInv
<1>9. WaitingInv'
  <2>1. \A q \in Packets : \A ch \in Channels : ch \in FedTo(q) =>
          /\ Source(q)' = Source(q) /\ module'[q] = module[q]
          /\ ChannelEnc[ch] = Source(q) /\ module[q] = "second" =>
               decoded'[q] = decoded[q]
    BY <1>1, <1>2, <1>4, <1>8 DEF TypeInv
  <2>2. QED BY <1>1, <1>4, <2>1, WaitingStays
<1>10. ASSUME NEW q \in Packets \ {p} PROVE PacketInv(q)'
  <2>1. UNCHANGED <<module[q], codecIn[q], isSet[q], decoded[q], todo[q],
                    adding[q], target[q], asked[q], fed[q]>>
    BY <1>1, <1>4 DEF TypeInv
  <2>2. QED BY <1>1, <1>4, <1>8, <2>1, Untouched
<1>11. PacketInv(p)'
  <2>1. /\ module'[p] = m /\ codecIn'[p] = c /\ isSet'[p] = {src} \ {None}
        /\ decoded'[p] = (src = None) /\ todo'[p] = first
        /\ asked'[p] = {} /\ target'[p] = None /\ ~ adding'[p]
        /\ Line(p)' = 0 /\ Len(fed'[p]) = 0 /\ FedTo(p)' = {} /\ fed'[p] = <<>>
        /\ Source(p)' = src
    BY <1>1, <1>2, <1>3, <1>4, <1>8 DEF TypeInv, Source
  <2>2. LineInv(p)'
    BY <1>5, <2>1 DEF LineInv, Size, Distinct
  <2>3. hardware # "mixed" => SingleInv(p)'
    <3>1. DeviceEnc' = DeviceEnc
      BY <1>4 DEF DeviceEnc
    <3>2. hardware # "mixed" => DeviceEnc \in Encodings
      BY <1>1, WantedIs DEF TypeInv
    <3>3. QED BY <1>4, <1>5, <1>6, <2>1, <3>1, <3>2 DEF SingleInv
  <2>7. OneEncInv(p)' /\ LoneInv(p)'
    BY <1>4, <1>5, <2>1 DEF OneEncInv, LoneInv, Encodings
  <2>4. m = "first" /\ hardware = "mixed" => FirstInv(p)'
    BY <1>4, <1>5, <1>6, <2>1, DV3003Assumption DEF FirstInv, Encodings
  <2>5. m = "second" /\ hardware = "mixed" => SecondInv(p)'
    <3>1. Ordered(p)' = {}
      BY <2>1 DEF Ordered
    <3>2. m = "second" /\ hardware = "mixed" => PlanInv(p)'
      BY <1>5, <1>6, <2>1 DEF PlanInv, Encodings
    <3>3. TargetInv(p)'
      BY <2>1, <3>1, DV3003Assumption DEF TargetInv
    <3>4. QED BY <1>5, <2>1, <3>1, <3>2, <3>3 DEF SecondInv, Encodings
  <2>6. QED BY <1>4, <2>1, <2>2, <2>3, <2>4, <2>5, <2>7 DEF PacketInv
<1>12. QED BY <1>7, <1>9, <1>10, <1>11 DEF DV3003Inv

(* The route handlers of the other device's answer. *)
LEMMA RouteRequestsIs ==
  ASSUME hardware \in {"mixed", "onemodule", "dstar", "dmrsf"},
         NEW m \in Modules, NEW c \in CodecsIn, SourceEnc(c) # None
  PROVE  /\ hardware # "mixed" =>
              RouteRequests(m, c) = IF SourceEnc(c) = DeviceEnc
                                      THEN <<>> ELSE <<None>>
         /\ hardware = "mixed" /\ m = "first" =>
              RouteRequests(m, c) = IF SourceEnc(c) = "dstar" THEN <<1>> ELSE <<>>
         /\ hardware = "mixed" /\ m = "second" =>
              RouteRequests(m, c) = IF SourceEnc(c) = "dstar" THEN <<2>> ELSE <<0>>
<1>1. PICK enc : enc = IF c = "dstar" THEN "dmrsf" ELSE "dstar"
  OBVIOUS
<1>2. RouteRequests(m, c) = Request(m, enc) /\ enc \in Encodings
  BY <1>1 DEF RouteRequests, Encodings
<1>3. SourceEnc(c) = IF c = "dstar" THEN "dstar" ELSE "dmrsf"
  BY DEF SourceEnc
<1>4. hardware # "mixed" => DeviceEnc \in Encodings
  BY WantedIs
<1>5. QED BY <1>1, <1>2, <1>3, <1>4, RequestIs DEF Encodings

LEMMA ArrivedTypes ==
  ASSUME TypeInv, NEW p \in Packets, LineInv(p), module[p] # None
  PROVE  /\ module[p] \in Modules /\ codecIn[p] \in CodecsIn
         /\ Source(p) \in Encodings \cup {None} /\ None \notin Encodings
         /\ hardware \in {"mixed", "onemodule", "dstar", "dmrsf"}
BY SourceIs DEF TypeInv, LineInv, Source

LEMMA OtherKeeps ==
  ASSUME DV3003Inv, NEW p \in Packets, OtherDevice(p)
  PROVE  DV3003Inv'
<1>1. /\ TypeInv /\ WaitingInv /\ \A q \in Packets : PacketInv(q)
      /\ module[p] # None /\ LineInv(p)
  BY DEF DV3003Inv, PacketInv, OtherDevice
<1>2. PICK m, c, src : m = module[p] /\ c = codecIn[p] /\ src = SourceEnc(c)
  OBVIOUS
<1>3. /\ m \in Modules /\ c \in CodecsIn /\ src = Source(p)
      /\ src \in Encodings \cup {None} /\ None \notin Encodings
      /\ hardware \in {"mixed", "onemodule", "dstar", "dmrsf"}
  BY <1>1, <1>2, ArrivedTypes DEF Source
<1>4. /\ UNCHANGED <<hardware, module, codecIn>>
      /\ UNCHANGED <<adding, target, inputQueue, feeding, waiting, chip, asked, fed>>
  BY DEF OtherDevice, packetVars
<1>5. PICK enc \in Encodings :
        /\ Request(m, enc) = <<>>
        /\ \/ /\ enc = src /\ ~ decoded[p]
              /\ decoded' = [decoded EXCEPT ![p] = TRUE]
              /\ todo' = [todo EXCEPT ![p] = RouteRequests(m, c)]
              /\ isSet' = isSet
           \/ /\ enc # src /\ decoded[p] /\ enc \notin isSet[p]
              /\ isSet' = [isSet EXCEPT ![p] = @ \cup {enc}]
              /\ UNCHANGED <<decoded, todo>>
  BY <1>2 DEF OtherDevice
<1>6. /\ hardware # "mixed" \/ m = "first"
      /\ hardware # "mixed" => enc # DeviceEnc
      /\ hardware = "mixed" => enc = "dstar"
  BY <1>3, <1>5, RequestIs, Pairs DEF Modules, Encodings
<1>7. /\ hardware # "mixed" => SingleInv(p)
      /\ hardware \in Encodings => OneEncInv(p)
      /\ hardware = "onemodule" => LoneInv(p)
      /\ hardware = "mixed" => FirstInv(p)
      /\ hardware # "mixed" => DeviceEnc \in Encodings
      /\ hardware \in Encodings => DeviceEnc = hardware
      /\ DeviceEnc' = DeviceEnc
  BY <1>1, <1>2, <1>3, <1>4, <1>6, WantedIs DEF PacketInv, DeviceEnc
<1>8. \A q \in Packets :
        Line(q)' = Line(q) /\ FedTo(q)' = FedTo(q) /\ Source(q)' = Source(q)
  BY <1>4 DEF Line, FedTo, Source
<1>9. ASSUME NEW q \in Packets \ {p} PROVE PacketInv(q)'
  <2>1. UNCHANGED <<module[q], codecIn[q], isSet[q], decoded[q], todo[q],
                    adding[q], target[q], asked[q], fed[q]>>
    BY <1>1, <1>4, <1>5 DEF TypeInv
  <2>2. QED BY <1>1, <1>4, <1>8, <2>1, Untouched
<1>10. \A ch \in Channels : ch \in FedTo(p) /\ ChannelEnc[ch] = src => decoded'[p] = decoded[p]
  <2>1. CASE enc # src
    BY <1>5, <2>1
  <2>2. CASE enc = src
    <3>1. hardware \in Encodings => src # hardware
      BY <1>6, <1>7, <2>2 DEF Encodings
    <3>2. hardware = "mixed" => src = "dstar" /\ FedTo(p) \subseteq {1}
      BY <1>6, <1>7, <2>2 DEF FirstInv
    <3>3. hardware = "onemodule" => src = "dstar" /\ FedTo(p) \subseteq {1}
      BY <1>3, <1>5, <1>6, <1>7, <2>2 DEF LoneInv, DeviceEnc, Encodings
    <3>4. QED BY <1>3, <3>1, <3>2, <3>3, EncOfChannel DEF Encodings
  <2>3. QED BY <2>1, <2>2
<1>11. WaitingInv'
  <2>1. \A q \in Packets : \A ch \in Channels : ch \in FedTo(q) =>
          /\ Source(q)' = Source(q) /\ module'[q] = module[q]
          /\ ChannelEnc[ch] = Source(q) /\ module[q] = "second" =>
               decoded'[q] = decoded[q]
    BY <1>1, <1>3, <1>4, <1>5, <1>8, <1>10 DEF TypeInv
  <2>2. QED BY <1>1, <1>4, <2>1, WaitingStays
<1>12. CASE enc = src
  <2>1. PICK r : r = RouteRequests(m, c)
    OBVIOUS
  <2>2. /\ hardware # "mixed" => r = <<None>>
        /\ hardware = "mixed" => r = <<1>>
        /\ src # None
    BY <1>2, <1>3, <1>5, <1>6, <1>12, <2>1, RouteRequestsIs
  <2>3. /\ decoded' = [decoded EXCEPT ![p] = TRUE]
        /\ todo' = [todo EXCEPT ![p] = r] /\ isSet' = isSet /\ ~ decoded[p]
    BY <1>5, <1>12, <2>1
  <2>4. TypeInv'
    <3>1. r \in Seq(Channels \cup {None})
      BY <1>3, <2>2, RequestTypes
    <3>2. QED BY <1>1, <1>4, <2>3, <3>1 DEF TypeInv
  <2>5. decoded'[p] = TRUE /\ todo'[p] = r
    BY <1>1, <2>3 DEF TypeInv
  <2>6. asked[p] = {} /\ todo[p] = <<>> /\ ~ adding[p]
    BY <1>1, <1>3, <1>6, <1>7, <1>12, <2>2, <2>3 DEF SingleInv, FirstInv, LineInv
  <2>7. LineInv(p)'
    BY <1>1, <1>4, <1>8, <2>2, <2>6 DEF LineInv
  <2>8. hardware # "mixed" => SingleInv(p)'
    BY <1>4, <1>6, <1>7, <1>8, <1>12, <2>2, <2>3, <2>5, <2>6, <1>3 DEF SingleInv
  <2>12. /\ hardware \in Encodings => OneEncInv(p)'
         /\ hardware = "onemodule" => LoneInv(p)'
    BY <1>4, <1>7, <1>8, <2>3 DEF OneEncInv, LoneInv
  <2>9. hardware = "mixed" => FirstInv(p)'
    BY <1>4, <1>7, <1>8, <2>2, <2>5, <2>6 DEF FirstInv
  <2>10. PacketInv(p)'
    BY <1>2, <1>4, <1>6, <2>7, <2>8, <2>9, <2>12 DEF PacketInv
  <2>11. QED BY <1>9, <1>11, <2>4, <2>10 DEF DV3003Inv
<1>13. CASE enc # src
  <2>1. /\ isSet' = [isSet EXCEPT ![p] = @ \cup {enc}]
        /\ decoded' = decoded /\ todo' = todo /\ decoded[p]
    BY <1>5, <1>13
  <2>2. TypeInv'
    BY <1>1, <1>4, <2>1 DEF TypeInv
  <2>3. isSet'[p] = isSet[p] \cup {enc}
    BY <1>1, <2>1 DEF TypeInv
  <2>4. LineInv(p)'
    BY <1>1, <1>4, <1>8, <2>1 DEF LineInv
  <2>5. hardware # "mixed" => SingleInv(p)'
    BY <1>4, <1>7, <1>8, <2>1, <2>3 DEF SingleInv
  <2>9. hardware \in Encodings => OneEncInv(p)'
    <3>1. hardware = "dmrsf" /\ Source(p) = "dmrsf" => ~ decoded[p]
      BY <1>7 DEF SingleInv, Encodings
    <3>2. hardware = "dstar" => enc = "dmrsf"
      BY <1>6, <1>7 DEF Encodings
    <3>3. QED BY <1>4, <1>7, <1>8, <2>1, <2>3, <3>1, <3>2 DEF OneEncInv, Encodings
  <2>10. hardware = "onemodule" => LoneInv(p)'
    <3>1. hardware = "onemodule" /\ Source(p) = "dmrsf" => ~ decoded[p]
      BY <1>7 DEF SingleInv, DeviceEnc
    <3>2. QED BY <1>4, <1>7, <1>8, <2>1, <2>3, <3>1 DEF LoneInv
  <2>6. hardware = "mixed" => FirstInv(p)'
    BY <1>4, <1>7, <1>8, <2>1 DEF FirstInv
  <2>7. PacketInv(p)'
    BY <1>2, <1>4, <1>6, <2>4, <2>5, <2>6, <2>9, <2>10 DEF PacketInv
  <2>8. QED BY <1>9, <1>11, <2>2, <2>7 DEF DV3003Inv
<1>14. QED BY <1>12, <1>13

-----------------------------------------------------------------------------
(* The request to be made next for a packet of the second module. *)
LEMMA NextRequest ==
  ASSUME NEW p, SecondInv(p), Source(p) \in {None, "dstar", "dmrsf"},
         todo[p] # <<>>, NEW h, h = Head(todo[p])
  PROVE  /\ h \in {0, 2}
         /\ (IF h = 0 THEN "dstar" ELSE "dmrsf") \notin asked[p]
         /\ h = 0 => "dmrsf" \notin asked[p] \/ 2 \in FedTo(p)
         /\ h = 2 /\ Source(p) = "dstar" => 0 \in FedTo(p)
<1>1. None # "dstar" /\ None # "dmrsf"
  BY DV3003Assumption DEF Encodings
<1>2. PlanInv(p)
  BY DEF SecondInv
<1>3. \/ todo[p] = <<0, 2>> /\ asked[p] = {} /\ Source(p) = None
      \/ todo[p] = <<2>> /\ asked[p] = {"dstar"} /\ Source(p) = None
      \/ todo[p] = <<2>> /\ asked[p] = {"dstar"} /\ Source(p) = "dstar" /\ decoded[p]
      \/ todo[p] = <<0>> /\ asked[p] = {} /\ Source(p) = "dstar"
      \/ todo[p] = <<2>> /\ asked[p] = {} /\ Source(p) = "dmrsf"
      \/ todo[p] = <<0>> /\ asked[p] = {"dmrsf"} /\ Source(p) = "dmrsf" /\ decoded[p]
  <2>1. CASE Source(p) = None
    BY ONLY <1>1, <1>2, <2>1, todo[p] # <<>> DEF PlanInv
  <2>2. CASE Source(p) = "dstar"
    BY ONLY <1>1, <1>2, <2>2, todo[p] # <<>> DEF PlanInv
  <2>3. CASE Source(p) = "dmrsf"
    BY ONLY <1>1, <1>2, <2>3, todo[p] # <<>> DEF PlanInv
  <2>4. QED BY <2>1, <2>2, <2>3
<1>4. \/ h = 0 /\ asked[p] = {}
      \/ h = 0 /\ asked[p] = {"dmrsf"} /\ Source(p) = "dmrsf" /\ decoded[p]
      \/ h = 2 /\ asked[p] = {} /\ Source(p) = "dmrsf"
      \/ h = 2 /\ asked[p] = {"dstar"} /\ Source(p) = None
      \/ h = 2 /\ asked[p] = {"dstar"} /\ Source(p) = "dstar" /\ decoded[p]
  BY <1>3, Pairs
<1>5. /\ Source(p) = "dstar" /\ decoded[p] => 0 \in FedTo(p)
      /\ Source(p) = "dmrsf" /\ decoded[p] => 2 \in FedTo(p)
  BY DEF SecondInv
<1>6. QED BY <1>1, <1>4, <1>5

LEMMA SetTargetKeeps ==
  ASSUME DV3003Inv, NEW p \in Packets, SetTarget(p)
  PROVE  DV3003Inv'
<1>1. /\ TypeInv /\ WaitingInv /\ \A q \in Packets : PacketInv(q) /\ LineInv(q)
      /\ todo[p] # <<>> /\ ~ adding[p]
  BY DEF DV3003Inv, PacketInv, SetTarget
<1>2. PICK h : h = Head(todo[p])
  OBVIOUS
<1>3. /\ UNCHANGED <<hardware, module, codecIn>>
      /\ UNCHANGED <<isSet, decoded, todo, inputQueue, feeding, waiting, chip,
                     asked, fed>>
      /\ adding' = [adding EXCEPT ![p] = TRUE]
      /\ target' = [target EXCEPT ![p] = IF h = None THEN @ ELSE h]
  BY <1>2 DEF SetTarget, packetVars
<1>4. module[p] # None
  BY <1>1 DEF LineInv
<1>5. \A q \in Packets :
        Line(q)' = Line(q) /\ FedTo(q)' = FedTo(q) /\ Source(q)' = Source(q)
  BY <1>3 DEF Line, FedTo, Source
<1>6. WaitingInv'
  BY <1>1, <1>3, <1>5, WaitingStays
<1>7. ASSUME NEW q \in Packets \ {p} PROVE PacketInv(q)'
  <2>1. UNCHANGED <<module[q], codecIn[q], isSet[q], decoded[q], todo[q],
                    adding[q], target[q], asked[q], fed[q]>>
    BY <1>1, <1>3 DEF TypeInv
  <2>2. QED BY <1>1, <1>3, <1>5, <2>1, Untouched
<1>8. TypeInv'
  <2>1. h \in Channels \cup {None}
    BY <1>1, <1>2 DEF TypeInv
  <2>2. QED BY <1>1, <1>3, <2>1 DEF TypeInv
<1>9. /\ adding'[p] = TRUE
      /\ target'[p] = IF h = None THEN target[p] ELSE h
  BY <1>1, <1>3 DEF TypeInv
<1>10. LineInv(p)'
  BY <1>1, <1>3, <1>4, <1>5 DEF LineInv
<1>11. hardware # "mixed" => SingleInv(p)'
  <2>1. hardware # "mixed" => SingleInv(p) /\ h = None
    BY <1>1, <1>2, <1>4, Pairs DEF PacketInv, SingleInv
  <2>2. QED BY <1>3, <1>5, <1>9, <2>1 DEF SingleInv, DeviceEnc
<1>16. /\ hardware \in Encodings => OneEncInv(p)'
       /\ hardware = "onemodule" => LoneInv(p)'
  BY <1>1, <1>3, <1>4, <1>5 DEF PacketInv, OneEncInv, LoneInv
<1>12. module[p] = "first" /\ hardware = "mixed" => FirstInv(p)'
  <2>1. module[p] = "first" /\ hardware = "mixed" =>
          FirstInv(p) /\ h = 1 /\ 1 # None /\ asked[p] = {} /\ todo[p] = <<1>>
    BY <1>1, <1>2, Pairs, DV3003Assumption DEF PacketInv, FirstInv
  <2>2. QED
    BY <1>3, <1>5, <1>9, <1>10, <2>1 DEF FirstInv, LineInv
<1>13. ASSUME module[p] = "second", hardware = "mixed" PROVE SecondInv(p)'
  <2>1. SecondInv(p) /\ 0 # None /\ 2 # None
    BY <1>1, <1>13, DV3003Assumption DEF PacketInv
  <2>2. Source(p) \in {None, "dstar", "dmrsf"}
    BY <1>1, <1>4, ArrivedTypes DEF Encodings
  <2>3. /\ Ordered(p) = asked[p]
        /\ Ordered(p)' = asked[p] \cup {IF h = 0 THEN "dstar" ELSE "dmrsf"}
        /\ h \in {0, 2} /\ (IF h = 0 THEN "dstar" ELSE "dmrsf") \notin asked[p]
    <3>1. Ordered(p) = asked[p]
      BY <1>1 DEF Ordered
    <3>2. /\ h \in {0, 2}
          /\ (IF h = 0 THEN "dstar" ELSE "dmrsf") \notin asked[p]
      BY <1>1, <1>2, <2>1, <2>2, NextRequest
    <3>3. Wanted(h)' = IF h = 0 THEN "dstar" ELSE "dmrsf"
      <4>1. Wanted(h)' = Wanted(h)
        BY <1>3 DEF Wanted, ChannelEnc, DeviceEnc
      <4>2. QED BY <1>13, <3>2, <4>1, WantedIs
    <3>4. Ordered(p)' = asked[p] \cup {IF h = 0 THEN "dstar" ELSE "dmrsf"}
      BY <1>2, <1>3, <1>9, <3>3 DEF Ordered
    <3>5. QED BY <3>1, <3>2, <3>4
  <2>4. /\ h = 0 => "dmrsf" \notin asked[p] \/ 2 \in FedTo(p)
        /\ h = 2 /\ Source(p) = "dstar" => 0 \in FedTo(p)
    BY <1>1, <1>2, <2>1, <2>2, NextRequest
  <2>5. PlanInv(p)'
    BY <1>3, <1>5, <2>1 DEF SecondInv, PlanInv
  <2>6. TargetInv(p)'
    <3>1. CASE h = 0
      BY <1>5, <1>9, <2>1, <2>3, <2>4, <3>1 DEF SecondInv, TargetInv
    <3>2. CASE h = 2
      BY <1>5, <1>9, <2>1, <2>3, <2>4, <3>2 DEF SecondInv, TargetInv
    <3>3. QED BY <2>3, <3>1, <3>2
  <2>7. QED BY <1>3, <1>5, <2>1, <2>3, <2>5, <2>6 DEF SecondInv
<1>14. PacketInv(p)'
  BY <1>3, <1>10, <1>11, <1>12, <1>13, <1>16 DEF PacketInv
<1>15. QED BY <1>6, <1>7, <1>8, <1>14 DEF DV3003Inv

LEMMA AddKeeps ==
  ASSUME DV3003Inv, NEW p \in Packets, AddPacket(p)
  PROVE  DV3003Inv'
<1>1. /\ TypeInv /\ WaitingInv /\ \A q \in Packets : PacketInv(q) /\ LineInv(q)
      /\ todo[p] # <<>> /\ adding[p]
  BY DEF DV3003Inv, PacketInv, AddPacket, LineInv
<1>2. PICK h, t, w : h = Head(todo[p]) /\ t = Tail(todo[p]) /\ w = Wanted(h)
  OBVIOUS
<1>3. /\ UNCHANGED <<hardware, module, codecIn>>
      /\ UNCHANGED <<isSet, decoded, target, feeding, waiting, chip, fed>>
      /\ adding' = [adding EXCEPT ![p] = FALSE]
      /\ inputQueue' = Append(inputQueue, p)
      /\ asked' = [asked EXCEPT ![p] = @ \cup {w}]
      /\ todo' = [todo EXCEPT ![p] = t]
  BY <1>2 DEF AddPacket, packetVars
<1>4. module[p] # None
  BY <1>1 DEF LineInv
<1>5. /\ module[p] \in Modules /\ Source(p) \in {None, "dstar", "dmrsf"}
      /\ hardware \in {"mixed", "onemodule", "dstar", "dmrsf"}
  BY <1>1, <1>4, ArrivedTypes DEF Encodings
<1>6. /\ adding'[p] = FALSE /\ todo'[p] = t /\ asked'[p] = asked[p] \cup {w}
  BY <1>1, <1>3 DEF TypeInv
<1>7. Ordered(p)' = Ordered(p)
  BY <1>1, <1>2, <1>6 DEF Ordered
<1>8. \A q \in Packets : FedTo(q)' = FedTo(q) /\ Source(q)' = Source(q)
  BY <1>3 DEF FedTo, Source
<1>9. \A q \in Packets : Line(q)' = Line(q) + (IF q = p THEN 1 ELSE 0)
  <2>1. ASSUME NEW q \in Packets
        PROVE  Line(q)' = Line(q) + (IF q = p THEN 1 ELSE 0)
    <3>1. PICK a, b : a = Count(inputQueue, q) /\ b = Count(Append(inputQueue, p), q)
      OBVIOUS
    <3>2. a \in Nat /\ b = a + (IF p = q THEN 1 ELSE 0)
      BY <1>1, <3>1, CopiesFinite, CountAppend DEF TypeInv
    <3>3. Line(q) = a + (IF feeding = q THEN 1 ELSE 0)
      BY <3>1 DEF Line
    <3>4. Line(q)' = b + (IF feeding = q THEN 1 ELSE 0)
      BY <1>3, <3>1 DEF Line
    <3>5. QED BY <3>2, <3>3, <3>4
  <2>2. QED BY <2>1
<1>10. WaitingInv'
  BY <1>1, <1>3, <1>8, WaitingStays
<1>11. ASSUME NEW q \in Packets \ {p} PROVE PacketInv(q)'
  <2>1. UNCHANGED <<module[q], codecIn[q], isSet[q], decoded[q], todo[q],
                    adding[q], target[q], asked[q], fed[q]>>
    BY <1>1, <1>3 DEF TypeInv
  <2>2. Line(q)' = Line(q)
    BY <1>1, <1>9, LineType
  <2>3. QED BY <1>1, <1>3, <2>1, <2>2, Untouched
<1>12. w \in Encodings \ asked[p]
  <2>1. CASE hardware # "mixed"
    <3>1. h = None /\ asked[p] = {}
      BY <1>1, <1>2, <1>4, <2>1, Pairs DEF PacketInv, SingleInv
    <3>2. QED BY <1>2, <1>5, <2>1, <3>1, WantedIs
  <2>2. CASE hardware = "mixed" /\ module[p] = "first"
    <3>1. h = 1 /\ asked[p] = {}
      BY <1>1, <1>2, <2>2, Pairs DEF PacketInv, FirstInv
    <3>2. QED BY <1>2, <2>2, <3>1, WantedIs DEF Encodings
  <2>3. CASE hardware = "mixed" /\ module[p] = "second"
    <3>1. /\ h \in {0, 2}
          /\ (IF h = 0 THEN "dstar" ELSE "dmrsf") \notin asked[p]
      BY <1>1, <1>2, <1>5, <2>3, NextRequest DEF PacketInv
    <3>2. QED BY <1>2, <2>3, <3>1, WantedIs DEF Encodings
  <2>4. QED BY <1>5, <2>1, <2>2, <2>3 DEF Modules
<1>13. TypeInv'
  <2>1. t \in Seq(Channels \cup {None}) /\ Append(inputQueue, p) \in Seq(Packets)
    BY <1>1, <1>2 DEF TypeInv
  <2>2. QED BY <1>1, <1>3, <1>12, <2>1 DEF TypeInv
<1>14. LineInv(p)'
  <2>1. Size(asked[p] \cup {w}) = Size(asked[p]) + 1 /\ Size(asked[p]) \in Nat
    <3>1. asked[p] \in SUBSET Encodings
      BY <1>1 DEF TypeInv
    <3>2. QED BY <1>12, <3>1, SizeIs
  <2>2. PICK a, b, c : a = Line(p) /\ b = Len(fed[p]) /\ c = Size(asked[p])
    OBVIOUS
  <2>3. a \in Nat /\ b \in Nat /\ c \in Nat /\ a + b = c
    <3>1. a \in Nat
      BY <1>1, <2>2, LineType
    <3>2. fed[p] \in Seq(Channels \cup {Unmapped})
      BY <1>1 DEF TypeInv
    <3>3. QED BY <1>1, <2>1, <2>2, <3>1, <3>2 DEF LineInv
  <2>4. Line(p)' = a + 1 /\ Len(fed'[p]) = b /\ Size(asked'[p]) = c + 1
    BY <1>3, <1>6, <1>9, <2>1, <2>2
  <2>5. Line(p)' + Len(fed'[p]) = Size(asked'[p])
    BY <2>3, <2>4
  <2>6. QED BY <1>1, <1>3, <1>4, <1>6, <2>5 DEF LineInv
<1>15. hardware # "mixed" => SingleInv(p)'
  <2>1. hardware # "mixed" =>
          /\ SingleInv(p) /\ h = None /\ t = <<>> /\ w = DeviceEnc
          /\ Source(p) = None \/ Source(p) = DeviceEnc \/ decoded[p]
    BY <1>1, <1>2, <1>4, Pairs, WantedIs DEF PacketInv, SingleInv
  <2>2. QED BY <1>3, <1>6, <1>8, <2>1 DEF SingleInv, DeviceEnc
<1>20. /\ hardware \in Encodings => OneEncInv(p)'
       /\ hardware = "onemodule" => LoneInv(p)'
  BY <1>1, <1>3, <1>4, <1>8 DEF PacketInv, OneEncInv, LoneInv
<1>16. module[p] = "first" /\ hardware = "mixed" => FirstInv(p)'
  <2>1. module[p] = "first" /\ hardware = "mixed" =>
          /\ FirstInv(p) /\ t = <<>> /\ w = "dmrsf" /\ target[p] = 1
          /\ Source(p) # "dstar" \/ decoded[p]
    <3>1. module[p] = "first" /\ hardware = "mixed" =>
            /\ FirstInv(p) /\ todo[p] = <<1>> /\ target[p] = 1
            /\ Source(p) # "dstar" \/ decoded[p]
      BY <1>1 DEF PacketInv, FirstInv
    <3>2. todo[p] = <<1>> => h = 1 /\ t = <<>>
      BY <1>2, Pairs
    <3>3. QED BY <1>2, <3>1, <3>2, WantedIs
  <2>2. Line(p)' > 0
    BY <1>1, <1>9, LineType
  <2>3. QED BY <1>3, <1>6, <1>8, <2>1, <2>2 DEF FirstInv
<1>17. ASSUME module[p] = "second", hardware = "mixed" PROVE SecondInv(p)'
  <2>1. SecondInv(p) /\ PlanInv(p) /\ TargetInv(p)
    BY <1>1, <1>17 DEF PacketInv, SecondInv
  <2>2. /\ h = 0 => w = "dstar"
        /\ h = 2 => w = "dmrsf"
    BY <1>2, <1>17, WantedIs
  <2>3. PlanInv(p)'
    <3>1. todo[p] = <<0, 2>> => h = 0 /\ t = <<2>>
      BY <1>2, Pairs
    <3>2. \A x : todo[p] = <<x>> => h = x /\ t = <<>>
      BY <1>2, Pairs
    <3>3. asked[p] = {"dstar"} /\ w = "dmrsf" => asked'[p] = {"dstar", "dmrsf"}
      BY <1>6
    <3>4. asked[p] = {"dmrsf"} /\ w = "dstar" => asked'[p] = {"dstar", "dmrsf"}
      BY <1>6
    <3>5. asked[p] = {} => asked'[p] = {w}
      BY <1>6
    <3>6. CASE Source(p) = None
      BY <1>1, <1>5, <1>6, <1>8, <2>1, <2>2, <3>1, <3>2, <3>3, <3>5, <3>6,
         DV3003Assumption DEF PlanInv, Encodings
    <3>7. CASE Source(p) = "dstar"
      BY <1>1, <1>3, <1>5, <1>6, <1>8, <2>1, <2>2, <3>2, <3>3, <3>5, <3>7,
         DV3003Assumption DEF PlanInv, Encodings
    <3>8. CASE Source(p) = "dmrsf"
      BY <1>1, <1>3, <1>5, <1>6, <1>8, <2>1, <2>2, <3>2, <3>4, <3>5, <3>8,
         DV3003Assumption DEF PlanInv, Encodings
    <3>9. QED BY <1>5, <3>6, <3>7, <3>8
  <2>4. TargetInv(p)'
    BY <1>3, <1>7, <1>8, <2>1 DEF TargetInv
  <2>5. QED BY <1>3, <1>7, <1>8, <2>1, <2>3, <2>4 DEF SecondInv
<1>18. PacketInv(p)'
  BY <1>3, <1>14, <1>15, <1>16, <1>17, <1>20 DEF PacketInv
<1>19. QED BY <1>10, <1>11, <1>13, <1>18 DEF DV3003Inv

LEMMA PopKeeps ==
  ASSUME DV3003Inv, FeedPop
  PROVE  DV3003Inv'
<1>1. PICK q, p, t : q = inputQueue /\ p = Head(q) /\ t = Tail(q)
  OBVIOUS
<1>2. /\ TypeInv /\ WaitingInv /\ \A r \in Packets : PacketInv(r)
      /\ q # <<>> /\ feeding = None
      /\ feeding' = p /\ inputQueue' = t
      /\ UNCHANGED <<hardware, module, codecIn>>
      /\ UNCHANGED <<isSet, decoded, todo, adding, target, waiting, chip, asked, fed>>
  BY <1>1 DEF DV3003Inv, FeedPop, packetVars
<1>3. q \in Seq(Packets) /\ t \in Seq(Packets) /\ p \in Packets
  BY <1>1, <1>2 DEF TypeInv
<1>4. TypeInv'
  BY <1>2, <1>3 DEF TypeInv
<1>5. ASSUME NEW r \in Packets PROVE PacketInv(r)'
  <2>1. Line(r)' = Line(r)
    <3>1. Count(q, r) = Count(t, r) + (IF p = r THEN 1 ELSE 0)
      BY <1>1, <1>2, <1>3, CountTail
    <3>2. Count(t, r) \in Nat
      BY <1>3, CopiesFinite
    <3>3. Line(r) = Count(q, r) + 0
      BY <1>1, <1>2, DV3003Assumption DEF Line
    <3>4. Line(r)' = Count(t, r) + (IF p = r THEN 1 ELSE 0)
      BY <1>2 DEF Line
    <3>5. QED BY <3>1, <3>2, <3>3, <3>4
  <2>2. QED BY <1>2, <2>1, Untouched
<1>6. WaitingInv'
  <2>1. \A r \in Packets : Source(r)' = Source(r)
    BY <1>2 DEF Source
  <2>2. QED BY <1>2, <2>1, WaitingStays
<1>7. QED BY <1>4, <1>5, <1>6 DEF DV3003Inv

-----------------------------------------------------------------------------
(* A packet that is in line is fed to a channel it has not been fed to,    *)
(* and to the one that decodes it only while it is not decoded.            *)
LEMMA FedAnew ==
  ASSUME TypeInv, NEW p \in Packets, PacketInv(p), Line(p) > 0,
         NEW ch, ch = MapPacketToChannel(p)
  PROVE  /\ module[p] # None /\ Len(fed[p]) < Size(asked[p])
         /\ hardware # "mixed" => ch \in {0, 1, Unmapped} /\ FedTo(p) = {}
         /\ hardware = "mixed" /\ module[p] = "first" => ch = 1 /\ FedTo(p) = {}
         /\ hardware = "mixed" /\ module[p] = "second" =>
              /\ ch \in {0, 2} /\ ch \notin FedTo(p)
              /\ target[p] # None => ch = target[p]
              /\ target[p] = None => ch = 0 /\ Source(p) # "dstar"
              /\ (IF ch = 0 THEN "dstar" ELSE "dmrsf") \in Ordered(p)
<1>1. PICK a, b, E : a = Line(p) /\ b = Len(fed[p]) /\ E = asked[p]
  OBVIOUS
<1>2. /\ a \in Nat /\ b \in Nat /\ a > 0 /\ E \in SUBSET Encodings
      /\ a + b = Size(E) /\ Size(E) \in 0..2
  BY <1>1, LineType, SizeIs DEF TypeInv, PacketInv, LineInv
<1>3. b < Size(E)
  BY <1>2
<1>4. module[p] # None
  BY NotArrived DEF PacketInv
<1>5. /\ b = 0 <=> FedTo(p) = {}
      /\ \A x, y \in FedTo(p) : x # y => b >= 2
  BY <1>1, FedCount DEF PacketInv, LineInv
<1>6. \A e : E \subseteq {e} => FedTo(p) = {}
  <2>1. ASSUME NEW e, E \subseteq {e} PROVE Size(E) <= 1
    BY <2>1 DEF Size
  <2>2. QED BY <1>2, <1>3, <1>5, <2>1
<1>7. hardware # "mixed" => ch \in {0, 1, Unmapped} /\ FedTo(p) = {}
  BY <1>1, <1>4, <1>6, Mapped DEF PacketInv, SingleInv, TypeInv
<1>8. hardware = "mixed" /\ module[p] = "first" => ch = 1 /\ FedTo(p) = {}
  <2>1. hardware = "mixed" /\ module[p] = "first" =>
          target[p] = 1 /\ E \subseteq {"dmrsf"} /\ 1 # None
    BY <1>1, DV3003Assumption DEF PacketInv, FirstInv
  <2>2. QED BY <1>6, <2>1, Mapped
<1>9. ASSUME hardware = "mixed", module[p] = "second"
      PROVE  /\ ch \in {0, 2} /\ ch \notin FedTo(p)
             /\ target[p] # None => ch = target[p]
             /\ target[p] = None => ch = 0 /\ Source(p) # "dstar"
             /\ (IF ch = 0 THEN "dstar" ELSE "dmrsf") \in Ordered(p)
  <2>1. SecondInv(p) /\ TargetInv(p) /\ E \subseteq Ordered(p)
    BY <1>1, <1>9 DEF PacketInv, SecondInv, Ordered
  <2>2. CASE target[p] # None
    BY <2>1, <2>2, Mapped DEF TargetInv
  <2>3. CASE target[p] = None
    <3>1. "dmrsf" \in E => 2 \in FedTo(p)
      BY <2>1, <2>3 DEF TargetInv
    <3>2. "dstar" \in E
      <4>1. CASE "dstar" \notin E /\ "dmrsf" \notin E
        BY <1>2, <1>3, <4>1 DEF Size
      <4>2. CASE "dstar" \notin E /\ "dmrsf" \in E
        <5>1. Size(E) = 1 /\ b = 0
          BY <1>2, <1>3, <4>2 DEF Size
        <5>2. QED BY <1>5, <3>1, <4>2, <5>1
      <4>3. QED BY <4>1, <4>2
    <3>3. 0 \notin FedTo(p)
      <4>1. SUFFICES ASSUME 0 \in FedTo(p) PROVE FALSE
        OBVIOUS
      <4>2. b # 0
        BY <1>5, <4>1
      <4>3. "dmrsf" \in E
        BY <1>2, <1>3, <4>2 DEF Size
      <4>4. QED BY <1>2, <1>3, <1>5, <3>1, <4>1, <4>3
    <3>4. Source(p) # "dstar"
      BY <2>1, <2>3, <3>2, <3>3, DV3003Assumption DEF TargetInv
    <3>5. "dstar" \notin isSet[p]
      BY <2>1, <3>3, <3>4 DEF SecondInv
    <3>6. ch = 0
      BY <1>9, <2>3, <3>5, Mapped
    <3>7. QED BY <2>1, <2>3, <3>2, <3>3, <3>4, <3>6
  <2>4. QED BY <2>2, <2>3
<1>10. QED BY <1>1, <1>3, <1>4, <1>7, <1>8, <1>9

LEMMA FeedKeeps ==
  ASSUME DV3003Inv, FeedChannel
  PROVE  DV3003Inv'
<1>1. PICK p, ch : p = feeding /\ ch = MapPacketToChannel(p)
  OBVIOUS
<1>2. /\ TypeInv /\ WaitingInv /\ \A q \in Packets : PacketInv(q) /\ LineInv(q)
      /\ p \in Packets /\ p # None
  BY <1>1, DV3003Assumption DEF DV3003Inv, PacketInv, FeedChannel, TypeInv
<1>3. /\ UNCHANGED <<hardware, module, codecIn>>
      /\ UNCHANGED <<isSet, decoded, todo, adding, inputQueue, asked>>
      /\ target' = [target EXCEPT ![p] = None]
      /\ fed' = [fed EXCEPT ![p] = Append(@, ch)]
      /\ feeding' = None
      /\ \/ ch = Unmapped /\ UNCHANGED <<waiting, chip>>
         \/ /\ ch # Unmapped
            /\ waiting' = [waiting EXCEPT ![ch] = Append(@, p)]
            /\ \E e \in {"encode", "decode"} :
                 chip' = [chip EXCEPT ![ch] = Append(@, e)]
  BY <1>1 DEF FeedChannel, packetVars
<1>4. Line(p) > 0
  BY <1>1, <1>2, LineType
<1>5. /\ module[p] # None /\ Len(fed[p]) < Size(asked[p])
      /\ hardware # "mixed" => ch \in {0, 1, Unmapped} /\ FedTo(p) = {}
      /\ hardware = "mixed" /\ module[p] = "first" => ch = 1 /\ FedTo(p) = {}
      /\ hardware = "mixed" /\ module[p] = "second" =>
           /\ ch \in {0, 2} /\ ch \notin FedTo(p)
           /\ target[p] # None => ch = target[p]
           /\ target[p] = None => ch = 0 /\ Source(p) # "dstar"
           /\ (IF ch = 0 THEN "dstar" ELSE "dmrsf") \in Ordered(p)
  BY <1>1, <1>2, <1>4, FedAnew
<1>6. /\ module[p] \in Modules /\ Source(p) \in {None, "dstar", "dmrsf"}
      /\ None # "dstar" /\ None # "dmrsf"
      /\ hardware \in {"mixed", "onemodule", "dstar", "dmrsf"}
  BY <1>2, <1>5, ArrivedTypes DEF Encodings
<1>7. ch \in Channels \cup {Unmapped} /\ ch \notin FedTo(p)
  BY <1>5, <1>6 DEF Channels, Modules
<1>8. PICK n : n = Append(fed[p], ch)
  OBVIOUS
<1>9. /\ Distinct(n) /\ n \in Seq(Channels \cup {Unmapped})
      /\ Len(n) = Len(fed[p]) + 1
      /\ InLine(n) = FedTo(p) \cup {ch}
  <2>1. fed[p] \in Seq(Channels \cup {Unmapped}) /\ Distinct(fed[p])
    BY <1>2 DEF TypeInv, LineInv
  <2>2. FedTo(p) = InLine(fed[p])
    BY DEF FedTo, InLine
  <2>3. QED BY <1>7, <1>8, <2>1, <2>2, DistinctAppend
<1>10. fed'[p] = n /\ target'[p] = None /\ FedTo(p)' = FedTo(p) \cup {ch}
  <2>1. fed'[p] = n /\ target'[p] = None
    BY <1>2, <1>3, <1>8 DEF TypeInv
  <2>2. FedTo(p)' = InLine(n)
    BY <2>1 DEF FedTo, InLine
  <2>3. QED BY <1>9, <2>1, <2>2
<1>11. \A q \in Packets : q # p => fed'[q] = fed[q] /\ FedTo(q)' = FedTo(q)
  BY <1>2, <1>3 DEF TypeInv, FedTo
<1>12. /\ \A q \in Packets : Source(q)' = Source(q) /\ Ordered(q)' = Ordered(q)
       /\ Source(p)' = Source(p) /\ Ordered(p)' = Ordered(p)
  BY <1>3 DEF Source, Ordered, Wanted, ChannelEnc, DeviceEnc
<1>13. \A q \in Packets : Line(q) = Line(q)' + (IF q = p THEN 1 ELSE 0)
  <2>1. ASSUME NEW q \in Packets
        PROVE  Line(q) = Line(q)' + (IF q = p THEN 1 ELSE 0)
    <3>1. Count(inputQueue, q) \in Nat
      BY <1>2, CopiesFinite DEF TypeInv
    <3>2. Line(q)' = Count(inputQueue, q) + 0
      BY <1>3, DV3003Assumption DEF Line
    <3>3. Line(q) = Count(inputQueue, q) + (IF q = p THEN 1 ELSE 0)
      BY <1>1 DEF Line
    <3>4. QED BY <3>1, <3>2, <3>3
  <2>2. QED BY <2>1
<1>14. Line(p)' \in Nat /\ Line(p)' + Len(n) = Size(asked[p])
  <2>1. PICK a, b : a = Line(p)' /\ b = Len(fed[p])
    OBVIOUS
  <2>2. a \in Nat
    <3>1. Count(inputQueue, p) \in Nat
      BY <1>2, CopiesFinite DEF TypeInv
    <3>2. Line(p)' = Count(inputQueue, p) + 0
      BY <1>2, <1>3 DEF Line
    <3>3. QED BY <2>1, <3>1, <3>2
  <2>3. b \in Nat /\ Line(p) = a + 1 /\ Line(p) + b = Size(asked[p])
    <3>1. b \in Nat
      BY <1>2, <2>1 DEF TypeInv
    <3>2. Line(p) = a + 1
      BY <1>2, <1>13, <2>1
    <3>3. Line(p) + b = Size(asked[p])
      <4>1. LineInv(p)
        BY <1>2
      <4>2. Line(p) + Len(fed[p]) = Size(asked[p])
        BY ONLY <4>1 DEF LineInv
      <4>3. QED BY <2>1, <4>2
    <3>4. QED BY <3>1, <3>2, <3>3
  <2>4. Len(n) = b + 1
    BY <1>9, <2>1
  <2>5. a + (b + 1) = Size(asked[p])
    BY ONLY <2>2, <2>3
  <2>6. QED BY <2>1, <2>2, <2>4, <2>5
<1>15. LineInv(p)'
  <2>1. /\ Len(fed'[p]) = Len(n) /\ Distinct(fed'[p])
        /\ Line(p)' + Len(n) = Size(asked[p])
    BY <1>9, <1>10, <1>14
  <2>2. /\ module'[p] = module[p] /\ codecIn'[p] = codecIn[p] /\ todo'[p] = todo[p]
        /\ adding'[p] = adding[p] /\ asked'[p] = asked[p]
    BY <1>3
  <2>3. /\ adding[p] => todo[p] # <<>>
        /\ codecIn[p] # None /\ module[p] # None
    BY <1>2, <1>5 DEF LineInv
  <2>4. QED BY <2>1, <2>2, <2>3 DEF LineInv
<1>16. ASSUME NEW q \in Packets \ {p} PROVE PacketInv(q)'
  <2>1. UNCHANGED <<module[q], codecIn[q], isSet[q], decoded[q], todo[q],
                    adding[q], target[q], asked[q], fed[q]>>
    BY <1>2, <1>3 DEF TypeInv
  <2>2. Line(q)' = Line(q)
    <3>1. Line(q)' = Count(inputQueue, q) + 0 /\ Line(q) = Count(inputQueue, q) + 0
      BY <1>1, <1>3, DV3003Assumption DEF Line
    <3>2. QED BY <3>1
  <2>3. QED BY <1>2, <1>3, <2>1, <2>2, Untouched
<1>17. ASSUME hardware # "mixed"
       PROVE  /\ SingleInv(p)'
              /\ hardware \in Encodings => OneEncInv(p)'
              /\ hardware = "onemodule" => LoneInv(p)'
  <2>1. SingleInv(p) /\ FedTo(p) = {} /\ fed[p] = <<>>
    BY <1>2, <1>5, <1>17, FedCount DEF PacketInv, LineInv
  <2>2. FedTo(p)' = {ch} /\ fed'[p] # <<>>
    <3>1. Len(n) # 0
      BY <1>2, <1>9 DEF TypeInv
    <3>2. QED BY <1>10, <2>1, <3>1
  <2>3. SingleInv(p)'
    BY <1>3, <1>10, <1>12, <2>1 DEF SingleInv, DeviceEnc
  <2>4. ASSUME hardware \in Encodings PROVE OneEncInv(p)'
    <3>1. /\ ch = IF ("dstar" \in isSet[p]) = (hardware = "dmrsf")
                    THEN 0 ELSE Unmapped
          /\ OneEncInv(p) /\ DeviceEnc = hardware /\ 0 # Unmapped
      BY <1>1, <1>2, <1>5, <2>1, <2>4, Mapped, WantedIs, DV3003Assumption
      DEF SingleInv, PacketInv, Encodings
    <3>2. Source(p) = hardware => ch = Unmapped
      BY <1>6, <2>1, <2>4, <3>1 DEF SingleInv, OneEncInv, Encodings
    <3>3. hardware = "dstar" /\ Source(p) # "dstar" => ch = 0
      BY <2>1, <3>1 DEF OneEncInv
    <3>4. hardware = "dmrsf" => /\ Source(p) = "dstar" => ch = 0
                                /\ ch = 0 => "dstar" \in isSet[p]
      BY <1>6, <2>1, <3>1 DEF SingleInv
    <3>5. ch \in {0, Unmapped}
      BY <3>1
    <3>6. QED BY <1>3, <1>12, <2>2, <3>1, <3>2, <3>3, <3>4, <3>5 DEF OneEncInv
  <2>5. ASSUME hardware = "onemodule" PROVE LoneInv(p)'
    <3>1. ch = IF "dstar" \in isSet[p] THEN 1 ELSE 0
      BY <1>1, <2>1, <2>5, Mapped DEF SingleInv
    <3>2. LoneInv(p)
      BY <1>2, <1>5, <2>5 DEF PacketInv
    <3>3. Source(p) = "dstar" => ch = 1
      BY <1>6, <2>1, <3>1 DEF SingleInv
    <3>4. Source(p) = "dmrsf" => ch = 0
      BY <2>1, <3>1, <3>2 DEF LoneInv
    <3>5. QED BY <1>12, <2>2, <3>1, <3>3, <3>4 DEF LoneInv
  <2>6. QED BY <2>3, <2>4, <2>5
<1>18. ASSUME hardware = "mixed", module[p] = "first" PROVE FirstInv(p)'
  <2>1. FirstInv(p) /\ FedTo(p) = {} /\ ch = 1 /\ asked[p] \subseteq {"dmrsf"}
    BY <1>2, <1>5, <1>18 DEF PacketInv, FirstInv
  <2>2. Size(asked[p]) <= 1
    BY <2>1 DEF Size
  <2>3. asked[p] # {}
    <3>1. Len(fed[p]) \in Nat
      BY <1>2 DEF TypeInv
    <3>2. asked[p] = {} => Size(asked[p]) = 0
      BY DEF Size
    <3>3. QED BY <1>5, <3>1, <3>2
  <2>4. todo[p] = <<>> /\ ~ adding[p]
    BY <1>2, <2>1, <2>3 DEF FirstInv, LineInv
  <2>5. Line(p)' = 0
    <3>1. Len(fed[p]) \in Nat
      BY <1>2 DEF TypeInv
    <3>2. Size(asked[p]) \in Nat
      <4>1. asked[p] \in SUBSET Encodings
        BY <1>2 DEF TypeInv
      <4>2. QED BY <4>1, SizeIs
    <3>3. Size(asked[p]) = 1 /\ Len(fed[p]) = 0
      BY <1>5, <2>2, <3>1, <3>2
    <3>4. QED BY <1>9, <1>14, <3>3
  <2>6. QED
    BY <1>3, <1>10, <1>12, <2>1, <2>3, <2>4, <2>5, DV3003Assumption DEF FirstInv
<1>19. ASSUME hardware = "mixed", module[p] = "second" PROVE SecondInv(p)'
  <2>1. SecondInv(p) /\ PlanInv(p) /\ TargetInv(p)
    BY <1>2, <1>19 DEF PacketInv, SecondInv
  <2>2. PlanInv(p)'
    BY <1>3, <1>12, <2>1 DEF PlanInv
  <2>3. ch \in {0, 2} /\ (IF ch = 0 THEN "dstar" ELSE "dmrsf") \in Ordered(p)
    BY <1>5, <1>19
  <2>4. "dmrsf" \notin Ordered(p) \/ 2 \in FedTo(p)'
    BY <1>5, <1>10, <1>19, <2>1 DEF TargetInv
  <2>5. Source(p) = "dstar" => "dstar" \notin Ordered(p) \/ 0 \in FedTo(p)'
    BY <1>5, <1>10, <1>19, <2>1, DV3003Assumption DEF TargetInv
  <2>6. TargetInv(p)'
    BY <1>10, <1>12, <2>4, <2>5, DV3003Assumption DEF TargetInv
  <2>7. QED BY <1>3, <1>10, <1>12, <2>1, <2>2, <2>3, <2>6 DEF SecondInv
<1>20. PacketInv(p)'
  BY <1>3, <1>15, <1>17, <1>18, <1>19 DEF PacketInv, Encodings
<1>21. TypeInv'
  <2>1. target' \in [Packets -> Channels \cup {None}]
    BY <1>2, <1>3 DEF TypeInv
  <2>2. fed' \in [Packets -> Seq(Channels \cup {Unmapped})]
    BY <1>2, <1>3, <1>8, <1>9 DEF TypeInv
  <2>3. waiting' \in [Channels -> Seq(Packets)]
    <3>1. CASE ch = Unmapped
      BY <1>2, <1>3, <3>1 DEF TypeInv
    <3>2. CASE ch # Unmapped
      <4>1. waiting' = [waiting EXCEPT ![ch] = Append(@, p)]
        BY <1>3, <3>2
      <4>2. ch \in Channels /\ Append(waiting[ch], p) \in Seq(Packets)
        BY <1>2, <1>7, <3>2 DEF TypeInv
      <4>3. QED BY <1>2, <4>1, <4>2 DEF TypeInv
    <3>3. QED BY <3>1, <3>2
  <2>4. chip' \in [Channels -> Seq({"encode", "decode"})]
    <3>1. CASE ch = Unmapped
      BY <1>2, <1>3, <3>1 DEF TypeInv
    <3>2. CASE ch # Unmapped
      <4>1. PICK e \in {"encode", "decode"} :
              chip' = [chip EXCEPT ![ch] = Append(@, e)]
        BY <1>3, <3>2
      <4>2. ch \in Channels /\ Append(chip[ch], e) \in Seq({"encode", "decode"})
        BY <1>2, <1>7, <3>2 DEF TypeInv
      <4>3. QED BY <1>2, <4>1, <4>2 DEF TypeInv
    <3>3. QED BY <3>1, <3>2
  <2>5. QED BY <1>2, <1>3, <2>1, <2>2, <2>3, <2>4 DEF TypeInv
<1>22. ch # Unmapped /\ ChannelEnc[ch] = Source(p) /\ module[p] = "second" => ~ decoded[p]
  <2>1. CASE hardware # "mixed"
    <3>1. hardware \in Encodings => (Source(p) = hardware => ch = Unmapped)
      BY <1>3, <1>10, <1>12, <1>17, <2>1 DEF OneEncInv
    <3>2. hardware = "onemodule" => /\ Source(p) = "dstar" => ch = 1
                                    /\ Source(p) = "dmrsf" => ch = 0
                                    /\ ch \in {0, 1}
      BY <1>10, <1>12, <1>17, <2>1 DEF LoneInv
    <3>3. QED BY <1>6, <1>7, <2>1, <3>1, <3>2, EncOfChannel DEF Encodings
  <2>2. CASE hardware = "mixed"
    <3>1. module[p] = "second" =>
            /\ SecondInv(p) /\ ch \in {0, 2} /\ ch \notin FedTo(p)
      BY <1>2, <1>5, <2>2 DEF PacketInv
    <3>2. QED BY <2>2, <3>1, EncOfChannel DEF SecondInv
  <2>3. QED BY <2>1, <2>2
<1>23. WaitingInv'
  <2>1. ChannelEnc' = ChannelEnc
    BY <1>3 DEF ChannelEnc
  <2>2. \A c \in Channels, r \in Packets : Waits(c, r) => Waits(c, r)'
    <3>1. \A r \in Packets : FedTo(r) \subseteq FedTo(r)'
      BY <1>10, <1>11
    <3>2. QED BY <1>3, <1>12, <2>1, <3>1 DEF Waits
  <2>3. ch # Unmapped => Waits(ch, p)'
    BY <1>3, <1>10, <1>12, <1>22, <2>1 DEF Waits
  <2>4. ASSUME NEW c \in Channels
        PROVE  /\ Len(waiting'[c]) = Len(chip'[c]) /\ Distinct(waiting'[c])
               /\ \A r \in InLine(waiting'[c]) : Waits(c, r)'
    <3>1. PICK w, v : w = waiting[c] /\ v = chip[c]
      OBVIOUS
    <3>2. /\ w \in Seq(Packets) /\ v \in Seq({"encode", "decode"})
          /\ Len(w) = Len(v) /\ Distinct(w)
          /\ \A r \in InLine(w) : r \in Packets /\ Waits(c, r)
      BY <1>2, <3>1 DEF TypeInv, WaitingInv, InLine
    <3>3. CASE c # ch
      <4>1. waiting'[c] = w /\ chip'[c] = v
        BY <1>2, <1>3, <3>1, <3>3 DEF TypeInv
      <4>2. \A r \in InLine(w) : Waits(c, r)'
        BY <2>2, <3>2
      <4>3. QED BY <3>2, <4>1, <4>2
    <3>4. CASE c = ch
      <4>1. ch # Unmapped
        BY <3>4, DV3003Assumption DEF Channels
      <4>2. PICK e \in {"encode", "decode"} :
              chip' = [chip EXCEPT ![ch] = Append(@, e)]
        BY <1>3, <4>1
      <4>3. PICK x, y : x = Append(w, p) /\ y = Append(v, e)
        OBVIOUS
      <4>4. waiting'[c] = x /\ chip'[c] = y
        BY <1>2, <1>3, <3>1, <3>4, <4>1, <4>2, <4>3 DEF TypeInv
      <4>5. p \notin InLine(w)
        BY <1>7, <3>2, <3>4 DEF Waits
      <4>6. /\ Distinct(x) /\ Len(x) = Len(w) + 1
            /\ InLine(x) = InLine(w) \cup {p}
        BY <1>2, <3>2, <4>3, <4>5, DistinctAppend
      <4>7. Len(y) = Len(v) + 1
        BY <3>2, <4>2, <4>3
      <4>8. \A r \in InLine(x) : Waits(c, r)'
        BY <2>2, <2>3, <3>2, <3>4, <4>1, <4>6
      <4>9. QED BY <3>2, <4>4, <4>6, <4>7, <4>8
    <3>5. QED BY <3>3, <3>4
  <2>5. QED BY <2>4 DEF WaitingInv
<1>24. QED BY <1>16, <1>20, <1>21, <1>23 DEF DV3003Inv

-----------------------------------------------------------------------------
(* What is answered: on a device of one encoding only what was encoded; in *)
(* the mixed set-up perhaps what it was to be decoded from, and then it is *)
(* routed on for the first time.                                           *)
LEMMA Answered ==
  ASSUME TypeInv, NEW p \in Packets, PacketInv(p), NEW ch \in Channels, Waits(ch, p)
  PROVE  /\ module[p] # None
         /\ hardware # "mixed" => ChannelEnc[ch] # Source(p)
         /\ hardware = "mixed" /\ module[p] = "first" =>
              ch = 1 /\ ChannelEnc[ch] = "dmrsf"
         /\ hardware = "mixed" /\ module[p] = "second" =>
              /\ ch \in {0, 2}
              /\ ChannelEnc[ch] = (IF ch = 0 THEN "dstar" ELSE "dmrsf")
              /\ ChannelEnc[ch] = Source(p) =>
                   ~ decoded[p] /\ todo[p] = <<>> /\ asked[p] = {Source(p)}
<1>1. ch \in FedTo(p) /\ ch # Unmapped
  BY DV3003Assumption DEF Waits, Channels
<1>2. module[p] # None
  BY <1>1, NotArrived DEF PacketInv
<1>3. Source(p) \in {None, "dstar", "dmrsf"}
  BY <1>2, ArrivedTypes DEF PacketInv, Encodings
<1>4. hardware # "mixed" => ChannelEnc[ch] # Source(p)
  <2>1. ASSUME hardware \in Encodings
        PROVE  /\ ChannelEnc[ch] = hardware
               /\ Source(p) = hardware => FedTo(p) \subseteq {Unmapped}
    BY <1>2, <2>1, EncOfChannel DEF PacketInv, OneEncInv
  <2>2. ASSUME hardware = "onemodule" PROVE ChannelEnc[ch] # Source(p)
    BY <1>1, <1>2, <2>2, EncOfChannel DEF PacketInv, LoneInv
  <2>3. hardware \in {"mixed", "onemodule"} \cup Encodings
    BY DEF TypeInv, Encodings
  <2>4. QED BY <1>1, <2>1, <2>2, <2>3
<1>5. hardware = "mixed" /\ module[p] = "first" =>
        ch = 1 /\ ChannelEnc[ch] = "dmrsf"
  BY <1>1, EncOfChannel DEF PacketInv, FirstInv
<1>6. ASSUME hardware = "mixed", module[p] = "second"
      PROVE  /\ ch \in {0, 2}
             /\ ChannelEnc[ch] = (IF ch = 0 THEN "dstar" ELSE "dmrsf")
             /\ ChannelEnc[ch] = Source(p) =>
                  ~ decoded[p] /\ todo[p] = <<>> /\ asked[p] = {Source(p)}
  <2>1. SecondInv(p) /\ PlanInv(p)
    BY <1>6 DEF PacketInv, SecondInv
  <2>2. /\ ch \in {0, 2}
        /\ ChannelEnc[ch] = (IF ch = 0 THEN "dstar" ELSE "dmrsf")
    BY <1>1, <1>6, <2>1, EncOfChannel DEF SecondInv
  <2>3. ASSUME ChannelEnc[ch] = Source(p)
        PROVE  ~ decoded[p] /\ todo[p] = <<>> /\ asked[p] = {Source(p)}
    <3>1. ~ decoded[p]
      BY <1>6, <2>3 DEF Waits
    <3>2. asked[p] # {}
      <4>1. Len(fed[p]) \in Nat /\ Len(fed[p]) # 0
        BY <1>1, FedCount DEF PacketInv, LineInv
      <4>2. Line(p) \in Nat /\ Line(p) + Len(fed[p]) = Size(asked[p])
        BY LineType DEF PacketInv, LineInv
      <4>3. asked[p] = {} => Size(asked[p]) = 0
        BY DEF Size
      <4>4. QED BY <4>1, <4>2, <4>3
    <3>3. Source(p) \in {"dstar", "dmrsf"}
      BY <2>2, <2>3
    <3>4. None # "dstar" /\ None # "dmrsf"
      BY DV3003Assumption DEF Encodings
    <3>5. CASE Source(p) = "dstar"
      BY ONLY <2>1, <3>1, <3>2, <3>4, <3>5 DEF PlanInv
    <3>6. CASE Source(p) = "dmrsf"
      BY ONLY <2>1, <3>1, <3>2, <3>4, <3>6 DEF PlanInv
    <3>7. QED BY <3>3, <3>5, <3>6
  <2>4. QED BY <2>2, <2>3
<1>7. QED BY <1>2, <1>4, <1>5, <1>6

LEMMA ProcessKeeps ==
  ASSUME DV3003Inv, NEW ch \in Channels, ProcessPacket(ch)
  PROVE  DV3003Inv'
<1>1. PICK w, v, p, enc : /\ w = waiting[ch] /\ v = chip[ch] /\ p = Head(w)
                          /\ enc = ChannelEnc[ch]
  OBVIOUS
<1>2. /\ TypeInv /\ WaitingInv /\ \A q \in Packets : PacketInv(q) /\ LineInv(q)
      /\ v # <<>>
  BY <1>1 DEF DV3003Inv, PacketInv, ProcessPacket
<1>3. /\ w \in Seq(Packets) /\ v \in Seq({"encode", "decode"})
      /\ Len(w) = Len(v) /\ Distinct(w) /\ w # <<>>
      /\ \A r \in InLine(w) : Waits(ch, r)
  <2>1. /\ w \in Seq(Packets) /\ v \in Seq({"encode", "decode"})
        /\ Len(w) = Len(v) /\ Distinct(w)
        /\ \A r \in InLine(w) : Waits(ch, r)
    BY <1>1, <1>2 DEF TypeInv, WaitingInv
  <2>2. QED BY <1>2, <2>1
<1>4. /\ p \in Packets /\ p \in InLine(w) /\ Distinct(Tail(w))
      /\ Tail(w) \in Seq(Packets) /\ Tail(v) \in Seq({"encode", "decode"})
      /\ InLine(Tail(w)) \subseteq InLine(w) \ {p}
      /\ Len(Tail(w)) = Len(Tail(v))
  <2>1. Len(Tail(v)) = Len(v) - 1 /\ Tail(v) \in Seq({"encode", "decode"})
    BY <1>2, <1>3
  <2>2. QED BY <1>1, <1>3, <2>1, DistinctTail
<1>5. Waits(ch, p) /\ PacketInv(p)
  BY <1>2, <1>3, <1>4
<1>6. /\ module[p] # None
      /\ hardware # "mixed" => enc # Source(p)
      /\ hardware = "mixed" /\ module[p] = "first" => ch = 1 /\ enc = "dmrsf"
      /\ hardware = "mixed" /\ module[p] = "second" =>
           /\ ch \in {0, 2}
           /\ enc = (IF ch = 0 THEN "dstar" ELSE "dmrsf")
           /\ enc = Source(p) =>
                ~ decoded[p] /\ todo[p] = <<>> /\ asked[p] = {Source(p)}
  BY <1>1, <1>2, <1>4, <1>5, Answered
<1>7. /\ module[p] \in Modules /\ codecIn[p] \in CodecsIn
      /\ Source(p) \in {None, "dstar", "dmrsf"} /\ None # "dstar" /\ None # "dmrsf"
      /\ hardware \in {"mixed", "onemodule", "dstar", "dmrsf"}
  BY <1>2, <1>4, <1>6, ArrivedTypes DEF Encodings
<1>8. enc \in Encodings /\ enc # None
  BY <1>1, <1>7, EncOfChannel DEF Channels, Encodings
<1>9. PICK r : r = RouteRequests(module[p], codecIn[p])
  OBVIOUS
<1>10. /\ UNCHANGED <<hardware, module, codecIn>>
       /\ UNCHANGED <<adding, target, inputQueue, feeding, asked, fed>>
       /\ waiting' = [waiting EXCEPT ![ch] = Tail(w)]
       /\ chip' = [chip EXCEPT ![ch] = Tail(v)]
       /\ \/ isSet' = isSet
          \/ isSet' = [isSet EXCEPT ![p] = @ \cup {enc}]
       /\ \/ /\ enc = Source(p)
             /\ decoded' = [decoded EXCEPT ![p] = TRUE]
             /\ todo' = [todo EXCEPT ![p] = @ \o r]
          \/ enc # Source(p) /\ UNCHANGED <<decoded, todo>>
  BY <1>1, <1>9 DEF ProcessPacket, packetVars, Source
<1>11. /\ \A q \in Packets : Line(q)' = Line(q) /\ FedTo(q)' = FedTo(q)
                             /\ Source(q)' = Source(q)
       /\ Line(p)' = Line(p) /\ FedTo(p)' = FedTo(p) /\ Source(p)' = Source(p)
       /\ ChannelEnc' = ChannelEnc
  BY <1>10 DEF Line, FedTo, Source, ChannelEnc
<1>12. ASSUME NEW q \in Packets \ {p} PROVE PacketInv(q)'
  <2>1. UNCHANGED <<module[q], codecIn[q], isSet[q], decoded[q], todo[q],
                    adding[q], target[q], asked[q], fed[q]>>
    BY <1>2, <1>10 DEF TypeInv
  <2>2. QED BY <1>2, <1>10, <1>11, <2>1, Untouched
<1>13. isSet'[p] = isSet[p] \/ isSet'[p] = isSet[p] \cup {enc}
  BY <1>2, <1>4, <1>10 DEF TypeInv
<1>14. /\ enc = Source(p) =>
            /\ hardware = "mixed"
            /\ module[p] = "first" => r = <<>>
            /\ module[p] = "second" => r = IF enc = "dstar" THEN <<2>> ELSE <<0>>
  <2>1. ASSUME enc = Source(p)
        PROVE  /\ hardware = "mixed"
               /\ module[p] = "first" => r = <<>>
               /\ module[p] = "second" => r = IF enc = "dstar" THEN <<2>> ELSE <<0>>
    <3>1. hardware = "mixed" /\ SourceEnc(codecIn[p]) # None
      BY <1>6, <1>7, <1>8, <2>1 DEF Source
    <3>2. QED BY <1>6, <1>7, <1>9, <2>1, <3>1, RouteRequestsIs DEF Source
  <2>2. QED BY <2>1
<1>15. enc = Source(p) =>
         /\ decoded'[p] = TRUE
         /\ module[p] = "first" => todo'[p] = todo[p]
         /\ module[p] = "second" => todo'[p] = r
         /\ todo'[p] \in Seq(Channels \cup {None})
  <2>1. ASSUME enc = Source(p)
        PROVE  decoded'[p] = TRUE /\ todo'[p] = todo[p] \o r
    BY <1>2, <1>4, <1>10, <2>1 DEF TypeInv
  <2>3. ASSUME enc = Source(p), module[p] = "first"
        PROVE  todo'[p] = todo[p] /\ todo'[p] \in Seq(Channels \cup {None})
    <3>1. todo[p] \in Seq(Channels \cup {None})
      BY <1>2, <1>4 DEF TypeInv
    <3>2. todo[p] \o <<>> = todo[p]
      BY <3>1, ConcatEmptySeq
    <3>3. QED BY <1>14, <2>1, <2>3, <3>1, <3>2
  <2>4. ASSUME enc = Source(p), module[p] = "second"
        PROVE  todo'[p] = r /\ todo'[p] \in Seq(Channels \cup {None})
    <3>1. todo[p] = <<>> /\ r \in {<<0>>, <<2>>}
      BY <1>6, <1>14, <2>4
    <3>2. todo[p] \o r = r
      BY <3>1, Pairs
    <3>3. r \in Seq(Channels \cup {None})
      BY <3>1, RequestTypes
    <3>4. QED BY <2>1, <2>4, <3>2, <3>3
  <2>5. QED BY <1>7, <2>1, <2>3, <2>4 DEF Modules
<1>16. enc # Source(p) => decoded' = decoded /\ todo' = todo
  BY <1>10
<1>17. TypeInv'
  <2>1. waiting' \in [Channels -> Seq(Packets)]
    BY <1>2, <1>4, <1>10 DEF TypeInv
  <2>2. chip' \in [Channels -> Seq({"encode", "decode"})]
    BY <1>2, <1>4, <1>10 DEF TypeInv
  <2>3. isSet' \in [Packets -> SUBSET Encodings]
    <3>1. isSet \in [Packets -> SUBSET Encodings]
      BY <1>2 DEF TypeInv
    <3>2. isSet[p] \cup {enc} \in SUBSET Encodings
      BY <1>4, <1>8, <3>1
    <3>3. CASE isSet' = [isSet EXCEPT ![p] = @ \cup {enc}]
      BY <1>4, <3>1, <3>2, <3>3
    <3>4. QED BY <1>10, <3>1, <3>3
  <2>4. decoded' \in [Packets -> BOOLEAN]
    BY <1>2, <1>10 DEF TypeInv
  <2>5. todo' \in [Packets -> Seq(Channels \cup {None})]
    <3>1. CASE enc = Source(p)
      <4>1. todo' = [todo EXCEPT ![p] = todo[p] \o r]
        BY <1>10, <3>1
      <4>2. todo'[p] = todo[p] \o r
        BY <1>2, <1>4, <4>1 DEF TypeInv
      <4>3. todo[p] \o r \in Seq(Channels \cup {None})
        BY <1>15, <3>1, <4>2
      <4>4. QED BY <1>2, <4>1, <4>3 DEF TypeInv
    <3>2. QED BY <1>2, <1>16, <3>1 DEF TypeInv
  <2>6. QED BY <1>2, <1>10, <2>1, <2>2, <2>3, <2>4, <2>5 DEF TypeInv
<1>18. LineInv(p)'
  <2>1. todo[p] # <<>> => todo'[p] # <<>>
    BY <1>6, <1>7, <1>15, <1>16 DEF Modules
  <2>2. QED BY <1>2, <1>4, <1>6, <1>10, <1>11, <2>1 DEF LineInv
<1>19. ASSUME hardware # "mixed"
       PROVE  /\ SingleInv(p)'
              /\ hardware \in Encodings => OneEncInv(p)'
              /\ hardware = "onemodule" => LoneInv(p)'
  <2>1. SingleInv(p) /\ decoded' = decoded /\ todo' = todo
    BY <1>2, <1>4, <1>6, <1>16, <1>19 DEF PacketInv
  <2>2. ch \in FedTo(p) /\ fed[p] # <<>> /\ ch # Unmapped
    BY <1>5, DV3003Assumption DEF Waits, FedTo, Channels
  <2>3. isSet[p] \subseteq isSet'[p]
    BY <1>13
  <2>4. SingleInv(p)'
    BY <1>10, <1>11, <2>1, <2>3 DEF SingleInv, DeviceEnc
  <2>5. ASSUME hardware \in Encodings PROVE OneEncInv(p)'
    <3>1. OneEncInv(p) /\ Source(p) # hardware
      BY <1>2, <1>4, <1>6, <2>2, <2>5 DEF PacketInv, OneEncInv
    <3>2. QED BY <1>10, <1>11, <2>2, <2>3, <3>1 DEF OneEncInv
  <2>6. ASSUME hardware = "onemodule" PROVE LoneInv(p)'
    <3>1. LoneInv(p)
      BY <1>2, <1>4, <1>6, <2>6 DEF PacketInv
    <3>2. QED BY <1>10, <1>11, <2>2, <3>1 DEF LoneInv
  <2>7. QED BY <2>4, <2>5, <2>6
<1>20. ASSUME hardware = "mixed", module[p] = "first" PROVE FirstInv(p)'
  <2>1. FirstInv(p) /\ enc = "dmrsf"
    BY <1>2, <1>4, <1>6, <1>20 DEF PacketInv
  <2>2. todo'[p] = todo[p] /\ (Source(p) = "dstar" => decoded' = decoded)
    BY <1>15, <1>16, <1>20, <2>1
  <2>3. QED BY <1>10, <1>11, <2>1, <2>2 DEF FirstInv
<1>21. ASSUME hardware = "mixed", module[p] = "second" PROVE SecondInv(p)'
  <2>1. /\ SecondInv(p) /\ PlanInv(p) /\ TargetInv(p) /\ ch \in FedTo(p)
        /\ ch \in {0, 2} /\ enc = (IF ch = 0 THEN "dstar" ELSE "dmrsf")
    BY <1>2, <1>4, <1>5, <1>6, <1>21 DEF PacketInv, SecondInv, Waits
  <2>2. Ordered(p)' = Ordered(p)
    <3>1. CASE enc # Source(p)
      BY <1>10, <1>16, <3>1 DEF Ordered, Wanted, ChannelEnc, DeviceEnc
    <3>2. CASE enc = Source(p)
      <4>1. ~ adding[p]
        BY <1>2, <1>4, <1>6, <1>21, <3>2 DEF LineInv
      <4>2. QED BY <1>10, <4>1 DEF Ordered
    <3>3. QED BY <3>1, <3>2
  <2>3. PlanInv(p)'
    <3>1. CASE enc # Source(p)
      BY <1>10, <1>11, <1>16, <2>1, <3>1 DEF PlanInv
    <3>2. CASE enc = Source(p)
      <4>1. /\ asked'[p] = {enc} /\ decoded'[p] = TRUE /\ Source(p)' = enc
            /\ todo'[p] = IF enc = "dstar" THEN <<2>> ELSE <<0>>
        BY <1>6, <1>10, <1>11, <1>14, <1>15, <1>21, <3>2
      <4>2. enc \in {"dstar", "dmrsf"}
        BY <2>1
      <4>3. CASE enc = "dstar"
        BY <1>7, <4>1, <4>3 DEF PlanInv
      <4>4. CASE enc = "dmrsf"
        BY <1>7, <4>1, <4>4 DEF PlanInv
      <4>5. QED BY <4>2, <4>3, <4>4
    <3>3. QED BY <3>1, <3>2
  <2>4. TargetInv(p)'
    BY <1>10, <1>11, <2>1, <2>2 DEF TargetInv
  <2>5. /\ Source(p) = "dstar" => ~ decoded'[p] \/ 0 \in FedTo(p)
        /\ Source(p) = "dmrsf" => ~ decoded'[p] \/ 2 \in FedTo(p)
    BY <1>16, <2>1 DEF SecondInv
  <2>6. "dstar" \in isSet'[p] => Source(p) = "dstar" \/ 0 \in FedTo(p)
    BY <1>13, <2>1 DEF SecondInv
  <2>7. QED BY <1>11, <2>1, <2>2, <2>3, <2>4, <2>5, <2>6 DEF SecondInv
<1>22. PacketInv(p)'
  BY <1>10, <1>18, <1>19, <1>20, <1>21 DEF PacketInv, Encodings
<1>23. WaitingInv'
  <2>1. \A c \in Channels, q \in Packets : q # p /\ Waits(c, q) => Waits(c, q)'
    <3>1. \A q \in Packets : q # p => decoded'[q] = decoded[q]
      BY <1>2, <1>10 DEF TypeInv
    <3>2. QED BY <1>10, <1>11, <3>1 DEF Waits
  <2>2. \A c \in Channels : c # ch /\ Waits(c, p) => Waits(c, p)'
    <3>1. SUFFICES ASSUME NEW c \in Channels, c # ch, Waits(c, p)
                   PROVE  Waits(c, p)'
      OBVIOUS
    <3>2. CASE enc # Source(p)
      BY <1>10, <1>11, <1>16, <3>1, <3>2 DEF Waits
    <3>3. CASE enc = Source(p) /\ module[p] # "second"
      BY <1>10, <1>11, <3>1, <3>3 DEF Waits
    <3>4. CASE enc = Source(p) /\ module[p] = "second"
      <4>1. ChannelEnc[c] # enc
        <5>1. hardware = "mixed"
          BY <1>14, <3>4
        <5>2. /\ c \in {0, 2}
              /\ ChannelEnc[c] = (IF c = 0 THEN "dstar" ELSE "dmrsf")
          BY <1>2, <1>4, <3>1, <3>4, <5>1, Answered
        <5>3. QED BY <1>6, <3>1, <3>4, <5>1, <5>2
      <4>2. QED BY <1>10, <1>11, <3>1, <3>4, <4>1 DEF Waits
    <3>5. QED BY <3>2, <3>3, <3>4
  <2>3. ASSUME NEW c \in Channels
        PROVE  /\ Len(waiting'[c]) = Len(chip'[c]) /\ Distinct(waiting'[c])
               /\ \A q \in InLine(waiting'[c]) : Waits(c, q)'
    <3>1. CASE c = ch
      <4>1. waiting'[c] = Tail(w) /\ chip'[c] = Tail(v)
        BY <1>2, <1>10, <3>1 DEF TypeInv
      <4>2. \A q \in InLine(Tail(w)) : q \in Packets /\ q # p /\ Waits(c, q)
        BY <1>3, <1>4, <3>1 DEF InLine
      <4>3. QED BY <1>4, <2>1, <4>1, <4>2
    <3>2. CASE c # ch
      <4>1. waiting'[c] = waiting[c] /\ chip'[c] = chip[c]
        BY <1>2, <1>10, <3>2 DEF TypeInv
      <4>2. /\ Len(waiting[c]) = Len(chip[c]) /\ Distinct(waiting[c])
            /\ \A q \in InLine(waiting[c]) : q \in Packets /\ Waits(c, q)
        BY <1>2 DEF WaitingInv, TypeInv, InLine
      <4>3. QED BY <2>1, <2>2, <3>2, <4>1, <4>2
    <3>3. QED BY <3>1, <3>2
  <2>4. QED BY <2>3 DEF WaitingInv
<1>24. QED BY <1>12, <1>17, <1>22, <1>23 DEF DV3003Inv

-----------------------------------------------------------------------------
LEMMA SoundStep == DV3003Inv /\ [Next]_vars => DV3003Inv'
<1> SUFFICES ASSUME DV3003Inv, [Next]_vars PROVE DV3003Inv'
  OBVIOUS
<1>1. ASSUME NEW p \in Packets, NEW m \in Modules, NEW c \in CodecsIn,
             Arrive(p, m, c)
      PROVE  DV3003Inv'
  BY <1>1, ArriveKeeps
<1>2. ASSUME NEW p \in Packets, OtherDevice(p) PROVE DV3003Inv'
  BY <1>2, OtherKeeps
<1>3. ASSUME NEW p \in Packets, SetTarget(p) PROVE DV3003Inv'
  BY <1>3, SetTargetKeeps
<1>4. ASSUME NEW p \in Packets, AddPacket(p) PROVE DV3003Inv'
  BY <1>4, AddKeeps
<1>5. CASE FeedPop
  BY <1>5, PopKeeps
<1>6. CASE FeedChannel
  BY <1>6, FeedKeeps
<1>7. ASSUME NEW ch \in Channels, ProcessPacket(ch) PROVE DV3003Inv'
  BY <1>7, ProcessKeeps
<1>8. CASE UNCHANGED vars
  <2>1. /\ UNCHANGED <<hardware, module, codecIn>>
        /\ UNCHANGED <<isSet, decoded, todo, adding, target, inputQueue,
                       feeding, waiting, chip, asked, fed>>
    BY <1>8 DEF vars, packetVars
  <2>2. TypeInv /\ WaitingInv /\ \A p \in Packets : PacketInv(p)
    BY DEF DV3003Inv
  <2>3. \A p \in Packets : Line(p)' = Line(p) /\ Source(p)' = Source(p)
    BY <2>1 DEF Line, Source
  <2>4. TypeInv'
    BY <2>1, <2>2 DEF TypeInv
  <2>5. WaitingInv'
    BY <2>1, <2>2, <2>3, WaitingStays
  <2>6. \A p \in Packets : PacketInv(p)'
    BY <2>1, <2>2, <2>3, Untouched
  <2>7. QED BY <2>4, <2>5, <2>6 DEF DV3003Inv
<1>9. QED BY <1>1, <1>2, <1>3, <1>4, <1>5, <1>6, <1>7, <1>8 DEF Next

LEMMA Sound == Spec => []DV3003Inv
<1>1. QED BY SoundInit, SoundStep, PTL DEF Spec

(* What the invariant says of a packet in each of the set-ups. *)
LEMMA InSetUp ==
  ASSUME DV3003Inv, NEW p \in Packets
  PROVE  /\ TypeInv /\ LineInv(p)
         /\ \/ module[p] = None
            \/ hardware \in {"dstar", "dmrsf"} /\ SingleInv(p) /\ OneEncInv(p)
            \/ hardware = "onemodule" /\ SingleInv(p) /\ LoneInv(p)
            \/ module[p] = "first" /\ hardware = "mixed" /\ FirstInv(p)
            \/ module[p] = "second" /\ hardware = "mixed" /\ SecondInv(p)
<1>1. TypeInv /\ PacketInv(p)
  BY DEF DV3003Inv
<1>2. /\ module[p] \in {"first", "second"} \cup {None}
      /\ hardware \in {"mixed", "onemodule", "dstar", "dmrsf"}
  BY <1>1 DEF TypeInv, Modules
<1>3. QED BY <1>1, <1>2 DEF PacketInv, Encodings

LEMMA OnceEach == DV3003Inv => FedOncePerChannel
<1> SUFFICES ASSUME DV3003Inv, NEW p \in Packets
             PROVE  /\ \A i, j \in DOMAIN fed[p] : fed[p][i] = fed[p][j] => i = j
                    /\ MixedMode => \A ch \in FedTo(p) :
                                      Request(module[p], ChannelEnc[ch]) = <<ch>>
  BY DEF FedOncePerChannel
<1>1. TypeInv /\ LineInv(p)
  BY InSetUp
<1>2. Distinct(fed[p])
  BY <1>1 DEF LineInv
<1>3. ASSUME MixedMode, NEW ch \in FedTo(p)
      PROVE  Request(module[p], ChannelEnc[ch]) = <<ch>>
  <2>1. hardware = "mixed"
    BY <1>3 DEF MixedMode
  <2>2. \/ module[p] = "first" /\ ch = 1
        \/ module[p] = "second" /\ ch \in {0, 2}
    BY <1>1, <1>3, <2>1, InSetUp, NotArrived DEF FirstInv, SecondInv
  <2>3. ChannelEnc[ch] = IF ch = 0 THEN "dstar" ELSE "dmrsf"
    BY <2>1, <2>2, EncOfChannel
  <2>4. QED BY <2>1, <2>2, <2>3, RequestIs DEF Modules, Encodings
<1>4. QED BY <1>2, <1>3 DEF Distinct

LEMMA QuietServed == DV3003Inv => ServedInMixedMode
<1> SUFFICES ASSUME DV3003Inv, Quiet, NEW p \in Packets
             PROVE  target[p] = None /\ (MixedMode => Served(p))
  BY DEF ServedInMixedMode
<1>1. TypeInv /\ LineInv(p)
  BY InSetUp
<1>2. /\ todo[p] = <<>> /\ ~ adding[p] /\ Distinct(fed[p])
      /\ Ordered(p) = asked[p] /\ asked[p] \in SUBSET Encodings
  BY <1>1 DEF Quiet, LineInv, TypeInv, Ordered
<1>3. Line(p) = 0 /\ Len(fed[p]) = Size(asked[p])
  <2>1. feeding # p
    BY DV3003Assumption DEF Quiet
  <2>2. Line(p) = 0
    BY <1>1, <2>1, LineType DEF Quiet
  <2>3. Len(fed[p]) \in Nat
    BY <1>1, <1>2, FedCount
  <2>4. QED BY <1>1, <2>2, <2>3 DEF LineInv
<1>4. /\ asked[p] = {} <=> FedTo(p) = {}
      /\ \A x : FedTo(p) \subseteq {x} => Size(asked[p]) <= 1
  BY <1>1, <1>2, <1>3, FedCount, SizeIs
<1>5. CASE module[p] = None
  BY <1>1, <1>5, NotArrived DEF Served, EncodingsFed
<1>6. CASE hardware # "mixed" /\ SingleInv(p)
  BY <1>6 DEF SingleInv, MixedMode
<1>7. CASE module[p] = "first" /\ hardware = "mixed" /\ FirstInv(p)
  <2>1. /\ target[p] = None /\ asked[p] \subseteq {"dmrsf"}
        /\ FedTo(p) \subseteq {1} /\ ChannelEnc[1] = "dmrsf"
    BY <1>2, <1>3, <1>7, EncOfChannel DEF FirstInv
  <2>2. FedTo(p) = {} \/ FedTo(p) = {1}
    BY <2>1
  <2>3. EncodingsFed(p) = asked[p] /\ Unmapped \notin FedTo(p)
    BY <1>4, <2>1, <2>2, DV3003Assumption DEF EncodingsFed, Channels
  <2>4. QED BY <2>1, <2>3 DEF Served
<1>8. CASE module[p] = "second" /\ hardware = "mixed" /\ SecondInv(p)
  <2>1. /\ FedTo(p) \subseteq {0, 2} /\ TargetInv(p)
        /\ 0 \in FedTo(p) => "dstar" \in asked[p]
        /\ 2 \in FedTo(p) => "dmrsf" \in asked[p]
        /\ ChannelEnc[0] = "dstar" /\ ChannelEnc[2] = "dmrsf"
    BY <1>2, <1>8, EncOfChannel DEF SecondInv
  <2>2. asked[p] \subseteq {"dstar", "dmrsf"}
    BY <1>2 DEF Encodings
  <2>3. "dstar" \in asked[p] => 0 \in FedTo(p)
    <3>1. SUFFICES ASSUME "dstar" \in asked[p], 0 \notin FedTo(p) PROVE FALSE
      OBVIOUS
    <3>2. FedTo(p) \subseteq {2}
      BY <2>1, <3>1
    <3>3. "dmrsf" \notin asked[p]
      BY <1>4, <3>1, <3>2 DEF Size
    <3>4. FedTo(p) = {}
      BY <2>1, <3>2, <3>3
    <3>5. QED BY <1>4, <3>1, <3>4
  <2>4. "dmrsf" \in asked[p] => 2 \in FedTo(p)
    <3>1. SUFFICES ASSUME "dmrsf" \in asked[p], 2 \notin FedTo(p) PROVE FALSE
      OBVIOUS
    <3>2. FedTo(p) \subseteq {0}
      BY <2>1, <3>1
    <3>3. "dstar" \notin asked[p]
      BY <1>4, <3>1, <3>2 DEF Size
    <3>4. FedTo(p) = {}
      BY <2>1, <3>2, <3>3
    <3>5. QED BY <1>4, <3>1, <3>4
  <2>5. target[p] = None
    BY <1>2, <2>1, <2>3, <2>4 DEF TargetInv
  <2>6. EncodingsFed(p) = asked[p]
    <3>1. FedTo(p) \cap Channels = FedTo(p)
      BY <2>1 DEF Channels
    <3>2. QED BY <2>1, <2>2, <2>3, <2>4, <3>1 DEF EncodingsFed
  <2>7. Unmapped \notin FedTo(p)
    BY <2>1, DV3003Assumption
  <2>8. QED BY <2>5, <2>6, <2>7 DEF Served
<1>9. QED BY <1>5, <1>6, <1>7, <1>8, InSetUp

LEMMA LostAre == DV3003Inv => WhoIsLost
<1> SUFFICES ASSUME DV3003Inv, NEW p \in Packets
             PROVE  /\ hardware = "mixed" => Unmapped \notin FedTo(p)
                    /\ hardware = "dstar" /\ fed[p] # <<>> =>
                         (Unmapped \in FedTo(p) <=> codecIn[p] = "dstar")
                    /\ hardware = "dmrsf" /\ fed[p] # <<>> =>
                         /\ codecIn[p] = "dmr" => Unmapped \in FedTo(p)
                         /\ codecIn[p] = "dstar" => Unmapped \notin FedTo(p)
                    /\ hardware = "onemodule" =>
                         /\ Unmapped \notin FedTo(p)
                         /\ codecIn[p] = "dmr" =>
                              ~ decoded[p] /\ FedTo(p) \subseteq {0}
  BY DEF WhoIsLost, MixedMode
<1>1. TypeInv /\ LineInv(p) /\ Distinct(fed[p])
  BY InSetUp DEF LineInv
<1>2. /\ fed[p] = <<>> <=> FedTo(p) = {}
      /\ Unmapped \notin {0, 1, 2}
  BY <1>1, FedCount, DV3003Assumption
<1>3. CASE module[p] = None
  <2>1. codecIn[p] # "dmr"
    BY <1>1, <1>3, DV3003Assumption DEF LineInv, Codecs
  <2>2. QED BY <1>1, <1>2, <1>3, <2>1, NotArrived
<1>4. CASE hardware \in {"dstar", "dmrsf"} /\ SingleInv(p) /\ OneEncInv(p)
  <2>1. /\ codecIn[p] = "dstar" <=> Source(p) = "dstar"
        /\ codecIn[p] = "dmr" => Source(p) = "dmrsf"
    BY DV3003Assumption DEF Source, SourceEnc, Encodings
  <2>2. CASE hardware = "dstar"
    BY <1>2, <1>4, <2>1, <2>2 DEF OneEncInv
  <2>3. CASE hardware = "dmrsf"
    BY <1>2, <1>4, <2>1, <2>3 DEF OneEncInv
  <2>4. QED BY <1>4, <2>2, <2>3
<1>5. CASE module[p] = "first" /\ hardware = "mixed" /\ FirstInv(p)
  BY <1>2, <1>5 DEF FirstInv
<1>6. CASE module[p] = "second" /\ hardware = "mixed" /\ SecondInv(p)
  BY <1>2, <1>6 DEF SecondInv
<1>7. CASE hardware = "onemodule" /\ SingleInv(p) /\ LoneInv(p)
  <2>1. codecIn[p] = "dmr" => Source(p) = "dmrsf"
    BY DEF Source, SourceEnc
  <2>2. DeviceEnc = "dmrsf"
    BY <1>7 DEF DeviceEnc
  <2>3. QED BY <1>2, <1>7, <2>1, <2>2 DEF SingleInv, LoneInv
<1>8. QED BY <1>3, <1>4, <1>5, <1>6, <1>7, InSetUp

-----------------------------------------------------------------------------
(* FeedDevice never feeds a packet twice to a channel, nor to a channel of *)
(* the other module: the one noted target serves two requests.             *)
THEOREM FedOnce == Spec => []FedOncePerChannel
<1>1. QED BY Sound, OnceEach, PTL

(* With two modules in mixed mode, when nothing is under way, each encoding *)
(* the controller asked for with AddPacket and AddPacketToChannel has been *)
(* served by a channel of it; and in every set-up no target is left over   *)
(* in target_channel.                                                      *)
THEOREM InMixedMode == Spec => []ServedInMixedMode
<1>1. QED BY Sound, QuietServed, PTL

(* For which packets MapPacketToChannel finds no channel: in mixed mode and *)
(* beside a DV3000 for none; on a D-Star device for all that came in as    *)
(* D-Star and no others; on a DMR device for all that came in as DMR.      *)
(* Beside a DV3000 with one module no DMR packet is ever decoded.          *)
THEOREM Lost == Spec => []WhoIsLost
<1>1. QED BY Sound, LostAre, PTL
================================================================================
