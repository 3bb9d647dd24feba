-------------------------- MODULE DVSIDevice_proofs --------------------------
(***************************************************************************)
(* The device and its chip, for any number of packets and faults, any      *)
(* depth of the chip and any word that holds it.                           *)
(***************************************************************************)
EXTENDS DVSIDevice, SequenceTheorems, TLAPS

-----------------------------------------------------------------------------
(* Sequences and the wrapping count.                                       *)

LEMMA Behead ==
  ASSUME NEW S, NEW s \in Seq(S), s # <<>>
  PROVE  /\ Head(s) \in S /\ Head(s) = s[1] /\ 1 \in DOMAIN s
         /\ Tail(s) \in Seq(S) /\ Len(s) \in Nat /\ Len(s) >= 1
         /\ Len(Tail(s)) = Len(s) - 1
         /\ DOMAIN s = 1..Len(s) /\ DOMAIN Tail(s) = 1..(Len(s) - 1)
         /\ \A i \in DOMAIN Tail(s) : i + 1 \in DOMAIN s /\ Tail(s)[i] = s[i + 1]
<1>1. Len(s) \in Nat /\ Len(s) >= 1
  BY EmptySeq
<1>2. QED BY <1>1

LEMMA Extend ==
  ASSUME NEW S, NEW s \in Seq(S), NEW e \in S
  PROVE  /\ Append(s, e) \in Seq(S) /\ Append(s, e) # <<>>
         /\ Len(s) \in Nat /\ Len(Append(s, e)) = Len(s) + 1
         /\ DOMAIN s = 1..Len(s) /\ DOMAIN Append(s, e) = 1..(Len(s) + 1)
         /\ \A i \in DOMAIN s : Append(s, e)[i] = s[i]
         /\ Append(s, e)[Len(s) + 1] = e
OBVIOUS

(* buffer_depth++ and buffer_depth--. *)
LEMMA Wrap ==
  ASSUME NEW d \in 0..(Word - 1)
  PROVE  /\ Plus1(d) = IF d = Word - 1 THEN 0 ELSE d + 1
         /\ Minus1(d) = IF d = 0 THEN Word - 1 ELSE d - 1
         /\ Plus1(d) \in 0..(Word - 1) /\ Minus1(d) \in 0..(Word - 1)
<1>1. Word \in Nat \ {0} /\ Word > 1
  BY DVSIDeviceAssumption
<1>2. \A x \in 0..(Word - 1) : x % Word = x
  BY <1>1
<1>3. Word % Word = 0
  BY <1>1
<1>4. \A x \in 0..(Word - 1) : (x + Word) % Word = x
  BY <1>1
<1>5. Plus1(d) = IF d = Word - 1 THEN 0 ELSE d + 1
  BY <1>1, <1>2, <1>3 DEF Plus1
<1>6. Minus1(d) = IF d = 0 THEN Word - 1 ELSE d - 1
  BY <1>1, <1>2, <1>4 DEF Minus1
<1>7. QED BY <1>1, <1>5, <1>6

-----------------------------------------------------------------------------
(* The types, and what each thread holds where it is.                      *)

LEMMA TypeInit == Init => TypeOK /\ AtInv
BY DVSIDeviceAssumption DEF Init, TypeOK, AtInv

LEMMA TypeStep == TypeOK /\ AtInv /\ [Next]_vars => (TypeOK /\ AtInv)'
<1> SUFFICES ASSUME TypeOK, AtInv, [Next]_vars PROVE TypeOK' /\ AtInv'
  OBVIOUS
<1> USE DVSIDeviceAssumption DEF faultVars
<1>0. CASE UNCHANGED vars
  BY <1>0 DEF vars, TypeOK, AtInv, feederVars, readerVars
<1>1. CASE AddPacket /\ UNCHANGED faultless
  BY <1>1 DEF AddPacket, TypeOK, AtInv, feederVars, readerVars, Packets
<1>2. CASE FeedStep /\ UNCHANGED faultless
  <2>1. CASE FeedPop
    BY <1>2, <2>1, Behead DEF FeedPop, TypeOK, AtInv, readerVars
  <2>2. CASE FeedRoom
    BY <1>2, <2>2 DEF FeedRoom, TypeOK, AtInv, readerVars
  <2>3. CASE FeedPush
    BY <1>2, <2>3 DEF FeedPush, TypeOK, AtInv, readerVars
  <2>4. CASE FeedSend
    <3>1. feeding \in Packets /\ UNCHANGED <<feeding, answer, reading, reader>>
      BY <2>4 DEF FeedSend, AtInv, readerVars
    <3>2. chip' \in Seq(Packets)
      <4>1. chip \in Seq(Packets) /\ Append(chip, feeding) \in Seq(Packets)
        BY <3>1, Extend DEF TypeOK
      <4>2. QED BY <2>4, <4>1 DEF FeedSend
    <3>3. failed' \in 0..MaxFailed
      BY <2>4 DEF FeedSend, TypeOK
    <3>4. QED BY <1>2, <2>4, <3>1, <3>2, <3>3 DEF FeedSend, TypeOK, AtInv, readerVars
  <2>5. CASE FeedCount
    BY <1>2, <2>5, Wrap DEF FeedCount, TypeOK, AtInv, readerVars
  <2>6. QED BY <1>2, <2>1, <2>2, <2>3, <2>4, <2>5 DEF FeedStep
<1>3. CASE ReadStep /\ UNCHANGED faultless
  <2>1. CASE ReadNothing
    BY <1>3, <2>1 DEF ReadNothing, TypeOK, AtInv, feederVars
  <2>2. CASE ReadReset
    BY <1>3, <2>2 DEF ReadReset, TypeOK, AtInv, feederVars
  <2>3. CASE ReadAnswer
    BY <1>3, <2>3, Behead DEF ReadAnswer, TypeOK, AtInv, feederVars
  <2>4. CASE ProcessPop
    BY <1>3, <2>4, Behead DEF ProcessPop, TypeOK, AtInv, feederVars
  <2>5. CASE ProcessAnswer
    BY <1>3, <2>5, Wrap
       DEF ProcessAnswer, ReaderBack, TypeOK, AtInv, Answers, feederVars
  <2>6. CASE ProcessNoise
    BY <1>3, <2>6 DEF ProcessNoise, ReaderBack, TypeOK, AtInv, feederVars
  <2>7. QED BY <1>3, <2>1, <2>2, <2>3, <2>4, <2>5, <2>6 DEF ReadStep
<1>4. CASE ChipAnswer /\ UNCHANGED faultless
  BY <1>4, Behead DEF ChipAnswer, TypeOK, AtInv, Answers, feederVars, readerVars
<1>5. CASE ChipLoses /\ UNCHANGED faultless
  BY <1>5, Behead DEF ChipLoses, TypeOK, AtInv, feederVars, readerVars
<1>6. CASE ChipNoise /\ UNCHANGED faultless
  BY <1>6 DEF ChipNoise, TypeOK, AtInv, Answers, feederVars, readerVars
<1>7. QED BY <1>0, <1>1, <1>2, <1>3, <1>4, <1>5, <1>6 DEF Next

-----------------------------------------------------------------------------
(* The packets on their way in.                                            *)

LEMMA QueueInit == Init => QueueInv
BY DEF Init, QueueInv, Popped, Fed

LEMMA QueueStep ==
  TypeOK /\ AtInv /\ QueueInv /\ [Next]_vars => QueueInv'
<1> SUFFICES ASSUME TypeOK, AtInv, QueueInv, [Next]_vars PROVE QueueInv'
  OBVIOUS
<1> USE DEF Fed, Popped
<1>1. /\ inputQueue \in Seq(Packets) /\ Len(inputQueue) \in Nat
      /\ waiting \in Seq(Packets) /\ Len(waiting) \in Nat
      /\ added \in Nat /\ added + 1 \in Nat
  BY LenProperties, DVSIDeviceAssumption DEF TypeOK
<1>2. CASE UNCHANGED <<added, inputQueue, feeder, feeding, waiting, reader, reading>>
  BY <1>2 DEF QueueInv
<1>3. CASE AddPacket
  <2>1. added + 1 \in Packets
    BY <1>3, <1>1, DVSIDeviceAssumption DEF AddPacket, Packets
  <2>2. /\ Len(inputQueue') = Len(inputQueue) + 1
        /\ DOMAIN inputQueue = 1..Len(inputQueue)
        /\ DOMAIN inputQueue' = 1..(Len(inputQueue) + 1)
        /\ \A i \in DOMAIN inputQueue : inputQueue'[i] = inputQueue[i]
        /\ inputQueue'[Len(inputQueue) + 1] = added + 1
    BY <1>1, <1>3, <2>1, Extend DEF AddPacket
  <2>3. /\ added' = added + 1
        /\ UNCHANGED <<feeder, feeding, waiting, reader, reading>>
    BY <1>3 DEF AddPacket, feederVars, readerVars
  <2>4. /\ added' - Len(inputQueue') = added - Len(inputQueue)
        /\ Fed' = Fed /\ Popped' = Popped
    BY <1>1, <2>2, <2>3
  <2>5. \A i \in DOMAIN inputQueue' :
          inputQueue'[i] = (added' - Len(inputQueue')) + i
    <3> SUFFICES ASSUME NEW i \in 1..(Len(inputQueue) + 1)
                 PROVE  inputQueue'[i] = (added - Len(inputQueue)) + i
      BY <2>2, <2>4
    <3>1. CASE i \in DOMAIN inputQueue
      BY <2>2, <3>1 DEF QueueInv
    <3>2. CASE i = Len(inputQueue) + 1
      BY <1>1, <2>2, <3>2
    <3>3. QED BY <1>1, <2>2, <3>1, <3>2
  <2> HIDE DEF Fed, Popped
  <2>6. QED BY <2>3, <2>4, <2>5 DEF QueueInv
<1>4. CASE FeedPop
  <2>1. inputQueue # <<>> /\ inputQueue' = Tail(inputQueue)
    BY <1>4 DEF FeedPop
  <2>2. /\ Head(inputQueue) = inputQueue[1] /\ 1 \in DOMAIN inputQueue
        /\ Len(inputQueue') = Len(inputQueue) - 1
        /\ \A i \in DOMAIN inputQueue' :
             /\ i \in Nat /\ i + 1 \in DOMAIN inputQueue
             /\ inputQueue'[i] = inputQueue[i + 1]
    BY <1>1, <2>1, Behead
  <2>3. /\ feeder = "pop" /\ feeder' = "room" /\ feeding' = Head(inputQueue)
        /\ UNCHANGED <<added, waiting, reader, reading>>
    BY <1>4 DEF FeedPop, readerVars
  <2>4. QED BY <1>1, <2>2, <2>3 DEF QueueInv
<1>5. CASE FeedRoom
  BY <1>1, <1>5 DEF FeedRoom, QueueInv, readerVars
<1>6. CASE FeedPush
  <2>1. /\ feeder = "push" /\ feeder' = "send"
        /\ waiting' = Append(waiting, feeding)
        /\ UNCHANGED <<added, inputQueue, feeding, reader, reading>>
    BY <1>6 DEF FeedPush, readerVars
  <2>2. feeding \in Packets
    BY <2>1 DEF AtInv
  <2>3. /\ Len(waiting') = Len(waiting) + 1
        /\ DOMAIN waiting = 1..Len(waiting)
        /\ DOMAIN waiting' = 1..(Len(waiting) + 1)
        /\ \A i \in DOMAIN waiting : waiting'[i] = waiting[i]
        /\ waiting'[Len(waiting) + 1] = feeding
    BY <1>1, <2>1, <2>2, Extend
  <2>4. QED BY <1>1, <2>1, <2>3 DEF QueueInv
<1>7. CASE FeedSend
  BY <1>1, <1>7 DEF FeedSend, QueueInv, readerVars
<1>8. CASE FeedCount
  BY <1>1, <1>8 DEF FeedCount, QueueInv, readerVars
<1>9. CASE ReadNothing \/ ReadReset \/ ReadAnswer
  BY <1>9 DEF ReadNothing, ReadReset, ReadAnswer, QueueInv, feederVars
<1>10. CASE ProcessPop
  <2>1. /\ waiting # <<>> /\ waiting' = Tail(waiting)
        /\ reading' = Head(waiting) /\ reader' = "process"
        /\ UNCHANGED <<added, inputQueue, feeder, feeding>>
    BY <1>10 DEF ProcessPop, feederVars
  <2>2. /\ Head(waiting) = waiting[1] /\ 1 \in DOMAIN waiting
        /\ Len(waiting') = Len(waiting) - 1 /\ Len(waiting) >= 1
        /\ \A i \in DOMAIN waiting' :
             /\ i \in Nat /\ i + 1 \in DOMAIN waiting
             /\ waiting'[i] = waiting[i + 1]
    BY <1>1, <2>1, Behead
  <2>3. Popped' = Popped + 1 /\ Popped' \in Int /\ Popped \in Int
    BY <1>1, <2>1, <2>2
  <2> HIDE DEF Fed, Popped
  <2>4. \A i \in DOMAIN waiting' : waiting'[i] = Popped' + i
    BY <2>2, <2>3 DEF QueueInv
  <2>5. reading' = Popped'
    BY <2>1, <2>2, <2>3 DEF QueueInv
  <2>6. QED BY <2>1, <2>3, <2>4, <2>5 DEF QueueInv
<1>11. CASE ProcessAnswer \/ ProcessNoise
  BY <1>11 DEF ProcessAnswer, ProcessNoise, ReaderBack, QueueInv, feederVars
<1>12. QED
  BY <1>2, <1>3, <1>4, <1>5, <1>6, <1>7, <1>8, <1>9, <1>10, <1>11
     DEF Next, FeedStep, ReadStep, ChipAnswer, ChipLoses, ChipNoise, vars,
         feederVars, readerVars

(* How far the packets have come: only a step that pops a waiting packet   *)
(* and one that writes a request changes that.                             *)
LEMMA Numbers ==
  ASSUME TypeOK, AtInv, QueueInv
  PROVE  /\ inputQueue \in Seq(Packets) /\ Len(inputQueue) \in Nat
         /\ waiting \in Seq(Packets) /\ Len(waiting) \in Nat
         /\ chip \in Seq(Packets) /\ Len(chip) \in Nat
         /\ DOMAIN chip = 1..Len(chip)
         /\ rx \in Seq(Answers) /\ Len(rx) \in Nat /\ DOMAIN rx = 1..Len(rx)
         /\ \A i \in DOMAIN chip : chip[i] \in Packets
         /\ \A i \in DOMAIN rx : rx[i] \in Answers
         /\ \A i \in DOMAIN chip : chip[i] \in Nat /\ i \in Nat /\ i <= Len(chip)
         /\ \A i \in DOMAIN rx : rx[i] \in Nat /\ i \in Nat /\ i <= Len(rx)
         /\ Packets \subseteq Nat \ {0} /\ Answers = Packets \cup {0}
         /\ Noise = 0 /\ None \notin Answers /\ None \notin Packets
         /\ added \in Nat /\ Fed \in Int /\ Sent \in Nat /\ Popped \in Nat
<1>1. /\ inputQueue \in Seq(Packets) /\ Len(inputQueue) \in Nat
      /\ waiting \in Seq(Packets) /\ Len(waiting) \in Nat
      /\ chip \in Seq(Packets) /\ Len(chip) \in Nat
      /\ rx \in Seq(Answers) /\ Len(rx) \in Nat
      /\ added \in Nat
  BY LenProperties, DVSIDeviceAssumption DEF TypeOK
<1>2. /\ DOMAIN chip = 1..Len(chip) /\ DOMAIN rx = 1..Len(rx)
      /\ \A i \in DOMAIN chip : chip[i] \in Packets
      /\ \A i \in DOMAIN rx : rx[i] \in Answers
  BY <1>1
<1>3. /\ Packets \subseteq Nat \ {0} /\ Answers = Packets \cup {0} /\ Noise = 0
      /\ None \notin Answers /\ None \notin Packets
  BY DVSIDeviceAssumption DEF Packets, Answers, Noise
<1>4. Fed \in Int /\ Sent \in Int /\ Popped \in Int
  BY <1>1 DEF Fed, Sent, Popped
<1>5. Popped \in Nat
  BY <1>4 DEF QueueInv
<1>6. Sent >= 0
  <2>1. CASE feeder = "send"
    BY <1>1, <1>3, <2>1 DEF Sent, Fed, AtInv, QueueInv
  <2>2. CASE feeder # "send"
    BY <1>1, <1>4, <1>5, <2>2 DEF Sent, Popped
  <2>3. QED BY <2>1, <2>2
<1>7. \A i \in DOMAIN chip : i \in Nat /\ i <= Len(chip)
  BY <1>1, <1>2
<1>8. \A i \in DOMAIN rx : i \in Nat /\ i <= Len(rx)
  BY <1>1, <1>2
<1>9. /\ \A i \in DOMAIN chip : chip[i] \in Nat
      /\ \A i \in DOMAIN rx : rx[i] \in Nat
  <2>1. Packets \subseteq Nat /\ Answers \subseteq Nat
    BY <1>3
  <2>2. QED BY <1>2, <2>1
<1>10. QED BY <1>1, <1>2, <1>3, <1>4, <1>5, <1>6, <1>7, <1>8, <1>9

LEMMA Moves ==
  ASSUME TypeOK, AtInv, QueueInv
  PROVE  /\ UNCHANGED <<added, inputQueue, feeder, waiting>>
              => Popped' = Popped /\ Sent' = Sent
         /\ AddPacket \/ FeedPop \/ FeedRoom \/ FeedPush \/ FeedCount
              => Popped' = Popped /\ Sent' = Sent
         /\ FeedSend => /\ Popped' = Popped /\ Sent' = Sent + 1
                        /\ feeding = Sent' /\ feeding \in Packets
         /\ ProcessPop => Popped' = Popped + 1 /\ Sent' = Sent
<1> USE DEF Fed, Popped, Sent
<1>1. /\ inputQueue \in Seq(Packets) /\ Len(inputQueue) \in Nat
      /\ waiting \in Seq(Packets) /\ Len(waiting) \in Nat
      /\ added \in Nat
  BY Numbers
<1>2. ASSUME UNCHANGED <<added, inputQueue, feeder, waiting>>
      PROVE  Popped' = Popped /\ Sent' = Sent
  BY <1>2
<1>3. ASSUME AddPacket PROVE Popped' = Popped /\ Sent' = Sent
  <2>1. added + 1 \in Packets
    BY <1>3, <1>1, DVSIDeviceAssumption DEF AddPacket, Packets
  <2>2. Len(inputQueue') = Len(inputQueue) + 1
    BY <1>1, <1>3, <2>1, Extend DEF AddPacket
  <2>3. added' = added + 1 /\ UNCHANGED <<feeder, waiting>>
    BY <1>3 DEF AddPacket, feederVars
  <2>4. QED BY <1>1, <2>2, <2>3
<1>4. ASSUME FeedPop PROVE Popped' = Popped /\ Sent' = Sent
  <2>1. Len(inputQueue') = Len(inputQueue) - 1
    BY <1>1, <1>4, Behead DEF FeedPop
  <2>2. QED BY <1>1, <1>4, <2>1 DEF FeedPop
<1>5. ASSUME FeedRoom PROVE Popped' = Popped /\ Sent' = Sent
  BY <1>5 DEF FeedRoom
<1>6. ASSUME FeedPush PROVE Popped' = Popped /\ Sent' = Sent
  <2>1. Len(waiting') = Len(waiting) + 1
    BY <1>1, <1>6, Extend DEF FeedPush, AtInv
  <2>2. QED BY <1>1, <1>6, <2>1 DEF FeedPush
<1>7. ASSUME FeedCount PROVE Popped' = Popped /\ Sent' = Sent
  BY <1>7 DEF FeedCount
<1>8. ASSUME FeedSend
      PROVE  /\ Popped' = Popped /\ Sent' = Sent + 1
             /\ feeding = Sent' /\ feeding \in Packets
  BY <1>1, <1>8 DEF FeedSend, QueueInv, AtInv
<1>9. ASSUME ProcessPop PROVE Popped' = Popped + 1 /\ Sent' = Sent
  <2>1. Len(waiting') = Len(waiting) - 1
    BY <1>1, <1>9, Behead DEF ProcessPop
  <2>2. QED BY <1>1, <1>9, <2>1 DEF ProcessPop, feederVars
<1>10. QED BY <1>2, <1>3, <1>4, <1>5, <1>6, <1>7, <1>8, <1>9

-----------------------------------------------------------------------------
(* The order of the answers.                                               *)

LEMMA OrderInit == Init => OrderInv
BY DVSIDeviceAssumption DEF Init, OrderInv, Packets

LEMMA OrderStep ==
  TypeOK /\ AtInv /\ QueueInv /\ OrderInv /\ [Next]_vars => OrderInv'
<1> SUFFICES ASSUME TypeOK, AtInv, QueueInv, OrderInv, [Next]_vars
             PROVE  OrderInv'
  OBVIOUS
<1>1. /\ chip \in Seq(Packets) /\ Len(chip) \in Nat /\ DOMAIN chip = 1..Len(chip)
      /\ rx \in Seq(Answers) /\ Len(rx) \in Nat /\ DOMAIN rx = 1..Len(rx)
      /\ \A i \in DOMAIN chip : chip[i] \in Packets
      /\ \A i \in DOMAIN rx : rx[i] \in Answers
      /\ Packets \subseteq Nat \ {0} /\ Answers = Packets \cup {0} /\ Noise = 0
      /\ None \notin Answers /\ None \notin Packets
      /\ Sent \in Nat /\ Popped \in Nat
      /\ given \in [Packets -> Packets \cup {None}]
  BY Numbers DEF TypeOK
<1>2. CASE /\ Popped' = Popped /\ Sent' = Sent
           /\ UNCHANGED <<chip, rx, reader, answer, given>>
  BY <1>2 DEF OrderInv
<1>3. CASE AddPacket \/ FeedPop \/ FeedRoom \/ FeedPush \/ FeedCount
  BY <1>2, <1>3, Moves
     DEF AddPacket, FeedPop, FeedRoom, FeedPush, FeedCount, readerVars
<1>4. CASE FeedSend
  <2>1. /\ Popped' = Popped /\ Sent' = Sent + 1
        /\ feeding = Sent + 1 /\ feeding \in Packets
        /\ UNCHANGED <<rx, reader, answer, given>>
        /\ chip' = Append(chip, feeding) \/ chip' = chip
    BY <1>4, Moves DEF FeedSend, readerVars
  <2>2. \A j \in DOMAIN Append(chip, feeding) :
          \/ j \in DOMAIN chip /\ Append(chip, feeding)[j] = chip[j]
          \/ Append(chip, feeding)[j] = feeding /\ j = Len(chip) + 1
    BY <1>1, <2>1, Extend
  <2>3. \A j \in DOMAIN chip' : \/ j \in DOMAIN chip /\ chip'[j] = chip[j]
                                \/ chip'[j] = Sent + 1 /\ j = Len(chip) + 1
    BY <2>1, <2>2
  <2>4. /\ \A i \in DOMAIN rx : rx[i] \in Nat
        /\ \A j \in DOMAIN chip : chip[j] \in Nat /\ j \in Nat /\ j <= Len(chip)
        /\ Sent \in Nat /\ Len(chip) \in Nat
    BY Numbers
  <2>5. /\ \A i, j \in DOMAIN chip : i < j => chip[i] < chip[j]
        /\ \A j \in DOMAIN chip : chip[j] <= Sent
    BY DEF OrderInv
  <2>6. /\ \A i, j \in DOMAIN chip' : i < j => chip'[i] < chip'[j]
        /\ \A j \in DOMAIN chip' : chip'[j] <= Sent + 1
    BY <2>3, <2>4, <2>5
  <2>7. ASSUME NEW n \in Nat, n <= Sent, \A j \in DOMAIN chip : n < chip[j]
        PROVE  n <= Sent + 1 /\ \A j \in DOMAIN chip' : n < chip'[j]
    BY <2>3, <2>4, <2>7
  <2>8. \A i \in DOMAIN rx : /\ rx[i] <= Sent + 1
                             /\ \A j \in DOMAIN chip' : rx[i] < chip'[j]
    BY <2>4, <2>7 DEF OrderInv
  <2>9. answer \in Packets => /\ answer <= Sent + 1
                              /\ \A j \in DOMAIN chip' : answer < chip'[j]
    BY <1>1, <2>7 DEF OrderInv
  <2>10. \A p \in Packets : given[p] # None =>
           given[p] <= Sent + 1 /\ \A j \in DOMAIN chip' : given[p] < chip'[j]
    <3> SUFFICES ASSUME NEW p \in Packets, given[p] # None
                 PROVE  /\ given[p] <= Sent + 1
                        /\ \A j \in DOMAIN chip' : given[p] < chip'[j]
      OBVIOUS
    <3>1. given[p] \in Nat
      BY <1>1
    <3>2. given[p] <= Sent /\ \A j \in DOMAIN chip : given[p] < chip[j]
      BY DEF OrderInv
    <3>3. QED BY <2>7, <3>1, <3>2
  <2>11. QED BY <2>1, <2>6, <2>8, <2>9, <2>10 DEF OrderInv
<1>5. CASE ChipAnswer
  <2>1. /\ chip # <<>> /\ chip' = Tail(chip) /\ rx' = Append(rx, Head(chip))
        /\ Popped' = Popped /\ Sent' = Sent /\ UNCHANGED <<reader, answer, given>>
    BY <1>5, Moves DEF ChipAnswer, feederVars, readerVars
  <2>2. /\ Head(chip) = chip[1] /\ 1 \in DOMAIN chip /\ chip[1] \in Answers
        /\ \A j \in DOMAIN chip' : /\ j + 1 \in DOMAIN chip
                                   /\ chip'[j] = chip[j + 1] /\ 1 < j + 1
    BY <1>1, <2>1, Behead
  <2>3. \A i \in DOMAIN rx' : \/ i \in DOMAIN rx /\ rx'[i] = rx[i]
                              \/ rx'[i] = chip[1] /\ i = Len(rx) + 1
    BY <1>1, <2>1, <2>2, Extend
  <2>4. QED BY <1>1, <2>1, <2>2, <2>3 DEF OrderInv
<1>6. CASE ChipLoses
  <2>1. /\ chip # <<>> /\ chip' = Tail(chip) /\ UNCHANGED rx
        /\ Popped' = Popped /\ Sent' = Sent /\ UNCHANGED <<reader, answer, given>>
    BY <1>6, Moves DEF ChipLoses, feederVars, readerVars
  <2>2. /\ \A j \in DOMAIN chip' : /\ j + 1 \in DOMAIN chip /\ j \in Nat
                                   /\ chip'[j] = chip[j + 1]
    BY <1>1, <2>1, Behead
  <2>3. QED BY <1>1, <2>1, <2>2 DEF OrderInv
<1>7. CASE ChipNoise
  <2>1. /\ rx' = Append(rx, Noise) /\ UNCHANGED <<chip, reader, answer, given>>
        /\ Popped' = Popped /\ Sent' = Sent
    BY <1>7, Moves DEF ChipNoise, feederVars, readerVars
  <2>2. \A i \in DOMAIN rx' : \/ i \in DOMAIN rx /\ rx'[i] = rx[i]
                              \/ rx'[i] = Noise
    BY <1>1, <2>1, Extend
  <2>3. \A i, j \in DOMAIN rx' :
          i < j /\ rx'[i] # Noise /\ rx'[j] # Noise => rx'[i] < rx'[j]
    BY <1>1, <2>2 DEF OrderInv
  <2>4. \A i \in DOMAIN rx' : /\ rx'[i] <= Sent
                              /\ \A j \in DOMAIN chip : rx'[i] < chip[j]
    BY <1>1, <2>2 DEF OrderInv
  <2>5. answer \in Packets =>
          \A i \in DOMAIN rx' : rx'[i] # Noise => answer < rx'[i]
    BY <1>1, <2>2 DEF OrderInv
  <2>6. \A p \in Packets : given[p] # None =>
          \A i \in DOMAIN rx' : rx'[i] # Noise => given[p] < rx'[i]
    BY <1>1, <2>2 DEF OrderInv
  <2>7. QED BY <2>1, <2>3, <2>4, <2>5, <2>6 DEF OrderInv
<1>8. CASE ReadNothing \/ ReadReset
  <2>1. /\ UNCHANGED <<chip, rx, answer, given>> /\ reader' # "process"
        /\ Popped' = Popped /\ Sent' = Sent
    BY <1>8, Moves DEF ReadNothing, ReadReset, feederVars
  <2>2. QED BY <2>1 DEF OrderInv
<1>9. CASE ReadAnswer
  <2>1. /\ rx # <<>> /\ rx' = Tail(rx) /\ answer' = Head(rx)
        /\ reader = "wait" /\ reader' = "pop"
        /\ UNCHANGED <<chip, given>> /\ Popped' = Popped /\ Sent' = Sent
    BY <1>9, Moves DEF ReadAnswer, feederVars
  <2>2. /\ Head(rx) = rx[1] /\ 1 \in DOMAIN rx
        /\ \A i \in DOMAIN rx' : /\ i + 1 \in DOMAIN rx /\ i \in Nat
                                 /\ rx'[i] = rx[i + 1] /\ 1 < i + 1
    BY <1>1, <2>1, Behead
  <2>3. QED BY <1>1, <2>1, <2>2 DEF OrderInv
<1>10. CASE ProcessPop
  <2>1. /\ Popped' = Popped + 1 /\ Sent' = Sent
        /\ UNCHANGED <<chip, rx, answer, given>>
    BY <1>10, Moves DEF ProcessPop
  <2>2. QED BY <1>1, <2>1 DEF OrderInv
<1>11. CASE ProcessAnswer
  <2>1. /\ reader = "process" /\ reader' = "wait" /\ answer' = None
        /\ answer # Noise /\ given' = [given EXCEPT ![reading] = answer]
        /\ UNCHANGED <<chip, rx>> /\ Popped' = Popped /\ Sent' = Sent
    BY <1>11, Moves DEF ProcessAnswer, ReaderBack, feederVars
  <2>2. answer \in Packets /\ reading \in Packets /\ reading = Popped
    BY <1>1, <2>1 DEF AtInv, QueueInv
  <2>3. \A p \in Packets : given'[p] = IF p = Popped THEN answer ELSE given[p]
    BY <1>1, <2>1, <2>2
  <2>4. QED BY <1>1, <2>1, <2>2, <2>3 DEF OrderInv
<1>12. CASE ProcessNoise
  <2>1. /\ reader' = "wait" /\ answer' = None
        /\ UNCHANGED <<chip, rx, given>> /\ Popped' = Popped /\ Sent' = Sent
    BY <1>12, Moves DEF ProcessNoise, ReaderBack, feederVars
  <2>2. QED BY <1>1, <2>1 DEF OrderInv
<1>13. CASE UNCHANGED vars
  BY <1>2, <1>13, Moves DEF vars, feederVars, readerVars
<1>14. QED
  BY <1>3, <1>4, <1>5, <1>6, <1>7, <1>8, <1>9, <1>10, <1>11, <1>12, <1>13
     DEF Next, FeedStep, ReadStep

-----------------------------------------------------------------------------
(* How answers and waiting packets match.                                  *)

LEMMA MatchInit == Init => MatchInv
BY DEF Init, MatchInv, Due, Ahead, Popped, Fed, Missed, Packets

(* The part of MatchInv that holds as long as there has been no noise. *)
Matched ==
  /\ Due + Missed = Len(waiting)
  /\ reader = "pop" => Shift(answer, Popped + 1)
  /\ reader = "process" => Shift(answer, reading)
  /\ \A i \in DOMAIN rx : Shift(rx[i], Popped + Ahead + i)
  /\ \A i \in DOMAIN chip : Shift(chip[i], Popped + Ahead + Len(rx) + i)
  /\ \A p \in Packets : given[p] # None => Shift(given[p], p)
  /\ \A p \in Packets : p <= Popped =>
       given[p] # None \/ (reader = "process" /\ p = reading)

LEMMA MatchStep ==
  TypeOK /\ AtInv /\ QueueInv /\ MatchInv /\ [Next]_vars => MatchInv'
<1> SUFFICES ASSUME TypeOK, AtInv, QueueInv, MatchInv, [Next]_vars
             PROVE  MatchInv'
  OBVIOUS
<1>1. /\ chip \in Seq(Packets) /\ Len(chip) \in Nat /\ DOMAIN chip = 1..Len(chip)
      /\ rx \in Seq(Answers) /\ Len(rx) \in Nat /\ DOMAIN rx = 1..Len(rx)
      /\ waiting \in Seq(Packets) /\ Len(waiting) \in Nat
      /\ \A i \in DOMAIN chip : chip[i] \in Packets
      /\ \A i \in DOMAIN rx : rx[i] \in Answers
      /\ Packets \subseteq Nat \ {0} /\ Noise = 0 /\ Popped \in Nat
      /\ given \in [Packets -> Packets \cup {None}] /\ noise \in Nat
      /\ lost \in Nat /\ failed \in Nat /\ Missed \in Nat
      /\ Missed' = lost' + failed'
  BY Numbers, DVSIDeviceAssumption DEF TypeOK, Missed
<1>2. /\ \A i \in DOMAIN chip : chip[i] \in Nat /\ i \in Nat /\ i <= Len(chip)
      /\ \A i \in DOMAIN rx : rx[i] \in Nat /\ i \in Nat /\ i <= Len(rx)
      /\ Len(chip) \in Nat /\ Len(rx) \in Nat /\ Len(waiting) \in Nat
      /\ Popped \in Nat /\ Noise = 0 /\ Missed \in Nat
      /\ Ahead \in 0..1
      /\ Due = Ahead + Len(rx) + Len(chip) + (IF feeder = "send" THEN 1 ELSE 0)
      /\ Due \in Nat
  <2>1. Ahead \in 0..1
    BY DEF Ahead
  <2>2. Due = Ahead + Len(rx) + Len(chip) + (IF feeder = "send" THEN 1 ELSE 0)
    BY DEF Due
  <2>3. Len(rx) \in Nat /\ Len(chip) \in Nat
    BY Numbers
  <2>4. Due \in Nat
    BY <2>1, <2>2, <2>3
  <2>5. QED BY <1>1, <2>1, <2>2, <2>4, Numbers
<1>3. /\ UNCHANGED <<lost, failed>> =>
           Missed' = Missed /\ \A a, p : Shift(a, p)' <=> Shift(a, p)
      /\ Missed' = Missed + 1 =>
           \A a, p \in Nat : Shift(a, p) => Shift(a, p)'
  <2>1. UNCHANGED <<lost, failed>> => Missed' = Missed
    BY DEF Missed
  <2>2. QED BY <1>1, <2>1 DEF Shift
<1>4. faultless => lost = 0 /\ failed = 0 /\ noise = 0
  BY DEF MatchInv
<1>5. noise = 0 => Matched
  BY DEF MatchInv, Matched
<1>6. ASSUME /\ faultless => lost' = 0 /\ failed' = 0 /\ noise' = 0
             /\ noise' = 0 => Matched'
      PROVE  MatchInv'
  BY <1>6 DEF MatchInv, Matched, Next, vars
<1>7. ASSUME Matched, Missed' = Missed + 1, Popped' = Popped, Ahead' = Ahead,
             UNCHANGED <<rx, reader, answer, reading, given>>
      PROVE  /\ reader' = "pop" => Shift(answer, Popped + 1)'
             /\ reader' = "process" => Shift(answer, reading)'
             /\ \A i \in DOMAIN rx : Shift(rx[i], Popped + Ahead + i)'
             /\ \A p \in Packets : given[p] # None => Shift(given[p], p)'
  <2>1. /\ reader = "pop" => answer \in Nat
        /\ reader = "process" => answer \in Nat /\ reading \in Nat
        /\ \A p \in Packets : p \in Nat /\ (given[p] # None => given[p] \in Nat)
        /\ \A i \in DOMAIN rx : rx[i] \in Nat /\ i \in Nat
    <3>1. Packets \subseteq Nat /\ Answers \subseteq Nat
      BY Numbers
    <3>2. \A p \in Packets : given[p] # None => given[p] \in Packets
      BY <1>1
    <3>3. /\ reader = "pop" => answer \in Answers
          /\ reader = "process" => answer \in Answers /\ reading \in Packets
      BY DEF AtInv
    <3>4. QED BY <1>2, <3>1, <3>2, <3>3
  <2>2. \A i \in DOMAIN rx : Popped + Ahead + i \in Nat
    BY <1>2, <2>1
  <2>3. Popped + 1 \in Nat
    BY <1>2
  <2>4. \A i \in DOMAIN rx : Shift(rx[i], Popped + Ahead + i)'
    BY <1>3, <1>7, <2>1, <2>2 DEF Matched
  <2>5. \A p \in Packets : given[p] # None => Shift(given[p], p)'
    BY <1>3, <1>7, <2>1 DEF Matched
  <2>6. reader = "pop" => Shift(answer, Popped + 1)'
    BY <1>3, <1>7, <2>1, <2>3 DEF Matched
  <2>7. reader = "process" => Shift(answer, reading)'
    BY <1>3, <1>7, <2>1 DEF Matched
  <2>8. QED BY <1>7, <2>4, <2>5, <2>6, <2>7
<1>8. CASE /\ Popped' = Popped /\ Ahead' = Ahead /\ Due' = Due
           /\ UNCHANGED <<waiting, rx, chip, answer, reading, given, faultVars>>
           /\ \/ reader' = reader
              \/ {reader, reader'} \cap {"pop", "process"} = {}
  BY <1>3, <1>4, <1>5, <1>6, <1>8 DEF Matched, faultVars
<1>9. CASE AddPacket \/ FeedPop \/ FeedRoom \/ FeedCount
  BY <1>8, <1>9, Moves
     DEF AddPacket, FeedPop, FeedRoom, FeedCount, Ahead, Due, feederVars,
         readerVars, faultVars
<1>10. CASE ReadNothing \/ ReadReset
  BY <1>8, <1>10, Moves
     DEF ReadNothing, ReadReset, Ahead, Due, feederVars, readerVars, faultVars
<1>11. CASE FeedPush
  <2>1. /\ UNCHANGED <<rx, chip, reader, answer, reading, given, faultVars>>
        /\ feeder = "push" /\ feeder' = "send" /\ feeding \in Packets
        /\ waiting' = Append(waiting, feeding) /\ Popped' = Popped
    BY <1>11, Moves DEF FeedPush, readerVars, AtInv
  <2>2. Len(waiting') = Len(waiting) + 1
    BY <1>1, <2>1, Extend
  <2>3. Ahead' = Ahead /\ Due' = Due + 1
    BY <1>2, <2>1 DEF Ahead, Due
  <2>4. Matched => Due' + Missed' = Len(waiting')
    BY <1>1, <1>2, <1>3, <2>1, <2>2, <2>3 DEF Matched, faultVars
  <2>5. Matched => Matched'
    BY <1>3, <2>1, <2>3, <2>4 DEF Matched, faultVars
  <2>6. QED BY <1>4, <1>5, <1>6, <2>1, <2>5 DEF faultVars
<1>12. CASE FeedSend
  <2>1. /\ UNCHANGED <<waiting, rx, reader, answer, reading, given, lost, noise>>
        /\ feeder = "send" /\ feeder' = "count" /\ Popped' = Popped
        /\ feeding \in Packets
        /\ \/ chip' = Append(chip, feeding) /\ UNCHANGED failed
           \/ ~ faultless /\ chip' = chip /\ failed' = failed + 1
    BY <1>12, Moves DEF FeedSend, readerVars
  <2>2. Ahead' = Ahead /\ Due = Ahead + Len(rx) + Len(chip) + 1
    BY <1>2, <2>1 DEF Ahead, Due
  <2>3. CASE chip' = Append(chip, feeding) /\ UNCHANGED failed
    <3>1. /\ Len(chip') = Len(chip) + 1
          /\ \A i \in DOMAIN chip' :
               \/ i \in DOMAIN chip /\ chip'[i] = chip[i]
               \/ i = Len(chip) + 1 /\ chip'[i] = feeding
      BY <1>1, <2>1, <2>3, Extend
    <3>2. Due' = Due
      BY <1>2, <2>1, <2>2, <3>1 DEF Due
    <3>3. feeding = Popped + Len(waiting) /\ feeding # 0
      BY <1>1, <2>1, Numbers DEF QueueInv, Popped, Fed
    <3>4. ASSUME Matched
          PROVE  Shift(feeding, Popped + Ahead + Len(rx) + (Len(chip) + 1))
      BY <1>1, <1>2, <2>2, <3>3, <3>4 DEF Matched, Shift
    <3>5. Missed' = Missed /\ \A x, y : Shift(x, y)' <=> Shift(x, y)
      BY <1>3, <2>1, <2>3
    <3>6. Matched => Matched'
      BY <2>1, <2>2, <3>1, <3>2, <3>4, <3>5 DEF Matched
    <3>7. QED BY <1>4, <1>5, <1>6, <2>1, <2>3, <3>6
  <2>4. CASE ~ faultless /\ chip' = chip /\ failed' = failed + 1
    <3>1. Due' = Due - 1 /\ Missed' = Missed + 1
      <4>1. Due' = Due - 1
        BY <1>2, <2>1, <2>2, <2>4 DEF Due
      <4>2. lost \in Nat /\ failed \in Nat /\ UNCHANGED lost
        BY <1>1, <2>1
      <4>3. Missed' = Missed + 1
        BY <2>4, <4>2 DEF Missed
      <4>4. QED BY <4>1, <4>3
    <3>2. Due' + Missed' = Due + Missed
      BY <1>2, <3>1
    <3>3. \A i \in DOMAIN chip :
            chip[i] \in Nat /\ Popped + Ahead + Len(rx) + i \in Nat
      BY <1>2
    <3>4. Matched => \A i \in DOMAIN chip : Shift(chip[i], Popped + Ahead + Len(rx) + i)'
      BY <1>3, <2>1, <2>2, <2>4, <3>1, <3>3 DEF Matched
    <3>5. Matched => Matched'
      BY <1>7, <2>1, <2>2, <2>4, <3>1, <3>2, <3>4 DEF Matched
    <3>6. QED BY <1>5, <1>6, <2>1, <2>4, <3>5
  <2>5. QED BY <2>1, <2>3, <2>4
<1>13. CASE ChipAnswer
  <2>1. /\ chip # <<>> /\ chip' = Tail(chip) /\ rx' = Append(rx, Head(chip))
        /\ UNCHANGED <<waiting, reader, feeder, answer, reading, given, faultVars>>
        /\ Popped' = Popped
    BY <1>13, Moves DEF ChipAnswer, feederVars, readerVars
  <2>2. /\ Head(chip) = chip[1] /\ 1 \in DOMAIN chip /\ Head(chip) \in Answers
        /\ Len(chip') = Len(chip) - 1
        /\ \A i \in DOMAIN chip' : /\ i + 1 \in DOMAIN chip
                                   /\ chip'[i] = chip[i + 1]
    BY <1>1, <2>1, Behead DEF Answers
  <2>3. /\ Len(rx') = Len(rx) + 1
        /\ \A i \in DOMAIN rx' : \/ i \in DOMAIN rx /\ rx'[i] = rx[i]
                                 \/ i = Len(rx) + 1 /\ rx'[i] = chip[1]
    BY <1>1, <2>1, <2>2, Extend
  <2>4. Ahead' = Ahead /\ Due' = Due
    <3>1. Ahead' = Ahead /\ feeder' = feeder
      BY <2>1 DEF Ahead
    <3>2. Len(rx') + Len(chip') = Len(rx) + Len(chip)
      BY <1>2, <2>2, <2>3
    <3>3. QED BY <1>2, <2>2, <2>3, <3>1, <3>2 DEF Due
  <2>5. \A i \in DOMAIN chip' : i \in Nat
    BY <1>1, <2>1, Behead
  <2>6. ASSUME Matched, NEW i \in DOMAIN chip'
        PROVE  Shift(chip'[i], Popped + Ahead + Len(rx') + i)
    <3>1. Shift(chip[i + 1], Popped + Ahead + Len(rx) + (i + 1))
      BY <2>2, <2>6 DEF Matched
    <3>2. Popped + Ahead + Len(rx) + (i + 1) = Popped + Ahead + Len(rx') + i
      BY <1>2, <2>3, <2>5
    <3>3. QED BY <2>2, <3>1, <3>2
  <2>7. ASSUME Matched, NEW i \in DOMAIN rx'
        PROVE  Shift(rx'[i], Popped + Ahead + i)
    <3>1. CASE i \in DOMAIN rx /\ rx'[i] = rx[i]
      BY <2>7, <3>1 DEF Matched
    <3>2. CASE i = Len(rx) + 1 /\ rx'[i] = chip[1]
      <4>1. Shift(chip[1], Popped + Ahead + Len(rx) + 1)
        BY <2>2, <2>7 DEF Matched
      <4>2. Popped + Ahead + Len(rx) + 1 = Popped + Ahead + i
        BY <1>2, <3>2
      <4>3. QED BY <3>2, <4>1, <4>2
    <3>3. QED BY <2>3, <3>1, <3>2
  <2>8. Matched => Matched'
    BY <1>3, <2>1, <2>4, <2>6, <2>7 DEF Matched, faultVars
  <2>9. QED BY <1>4, <1>5, <1>6, <2>1, <2>8 DEF faultVars
<1>14. CASE ChipLoses
  <2>1. /\ chip # <<>> /\ chip' = Tail(chip) /\ ~ faultless
        /\ UNCHANGED <<waiting, rx, reader, feeder, answer, reading, given>>
        /\ lost' = lost + 1 /\ UNCHANGED <<failed, noise>> /\ Popped' = Popped
    BY <1>14, Moves DEF ChipLoses, feederVars, readerVars
  <2>2. /\ Len(chip') = Len(chip) - 1
        /\ \A i \in DOMAIN chip' : /\ i + 1 \in DOMAIN chip /\ i \in Nat
                                   /\ chip'[i] = chip[i + 1]
    BY <1>1, <2>1, Behead
  <2>3. /\ Ahead' = Ahead /\ Due' = Due - 1
        /\ Missed' = Missed + 1 /\ Due' + Missed' = Due + Missed
    <3>1. Ahead' = Ahead /\ Due' = Due - 1
      BY <1>2, <2>1, <2>2 DEF Ahead, Due
    <3>2. lost \in Nat /\ failed \in Nat
      BY <1>1
    <3>3. Missed' = Missed + 1
      BY <2>1, <3>2 DEF Missed
    <3>4. QED BY <1>2, <3>1, <3>3
  <2>4. ASSUME Matched, NEW i \in DOMAIN chip'
        PROVE  Shift(chip[i], Popped + Ahead + Len(rx) + i)'
    <3>1. Shift(chip[i + 1], Popped + Ahead + Len(rx) + (i + 1))
      BY <2>2, <2>4 DEF Matched
    <3>2. chip[i + 1] \in Nat /\ i \in Nat
      BY <1>2, <2>2
    <3>3. PICK at : at = Popped + Ahead + Len(rx) + i
      OBVIOUS
    <3>4. at \in Nat /\ Popped + Ahead + Len(rx) + (i + 1) = at + 1
      BY <1>2, <3>2, <3>3
    <3>5. Popped' + Ahead' + Len(rx') + i = at
      BY <2>1, <2>3, <3>3
    <3>6. Shift(chip[i], at)'
      <4>1. Missed \in Nat /\ Missed' = Missed + 1 /\ Noise \in Nat
        BY <1>2, <2>3
      <4>2. PICK x : x = chip[i + 1]
        OBVIOUS
      <4>3. x \in Nat /\ x # Noise /\ x >= at + 1 /\ x <= at + 1 + Missed
        BY <3>1, <3>2, <3>4, <4>2 DEF Shift
      <4>4. x >= at /\ x <= at + Missed'
        BY <3>4, <4>1, <4>3
      <4>5. chip'[i] = x
        BY <2>2, <4>2
      <4>6. QED BY <4>3, <4>4, <4>5 DEF Shift, Noise
    <3>7. QED BY <3>5, <3>6
  <2>5. Matched => Matched'
    BY <1>7, <2>1, <2>3, <2>4 DEF Matched
  <2>6. QED BY <1>5, <1>6, <2>1, <2>5
<1>15. CASE ChipNoise
  <2>1. ~ faultless /\ noise' = noise + 1
    BY <1>15 DEF ChipNoise
  <2>2. noise' # 0
    BY <1>1, <2>1
  <2>3. QED BY <1>6, <2>1, <2>2
<1>16. CASE ReadAnswer
  <2>1. /\ rx # <<>> /\ rx' = Tail(rx) /\ answer' = Head(rx)
        /\ reader = "wait" /\ reader' = "pop"
        /\ UNCHANGED <<waiting, chip, feeder, reading, given, faultVars>>
        /\ Popped' = Popped
    BY <1>16, Moves DEF ReadAnswer, feederVars
  <2>2. /\ Head(rx) = rx[1] /\ 1 \in DOMAIN rx
        /\ Len(rx') = Len(rx) - 1
        /\ \A i \in DOMAIN rx' : /\ i + 1 \in DOMAIN rx /\ i \in Nat
                                 /\ rx'[i] = rx[i + 1]
    BY <1>1, <2>1, Behead
  <2>3. Ahead = 0 /\ Ahead' = 1 /\ Due' = Due /\ Ahead + Len(rx) = Ahead' + Len(rx')
    BY <1>2, <2>1, <2>2 DEF Ahead, Due
  <2>4. ASSUME Matched PROVE Shift(answer', Popped + 1)
    <3>1. Shift(rx[1], Popped + Ahead + 1)
      BY <2>2, <2>4 DEF Matched
    <3>2. Popped + Ahead + 1 = Popped + 1
      BY <1>2, <2>3
    <3>3. QED BY <2>1, <2>2, <3>1, <3>2
  <2>5. ASSUME Matched, NEW i \in DOMAIN rx'
        PROVE  Shift(rx'[i], Popped + Ahead' + i)
    <3>1. Shift(rx[i + 1], Popped + Ahead + (i + 1))
      BY <2>2, <2>5 DEF Matched
    <3>2. Popped + Ahead + (i + 1) = Popped + Ahead' + i
      BY <1>2, <2>2, <2>3
    <3>3. QED BY <2>2, <3>1, <3>2
  <2>6. ASSUME Matched, NEW i \in DOMAIN chip'
        PROVE  Shift(chip'[i], Popped + Ahead' + Len(rx') + i)
    <3>1. Shift(chip[i], Popped + Ahead + Len(rx) + i)
      BY <2>1, <2>6 DEF Matched
    <3>2. Popped + Ahead + Len(rx) + i = Popped + Ahead' + Len(rx') + i
      BY <1>2, <2>1, <2>2, <2>3
    <3>3. QED BY <2>1, <3>1, <3>2
  <2>7. Matched => Matched'
    BY <1>3, <2>1, <2>3, <2>4, <2>5, <2>6 DEF Matched, faultVars
  <2>8. QED BY <1>4, <1>5, <1>6, <2>1, <2>7 DEF faultVars
<1>17. CASE ProcessPop
  <2>1. /\ waiting # <<>> /\ waiting' = Tail(waiting) /\ reading' = Head(waiting)
        /\ reader = "pop" /\ reader' = "process"
        /\ UNCHANGED <<rx, chip, feeder, answer, given, faultVars>>
        /\ Popped' = Popped + 1
    BY <1>17, Moves DEF ProcessPop, feederVars
  <2>2. Head(waiting) = waiting[1] /\ Len(waiting') = Len(waiting) - 1
    BY <1>1, <2>1, Behead
  <2>3. 1 \in DOMAIN waiting /\ waiting[1] = Popped + 1
    BY <1>1, <2>1, Behead DEF QueueInv
  <2>4. Ahead = 1 /\ Ahead' = 0 /\ Due' = Due - 1 /\ Popped + Ahead = Popped' + Ahead'
    BY <1>2, <2>1 DEF Ahead, Due
  <2>5. ASSUME Matched
        PROVE  /\ \A i \in DOMAIN rx' : Shift(rx'[i], Popped' + Ahead' + i)
               /\ \A i \in DOMAIN chip' :
                    Shift(chip'[i], Popped' + Ahead' + Len(rx') + i)
    BY <2>1, <2>4, <2>5 DEF Matched
  <2>6. Matched => Due' + Missed' = Len(waiting')
    <3>1. Missed' = Missed
      BY <1>3, <2>1 DEF faultVars
    <3>2. QED BY <1>2, <2>2, <2>4, <3>1 DEF Matched
  <2>7. Matched => Shift(answer', reading')
    BY <2>1, <2>2, <2>3 DEF Matched
  <2>8. ASSUME Matched, NEW p \in Packets, p <= Popped'
        PROVE  given'[p] # None \/ (reader' = "process" /\ p = reading')
    <3>1. p \in Nat /\ (p <= Popped \/ p = Popped + 1)
      BY <1>1, <1>2, <2>1, <2>8
    <3>2. QED BY <2>1, <2>2, <2>3, <2>8, <3>1 DEF Matched
  <2>9. Matched => Matched'
    BY <1>3, <2>1, <2>5, <2>6, <2>7, <2>8 DEF Matched, faultVars
  <2>10. QED BY <1>4, <1>5, <1>6, <2>1, <2>9 DEF faultVars
<1>18. CASE ProcessAnswer
  <2>1. /\ reader = "process" /\ reader' = "wait"
        /\ given' = [given EXCEPT ![reading] = answer]
        /\ UNCHANGED <<waiting, rx, chip, feeder, faultVars>>
        /\ Popped' = Popped /\ reading \in Packets
    BY <1>18, Moves DEF ProcessAnswer, ReaderBack, feederVars, AtInv
  <2>2. Ahead' = Ahead /\ Due' = Due
    BY <2>1 DEF Ahead, Due
  <2>3. \A p \in Packets : given'[p] = IF p = reading THEN answer ELSE given[p]
    BY <1>1, <2>1
  <2>4. Matched => answer # None
    BY <2>1, Numbers DEF AtInv
  <2>5. Matched => Matched'
    BY <1>3, <2>1, <2>2, <2>3, <2>4 DEF Matched, faultVars
  <2>6. QED BY <1>4, <1>5, <1>6, <2>1, <2>5 DEF faultVars
<1>19. CASE ProcessNoise
  <2>1. /\ reader = "process" /\ answer = Noise /\ UNCHANGED faultVars
    BY <1>19 DEF ProcessNoise
  <2>2. ~ Matched
    BY <2>1 DEF Matched, Shift
  <2>3. QED BY <1>4, <1>5, <1>6, <2>1, <2>2 DEF faultVars
<1>20. CASE UNCHANGED vars
  BY <1>8, <1>20, Moves DEF vars, feederVars, readerVars, Ahead, Due
<1>21. QED
  BY <1>9, <1>10, <1>11, <1>12, <1>13, <1>14, <1>15, <1>16, <1>17, <1>18,
     <1>19, <1>20 DEF Next, FeedStep, ReadStep

-----------------------------------------------------------------------------
(* What follows.                                                           *)

LEMMA Faults ==
  ASSUME TypeOK, MatchInv
  PROVE  Missed \in Nat /\ noise \in Nat /\ (faultless => Missed = 0 /\ noise = 0)
BY DVSIDeviceAssumption DEF TypeOK, MatchInv, Missed

LEMMA Given ==
  ASSUME TypeOK, NEW p \in Packets, given[p] # None
  PROVE  p \in Nat /\ given[p] \in Packets /\ given[p] \in Nat
BY DVSIDeviceAssumption DEF TypeOK, Packets

(* The device always knows how far it is: packets are fed, answered and    *)
(* given their answers in the order they were added, and answers to come   *)
(* are fewer than packets waiting by just those that were missed, whenever *)
(* the waits of the two threads end.                                       *)
THEOREM DeviceSound == Spec => []DeviceInv
<1>1. Init => DeviceInv
  BY TypeInit, QueueInit, OrderInit, MatchInit DEF DeviceInv
<1>2. DeviceInv /\ [Next]_vars => DeviceInv'
  BY TypeStep, QueueStep, OrderStep, MatchStep DEF DeviceInv
<1>3. QED BY <1>1, <1>2, PTL DEF Spec

(* The read thread never waits in vain for a packet to give an answer to,  *)
(* whatever is lost or late, as long as nothing unexpected arrives.        *)
THEOREM ReaderGoesOn == Spec => []ReaderNeverBlocks
<1>1. DeviceInv => ReaderNeverBlocks
  <2> SUFFICES ASSUME DeviceInv, noise = 0, reader = "pop", waiting = <<>>
               PROVE  FALSE
    BY DEF ReaderNeverBlocks
  <2>1. Due + Missed = Len(waiting) /\ Len(rx) \in Nat /\ Len(chip) \in Nat
    BY Numbers DEF DeviceInv, MatchInv
  <2>2. Due >= 1
    BY <2>1 DEF Due, Ahead
  <2>3. Len(waiting) = 0
    BY DEF DeviceInv, TypeOK
  <2>4. Missed \in Nat
    BY Faults DEF DeviceInv
  <2>5. Due \in Nat
    BY <2>1 DEF Due, Ahead
  <2>6. QED BY <2>1, <2>2, <2>3, <2>4, <2>5
<1>2. QED BY <1>1, DeviceSound, PTL

(* A stream is never scrambled: no packet is given the answer to an        *)
(* earlier request, nor to one that is later by more than answers and      *)
(* requests were lost, and no two get theirs in the wrong order.           *)
THEOREM NeverScrambled == Spec => []AnswersInOrder
<1>1. DeviceInv => AnswersInOrder
  <2> SUFFICES ASSUME DeviceInv PROVE AnswersInOrder
    OBVIOUS
  <2>1. \A p, q \in Packets :
          p < q /\ given[p] # None /\ given[q] # None => given[p] < given[q]
    BY DEF DeviceInv, OrderInv
  <2>2. ASSUME noise = 0, NEW p \in Packets, given[p] # None
        PROVE  given[p] \in p..(p + Missed)
    BY <2>2, Given, Faults DEF DeviceInv, MatchInv, Shift
  <2>3. QED BY <2>1, <2>2 DEF AnswersInOrder
<1>2. QED BY <1>1, DeviceSound, PTL

(* Without faults every packet is given its own answer, however late, and  *)
(* though nothing in an answer says whose it is.                           *)
THEOREM OwnAnswers == Spec => []OwnAnswerWithoutFaults
<1>1. DeviceInv => OwnAnswerWithoutFaults
  <2> SUFFICES ASSUME DeviceInv, faultless, NEW p \in Packets, given[p] # None
               PROVE  given[p] = p
    BY DEF OwnAnswerWithoutFaults, OwnAnswer
  <2>1. Missed = 0 /\ noise = 0
    BY Faults DEF DeviceInv
  <2>2. given[p] >= p /\ given[p] <= p + Missed
    BY <2>1 DEF DeviceInv, MatchInv, Shift
  <2>3. QED BY <2>1, <2>2, Given DEF DeviceInv
<1>2. QED BY <1>1, DeviceSound, PTL

-----------------------------------------------------------------------------
(* The device does what AnswerService allows.                              *)

LEMMA ServiceAnswer ==
  ASSUME DeviceInv, ProcessAnswer, UNCHANGED faultless
  PROVE  Service!Answer(reading, answer) /\ reading \in Packets /\ answer \in Packets
<1>1. /\ TypeOK /\ AtInv /\ QueueInv /\ OrderInv /\ MatchInv
  BY DEF DeviceInv
<1>2. /\ reader = "process" /\ answer # Noise
      /\ given' = [given EXCEPT ![reading] = answer]
      /\ UNCHANGED <<faultless, added, lost, failed, noise>>
  BY DEF ProcessAnswer, faultVars
<1>3. reading \in Packets /\ answer \in Packets /\ reading = Popped
  BY <1>1, <1>2, Numbers DEF AtInv, QueueInv
<1>4. Packets = Service!Packets /\ Packets = 1..MaxPackets
  BY DEF Packets, Service!Packets
<1>5. reading \in 1..added /\ answer \in 1..added
  <2>1. Popped <= added /\ Sent <= added
    BY <1>1, Numbers DEF Popped, Sent, Fed
  <2>2. answer <= Sent
    BY <1>1, <1>3 DEF OrderInv
  <2>3. reading \in Nat \ {0} /\ answer \in Nat \ {0}
    BY <1>1, <1>3, Numbers
  <2>4. added \in Nat /\ Popped \in Nat /\ Sent \in Nat
    BY <1>1, Numbers
  <2>5. QED BY <1>3, <2>1, <2>2, <2>3, <2>4
<1>6. ASSUME NEW q \in Packets, given[q] # None
      PROVE  q < reading /\ given[q] < answer
  BY <1>1, <1>2, <1>3, <1>6 DEF OrderInv
<1>7. ASSUME noise = 0
      PROVE  /\ answer \in reading..(reading + Missed)
             /\ \A q \in 1..(reading - 1) : given[q] # None
  <2>1. Missed \in Nat /\ reading \in Nat /\ answer \in Nat
    BY <1>1, <1>3, Numbers, Faults
  <2>2. answer >= reading /\ answer <= reading + Missed
    BY <1>1, <1>2, <1>7 DEF MatchInv, Shift
  <2>3. ASSUME NEW q \in 1..(reading - 1) PROVE given[q] # None
    <3>1. q \in Packets /\ q <= Popped /\ q # reading
      <4>1. reading \in 1..MaxPackets /\ MaxPackets \in Nat
        BY <1>3, <1>4, DVSIDeviceAssumption
      <4>2. q \in Nat /\ 1 <= q /\ q <= reading - 1
        BY <2>1
      <4>3. q \in 1..MaxPackets /\ q <= reading /\ q # reading
        BY <2>1, <4>1, <4>2
      <4>4. QED BY <1>3, <1>4, <4>3
    <3>2. \A p \in Packets : p <= Popped =>
            given[p] # None \/ (reader = "process" /\ p = reading)
      BY <1>1, <1>7 DEF MatchInv
    <3>3. QED BY <3>1, <3>2
  <2>4. QED BY <2>1, <2>2, <2>3
<1>8. noise \in Nat /\ UNCHANGED Missed
  BY <1>1, <1>2, Faults DEF Missed
<1>9. Service!Answer(reading, answer)
  BY <1>2, <1>4, <1>5, <1>6, <1>7, <1>8 DEF Service!Answer, Service!Answered
<1>10. QED BY <1>3, <1>9

LEMMA ServiceStep ==
  DeviceInv /\ [Next]_vars => [Service!Next]_(Service!vars)
<1> SUFFICES ASSUME DeviceInv, [Next]_vars PROVE [Service!Next]_(Service!vars)
  OBVIOUS
<1>1. /\ lost \in Nat /\ failed \in Nat /\ noise \in Nat /\ added \in Nat
  BY DVSIDeviceAssumption DEF DeviceInv, TypeOK
<1>2. ASSUME UNCHANGED <<faultless, added, given, lost, failed, noise>>
      PROVE  UNCHANGED Service!vars
  BY <1>2 DEF Service!vars, Missed
<1>3. Next => UNCHANGED faultless
  BY DEF Next
<1>4. CASE Next /\ AddPacket
  <2>1. /\ added' = added + 1 /\ added < MaxPackets
        /\ UNCHANGED <<faultless, given, lost, failed, noise>>
    BY <1>1, <1>3, <1>4, DVSIDeviceAssumption DEF AddPacket, faultVars
  <2>2. QED BY <2>1 DEF Service!Add, Service!Next, Missed
<1>5. CASE Next /\ FeedSend
  <2>1. CASE UNCHANGED failed
    BY <1>2, <1>3, <1>5, <2>1 DEF FeedSend
  <2>2. CASE ~ faultless /\ failed' = failed + 1
    <3>1. Missed' = Missed + 1
      BY <1>1, <1>5, <2>2 DEF FeedSend, Missed
    <3>2. QED
      BY <1>3, <1>5, <2>2, <3>1 DEF FeedSend, Service!Miss, Service!Next
  <2>3. QED BY <1>5, <2>1, <2>2 DEF FeedSend
<1>6. CASE Next /\ ChipLoses
  <2>1. Missed' = Missed + 1
    BY <1>1, <1>6 DEF ChipLoses, Missed
  <2>2. QED BY <1>3, <1>6, <2>1 DEF ChipLoses, Service!Miss, Service!Next
<1>7. CASE Next /\ ChipNoise
  <2>1. (noise' > 0) = TRUE
    BY <1>1, <1>7 DEF ChipNoise
  <2>2. QED
    BY <1>3, <1>7, <2>1 DEF ChipNoise, Service!Spoil, Service!Next, Missed
<1>8. CASE Next /\ ProcessAnswer
  BY <1>3, <1>8, ServiceAnswer
     DEF Service!AnswerNext, Service!Next, Packets, Service!Packets
<1>9. CASE Next /\ (FeedPop \/ FeedRoom \/ FeedPush \/ FeedCount)
  BY <1>2, <1>3, <1>9 DEF FeedPop, FeedRoom, FeedPush, FeedCount, faultVars
<1>10. CASE Next /\ (ReadNothing \/ ReadReset \/ ReadAnswer \/ ProcessPop
                       \/ ProcessNoise \/ ChipAnswer)
  BY <1>2, <1>3, <1>10
     DEF ReadNothing, ReadReset, ReadAnswer, ProcessPop, ProcessNoise,
         ChipAnswer, faultVars
<1>11. CASE UNCHANGED vars
  BY <1>2, <1>11 DEF vars, faultVars
<1>12. QED
  BY <1>4, <1>5, <1>6, <1>7, <1>8, <1>9, <1>10, <1>11
     DEF Next, FeedStep, ReadStep

(* Whatever is late, lost, failed or unexpected, and however the threads   *)
(* and the wrapping count interleave, the controller sees no more than the *)
(* service of AnswerService.  (That packets are answered at all is the     *)
(* liveness the runs check.)                                               *)
THEOREM AnswersSafely ==
  Spec => Service!Init /\ [][Service!Next]_(Service!vars)
<1>1. Init => Service!Init
  BY DEF Init, Service!Init, Packets, Service!Packets, Missed
<1>2. QED BY <1>1, ServiceStep, DeviceSound, PTL DEF Spec
=============================================================================
