----------------------------- MODULE DVSIDevice -----------------------------
(***************************************************************************)
(* One CDVDevice with one vocoder channel (a CDV3000, or a channel of a    *)
(* CDV3003): FeedDevice takes packets from input_queue, keeps each in      *)
(* waiting_packet and writes its request to the chip; ReadDevice takes the *)
(* chip's answers and gives each to the packet that has waited longest.    *)
(* An answer says nothing of the packet it is for.  buffer_depth, an       *)
(* unsigned atomic both threads write, is to keep the chip from being fed  *)
(* more than it holds.                                                     *)
(*                                                                         *)
(* Packets are numbered in the order they are added.  A request and its    *)
(* answer carry the number of their packet, which the code cannot see.     *)
(***************************************************************************)
EXTENDS Integers, Sequences

CONSTANTS
  MaxPackets,   \* bound: packets added in one behaviour,
  MaxFaulty,    \* and in one with faults
  MaxDepth,     \* max_depth: 2 for a DV3000, 5 for a DV3003
  Word,         \* how many values buffer_depth has (2^32 in the code)
  MayBeFaultless,   \* the values faultless may have
  MaxLost,      \* bound: answers the chip or the line loses
  MaxFailed,    \* bound: writes to the chip that fail
  MaxNoise,     \* bound: packets from the chip that answer no request
  None

ASSUME DVSIDeviceAssumption ==
  /\ MaxPackets \in Nat /\ MaxFaulty \in 0..MaxPackets
  /\ MaxDepth \in Nat \ {0}
  /\ Word \in Nat /\ Word > MaxDepth
  /\ MayBeFaultless \subseteq BOOLEAN
  /\ MaxLost \in Nat /\ MaxFailed \in Nat /\ MaxNoise \in Nat
  /\ None \notin Nat

Packets == 1..MaxPackets
Noise == 0      \* an answer of an unexpected packet type

VARIABLES
  faultless,    \* is every request written, and answered by one answer?
  added,        \* how many packets have been added
  inputQueue,   \* input_queue
  feeder,       \* where FeedDevice is
  feeding,      \* its packet
  waiting,      \* waiting_packet
  chip,         \* requests in the chip
  rx,           \* answers in the receive buffer of the driver
  reader,       \* where ReadDevice is
  answer,       \* the answer it has read
  reading,      \* the packet it has popped for that answer
  depth,        \* buffer_depth
  given,        \* the answer every packet was given, or None
  lost, failed, noise   \* how many of each fault there have been

feederVars == <<feeder, feeding>>
readerVars == <<reader, answer, reading>>
faultVars == <<lost, failed, noise>>
vars == <<faultless, added, inputQueue, feederVars, waiting, chip, rx, readerVars,
          depth, given, faultVars>>

Init ==
  /\ faultless \in MayBeFaultless
  /\ added = 0
  /\ inputQueue = <<>>
  /\ feeder = "pop" /\ feeding = None
  /\ waiting = <<>>
  /\ chip = <<>>
  /\ rx = <<>>
  /\ reader = "wait" /\ answer = None /\ reading = None
  /\ depth = 0
  /\ given = [p \in Packets |-> None]
  /\ lost = 0 /\ failed = 0 /\ noise = 0

Plus1(d) == (d + 1) % Word
Minus1(d) == (d + Word - 1) % Word
-----------------------------------------------------------------------------
(* A packet is queued, however long the queue is: the message about        *)
(* dropping it beyond 200 drops nothing.                                   *)
AddPacket ==
  /\ added < IF faultless THEN MaxPackets ELSE MaxFaulty   \* the bounds
  /\ added' = added + 1
  /\ inputQueue' = Append(inputQueue, added + 1)
  /\ UNCHANGED <<feederVars, waiting, chip, rx, readerVars, depth, given,
                 faultVars>>

(* FeedDevice.                                                             *)
FeedPop ==
  /\ feeder = "pop"
  /\ inputQueue # <<>>
  /\ feeding' = Head(inputQueue)
  /\ inputQueue' = Tail(inputQueue)
  /\ feeder' = "room"
  /\ UNCHANGED <<added, waiting, chip, rx, readerVars, depth, given, faultVars>>

(* The wait for room ends when there is room, or has expired after 50 ms;  *)
(* what it returns is not looked at.  Any time may pass between two steps, *)
(* so it may expire whatever the chip and the read thread do.              *)
MutantFeedRoomDrop ==   \* a packet for which there is no room is dropped
  /\ feeder = "room"
  /\ feeder' = IF depth < MaxDepth THEN "push" ELSE "pop"
  /\ feeding' = IF depth < MaxDepth THEN feeding ELSE None
  /\ UNCHANGED <<added, inputQueue, waiting, chip, rx, readerVars, depth, given,
                 faultVars>>
MutantFeedRoomWait ==   \* waits for room without a time-out
  /\ feeder = "room"
  /\ depth < MaxDepth
  /\ feeder' = "push"
  /\ UNCHANGED <<added, inputQueue, feeding, waiting, chip, rx, readerVars,
                 depth, given, faultVars>>
FeedRoom ==
  /\ feeder = "room"
  /\ \E expired \in BOOLEAN : expired \/ depth < MaxDepth
  /\ feeder' = "push"
  /\ UNCHANGED <<added, inputQueue, feeding, waiting, chip, rx, readerVars,
                 depth, given, faultVars>>

FeedPush ==
  /\ feeder = "push"
  /\ waiting' = Append(waiting, feeding)
  /\ feeder' = "send"
  /\ UNCHANGED <<added, inputQueue, feeding, chip, rx, readerVars, depth,
                 given, faultVars>>

(* SendData or SendAudio; that a write has failed is printed and ignored.  *)
FeedSend ==
  /\ feeder = "send"
  /\ \/ chip' = Append(chip, feeding) /\ UNCHANGED failed
     \/ ~ faultless /\ failed < MaxFailed /\ failed' = failed + 1 /\ UNCHANGED chip
  /\ feeder' = "count"
  /\ UNCHANGED <<added, inputQueue, feeding, waiting, rx, readerVars, depth,
                 given, lost, noise>>

FeedCount ==
  /\ feeder = "count"
  /\ depth' = Plus1(depth)
  /\ feeder' = "pop"
  /\ feeding' = None
  /\ UNCHANGED <<added, inputQueue, waiting, chip, rx, readerVars, given,
                 faultVars>>

-----------------------------------------------------------------------------
(* The chip and the line (external): requests are answered in order.       *)

ChipAnswer ==
  /\ chip # <<>>
  /\ rx' = Append(rx, Head(chip))
  /\ chip' = Tail(chip)
  /\ UNCHANGED <<added, inputQueue, feederVars, waiting, readerVars, depth,
                 given, faultVars>>

ChipLoses ==
  /\ ~ faultless /\ lost < MaxLost
  /\ chip # <<>>
  /\ chip' = Tail(chip)
  /\ lost' = lost + 1
  /\ UNCHANGED <<added, inputQueue, feederVars, waiting, rx, readerVars, depth,
                 given, failed, noise>>

ChipNoise ==
  /\ ~ faultless /\ noise < MaxNoise
  /\ rx' = Append(rx, Noise)
  /\ noise' = noise + 1
  /\ UNCHANGED <<added, inputQueue, feederVars, waiting, chip, readerVars,
                 depth, given, lost, failed>>

-----------------------------------------------------------------------------
(* ReadDevice.  With no byte there after a wait, and packets counted in    *)
(* the chip, the count is set to 0: bytes may come in between.  The wait   *)
(* may have begun before the requests were written, and may end without    *)
(* the event; so it may find nothing at any time.                          *)

ReadNothing ==
  /\ reader = "wait"
  /\ rx = <<>>
  /\ depth > 0
  /\ reader' = "reset"
  /\ UNCHANGED <<added, inputQueue, feederVars, waiting, chip, rx, answer,
                 reading, depth, given, faultVars>>

MutantReadResetClears ==   \* also forgets who is waiting
  /\ reader = "reset"
  /\ depth' = 0
  /\ waiting' = <<>>
  /\ reader' = "wait"
  /\ UNCHANGED <<added, inputQueue, feederVars, chip, rx, answer, reading,
                 given, faultVars>>
MutantReadResetNot ==   \* does not set the count back
  /\ reader = "reset"
  /\ reader' = "wait"
  /\ UNCHANGED <<added, inputQueue, feederVars, waiting, chip, rx, answer,
                 reading, depth, given, faultVars>>
ReadReset ==
  /\ reader = "reset"
  /\ depth' = 0
  /\ reader' = "wait"
  /\ UNCHANGED <<added, inputQueue, feederVars, waiting, chip, rx, answer,
                 reading, given, faultVars>>

(* GetResponse. *)
ReadAnswer ==
  /\ reader = "wait"
  /\ rx # <<>>
  /\ answer' = Head(rx)
  /\ rx' = Tail(rx)
  /\ reader' = "pop"
  /\ UNCHANGED <<added, inputQueue, feederVars, waiting, chip, reading, depth,
                 given, faultVars>>

(* ProcessPacket: the oldest waiting packet is popped before the answer is *)
(* looked at; with none waiting the thread blocks here.                    *)
MutantProcessPop ==   \* the newest waiting packet
  /\ reader = "pop"
  /\ waiting # <<>>
  /\ reading' = waiting[Len(waiting)]
  /\ waiting' = SubSeq(waiting, 1, Len(waiting) - 1)
  /\ reader' = "process"
  /\ UNCHANGED <<added, inputQueue, feederVars, chip, rx, answer, depth, given,
                 faultVars>>
ProcessPop ==
  /\ reader = "pop"
  /\ waiting # <<>>
  /\ reading' = Head(waiting)
  /\ waiting' = Tail(waiting)
  /\ reader' = "process"
  /\ UNCHANGED <<added, inputQueue, feederVars, chip, rx, answer, depth, given,
                 faultVars>>

ReaderBack == reader' = "wait" /\ answer' = None /\ reading' = None

ProcessAnswer ==
  /\ reader = "process"
  /\ answer # Noise
  /\ depth' = Minus1(depth)
  /\ given' = [given EXCEPT ![reading] = answer]
  /\ ReaderBack
  /\ UNCHANGED <<added, inputQueue, feederVars, waiting, chip, rx, faultVars>>

(* An unexpected packet is printed; the packet popped for it is gone. *)
ProcessNoise ==
  /\ reader = "process"
  /\ answer = Noise
  /\ ReaderBack
  /\ UNCHANGED <<added, inputQueue, feederVars, waiting, chip, rx, depth, given,
                 faultVars>>

-----------------------------------------------------------------------------
FeedStep == FeedPop \/ FeedRoom \/ FeedPush \/ FeedSend \/ FeedCount
ReadStep == ReadNothing \/ ReadReset \/ ReadAnswer
              \/ ProcessPop \/ ProcessAnswer \/ ProcessNoise

Next ==
  /\ AddPacket \/ FeedStep \/ ReadStep \/ ChipAnswer \/ ChipLoses \/ ChipNoise
  /\ UNCHANGED faultless

(* Both threads run; the chip goes on answering. *)
Fairness ==
  /\ WF_vars(FeedStep /\ UNCHANGED faultless)
  /\ WF_vars(ReadStep /\ UNCHANGED faultless)
  /\ WF_vars(ChipAnswer /\ UNCHANGED faultless)

Spec == Init /\ [][Next]_vars
FairSpec == Spec /\ Fairness

-----------------------------------------------------------------------------
(* Properties.                                                             *)

Answers == Packets \cup {Noise}

TypeOK ==
  /\ faultless \in MayBeFaultless
  /\ added \in 0..MaxPackets
  /\ inputQueue \in Seq(Packets)
  /\ feeder \in {"pop", "room", "push", "send", "count"}
  /\ feeding \in Packets \cup {None}
  /\ waiting \in Seq(Packets)
  /\ chip \in Seq(Packets)
  /\ rx \in Seq(Answers)
  /\ reader \in {"wait", "reset", "pop", "process"}
  /\ answer \in Answers \cup {None}
  /\ reading \in Packets \cup {None}
  /\ depth \in 0..(Word - 1)
  /\ given \in [Packets -> Packets \cup {None}]
  /\ lost \in 0..MaxLost /\ failed \in 0..MaxFailed /\ noise \in 0..MaxNoise

AtInv ==
  /\ feeder # "pop" => feeding \in Packets
  /\ IF reader \in {"pop", "process"} THEN answer \in Answers ELSE answer = None
  /\ reader = "process" => reading \in Packets

(* Every packet is given the answer to its own request.                    *)
OwnAnswer == \A p \in Packets : given[p] \in {None, p}

(* It is as long as every request is written and answered, however late    *)
(* the answers are, though they are matched by order alone and two threads *)
(* share the queue of the waiting.                                         *)
OwnAnswerWithoutFaults == faultless => OwnAnswer

(* An answer always finds a packet waiting, so the read thread never       *)
(* blocks for good in PopWaitingPacket: not even with lost and late        *)
(* answers and failed writes, which only leave packets waiting too many.   *)
(* Only a packet of an unexpected type takes a waiting packet in vain.     *)
ReaderNeverBlocks == noise = 0 /\ reader = "pop" => waiting # <<>>

(* Whatever is lost or late, a packet is never given the answer to an      *)
(* earlier request, nor two packets answers in the wrong order: a stream   *)
(* is set back against its packets, by no more than there were writes that *)
(* failed and answers lost, and not scrambled.  An unexpected packet may   *)
(* set it forward instead, but does not scramble it either.                *)
Missed == lost + failed

AnswersInOrder ==
  \A p, q \in Packets :
    /\ noise = 0 /\ given[p] # None => given[p] \in p..(p + Missed)
    /\ p < q /\ given[p] # None /\ given[q] # None => given[p] < given[q]

(* Why: what DeviceInv says, beside the types.  Packets go through the     *)
(* device in the order they were added, so their numbers say where each    *)
(* one is: those up to Fed have been made to wait, those up to Popped are  *)
(* no longer waiting, those up to Sent have been written.                  *)
Fed == added - Len(inputQueue) - (IF feeder \in {"room", "push"} THEN 1 ELSE 0)
Popped == Fed - Len(waiting)
Sent == Fed - (IF feeder = "send" THEN 1 ELSE 0)

QueueInv ==
  /\ Popped >= 0
  /\ \A i \in DOMAIN inputQueue :
       inputQueue[i] = (added - Len(inputQueue)) + i
  /\ feeder # "pop" => feeding = added - Len(inputQueue)
  /\ \A i \in DOMAIN waiting : waiting[i] = Popped + i
  /\ reader = "process" => reading = Popped

(* Answers come in the order of their requests, and after all that have    *)
(* been given to a packet.                                                 *)
OrderInv ==
  /\ \A i, j \in DOMAIN rx :
       i < j /\ rx[i] # Noise /\ rx[j] # Noise => rx[i] < rx[j]
  /\ \A i, j \in DOMAIN chip : i < j => chip[i] < chip[j]
  /\ \A i \in DOMAIN rx : \A j \in DOMAIN chip : rx[i] < chip[j]
  /\ \A i \in DOMAIN rx : rx[i] <= Sent
  /\ \A j \in DOMAIN chip : chip[j] <= Sent
  /\ answer \in Packets =>
       /\ answer <= Sent
       /\ \A i \in DOMAIN rx : rx[i] # Noise => answer < rx[i]
       /\ \A j \in DOMAIN chip : answer < chip[j]
  /\ \A p \in Packets : given[p] # None =>
       /\ p <= Popped /\ (reader = "process" => p < Popped)
       /\ given[p] <= Sent
       /\ answer \in Packets => given[p] < answer
       /\ \A i \in DOMAIN rx : rx[i] # Noise => given[p] < rx[i]
       /\ \A j \in DOMAIN chip : given[p] < chip[j]
  /\ \A p, q \in Packets :
       p < q /\ given[p] # None /\ given[q] # None => given[p] < given[q]

(* The packets waiting are as many as the answers to come and those that   *)
(* were missed, and no answer is for an earlier packet than the one it     *)
(* will be given to, nor for one that is later by more than were missed.   *)
(* No packet is passed over.                                               *)
Ahead == IF reader = "pop" THEN 1 ELSE 0
Due == Ahead + Len(rx) + Len(chip) + (IF feeder = "send" THEN 1 ELSE 0)
Shift(a, p) == a # Noise /\ a >= p /\ a <= p + Missed

MatchInv ==
  /\ faultless => lost = 0 /\ failed = 0 /\ noise = 0
  /\ noise = 0 =>
       /\ Due + Missed = Len(waiting)
       /\ reader = "pop" => Shift(answer, Popped + 1)
       /\ reader = "process" => Shift(answer, reading)
       /\ \A i \in DOMAIN rx : Shift(rx[i], Popped + Ahead + i)
       /\ \A i \in DOMAIN chip : Shift(chip[i], Popped + Ahead + Len(rx) + i)
       /\ \A p \in Packets : given[p] # None => Shift(given[p], p)
       /\ \A p \in Packets : p <= Popped =>
            given[p] # None \/ (reader = "process" /\ p = reading)

DeviceInv ==
  TypeOK /\ AtInv /\ QueueInv /\ OrderInv /\ MatchInv

(* Every packet added is eventually fed: neither a lost answer nor a       *)
(* count gone wrong keeps FeedDevice from its queue for ever.              *)
Unfed(p) ==
  \/ \E i \in DOMAIN inputQueue : inputQueue[i] = p
  \/ feeding = p /\ feeder # "count"

EveryPacketFed == \A p \in Packets : Unfed(p) ~> ~ Unfed(p)

(* Once no more packets come, the count goes back to 0: answers that are   *)
(* late, lost or counted before their request (which wraps the unsigned    *)
(* count to its largest value) do not throttle the device for ever.  (An   *)
(* unexpected packet may block the read thread, and the count with it.)    *)
CountHeals == <>[](noise > 0 \/ depth = 0)

(* The device is to the controller what AnswerService says: packets are    *)
(* answered in their order, set back by no more than was missed, and when  *)
(* nothing is missed every packet added gets its own answer, though all    *)
(* that is between is two queues and two threads.                          *)
Service == INSTANCE AnswerService WITH missed <- Missed, spoilt <- noise > 0

AnswerServiceSpec == Service!Spec
=============================================================================
