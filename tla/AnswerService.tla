--------------------------- MODULE AnswerService ---------------------------
(***************************************************************************)
(* What a DVSI device promises the controller, whatever goes wrong on the  *)
(* way to its chip.  Packets are answered once, one after the other in the *)
(* order in which they were added, with the answers to their own requests; *)
(* every request or answer that is missed may set later packets back by    *)
(* one answer, but never more.  Only after an answer to nothing may a      *)
(* packet be passed over, or be given an answer that is too old.  If there *)
(* are no faults nothing is missed, and every packet gets its answer.      *)
(* Packets, and the answers to their requests, are numbered in the order   *)
(* in which packets are added.                                             *)
(***************************************************************************)
EXTENDS Naturals

CONSTANTS
  MaxPackets,   \* bound: how many packets are added in one behaviour
  MayBeFaultless,   \* the values faultless may have
  None

VARIABLES
  faultless,    \* is every request written, and answered by one answer?
  added,        \* how many packets have been added
  given,        \* the answer every packet was given, or None
  missed,       \* how many requests or answers have been missed
  spoilt        \* has there been an answer to nothing?

vars == <<faultless, added, given, missed, spoilt>>

Packets == 1..MaxPackets
Answered(p) == given[p] # None

Init ==
  /\ faultless \in MayBeFaultless
  /\ added = 0
  /\ given = [p \in Packets |-> None]
  /\ missed = 0
  /\ spoilt = FALSE

Add ==
  /\ added < MaxPackets
  /\ added' = added + 1
  /\ UNCHANGED <<faultless, given, missed, spoilt>>

Miss ==
  /\ ~ faultless
  /\ missed' = missed + 1
  /\ UNCHANGED <<faultless, added, given, spoilt>>

Spoil ==
  /\ ~ faultless
  /\ spoilt' = TRUE
  /\ UNCHANGED <<faultless, added, given, missed>>

(* Packet p is given the answer to the request of packet a. *)
Answer(p, a) ==
  /\ p \in 1..added /\ a \in 1..added
  /\ \A q \in Packets : Answered(q) => q < p /\ given[q] < a
  /\ ~ spoilt =>
       /\ a \in p..(p + missed)
       /\ \A q \in 1..(p - 1) : Answered(q)
  /\ given' = [given EXCEPT ![p] = a]
  /\ UNCHANGED <<faultless, added, missed, spoilt>>

AnswerNext == \E p, a \in Packets : Answer(p, a)

Next == Add \/ Miss \/ Spoil \/ AnswerNext

Spec == Init /\ [][Next]_vars /\ WF_vars(faultless /\ AnswerNext)
=============================================================================
