-------------------------- MODULE TranscodeService --------------------------
(***************************************************************************)
(* What tcd promises the reflector, whatever vocoder does the work: every  *)
(* frame taken in is given back at most once, frames that came in with the *)
(* same codec are given back in the order they came in, and a frame is     *)
(* only discarded by giving up on the connection.  Frames are numbered in  *)
(* order of arrival.                                                       *)
(***************************************************************************)
EXTENDS Naturals, Sequences

CONSTANTS
  MaxPackets,   \* bound: how many frames arrive in one behaviour
  CodecsIn,     \* the codec_in values that arrive
  Promised,     \* those of them whose frames are sure to leave
  Absent        \* codec_in of a frame that has not arrived

VARIABLES
  codecIn,      \* codec_in of every frame, or Absent
  delivered,    \* the frames given back, in order
  dropped       \* the frames given up

vars == <<codecIn, delivered, dropped>>

Packets == 1..MaxPackets

Arrived == {p \in Packets : codecIn[p] # Absent}
Delivered == {delivered[i] : i \in DOMAIN delivered}
Inside == (Arrived \ Delivered) \ dropped

Init ==
  /\ codecIn = [p \in Packets |-> Absent]
  /\ delivered = <<>>
  /\ dropped = {}

Accept(p, c) ==
  /\ codecIn[p] = Absent
  /\ \A q \in Packets : q < p => codecIn[q] # Absent
  /\ codecIn' = [codecIn EXCEPT ![p] = c]
  /\ UNCHANGED <<delivered, dropped>>

Deliver(p) ==
  /\ p \in Inside
  /\ \A q \in Delivered : codecIn[q] = codecIn[p] => q < p
  /\ delivered' = Append(delivered, p)
  /\ UNCHANGED <<codecIn, dropped>>

Drop(p) ==
  /\ p \in Inside
  /\ dropped' = dropped \cup {p}
  /\ UNCHANGED <<codecIn, delivered>>

Leave(p) == Deliver(p) \/ Drop(p)

Next == \E p \in Packets : Leave(p) \/ \E c \in CodecsIn : Accept(p, c)

Fairness == \A p \in Packets : WF_vars(codecIn[p] \in Promised /\ Leave(p))

Spec == Init /\ [][Next]_vars /\ Fairness
=============================================================================
