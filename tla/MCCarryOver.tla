------------------------------ MODULE MCCarryOver ------------------------------
(***************************************************************************)
(* The three places in which a codec thread carries something over from    *)
(* one frame to the next: the halves of M17 frames (M17Halves), the RAM of *)
(* the MD380 firmware (Md380Cache) and the state of the AGC (MCAGC).  They *)
(* share no variable, so that nothing is lost by looking at one of them in *)
(* every behaviour, with the other two as they are at the start.           *)
(***************************************************************************)
EXTENDS M17Halves, Md380Cache, MCAGC, TLC

VARIABLE looking    \* at which of the three: "halves", "cache" or "agc"

(* No module is treated differently from another. *)
MCSymmetry == Permutations(Modules)

varsAGC == <<confVars, agcVars, frameVars, histVars>>

InitCarry ==
  /\ looking \in {"halves", "cache", "agc"}
  /\ InitHalves /\ InitCache /\ Init
  /\ looking # "agc" => conf = Usual

NextCarry ==
  /\ UNCHANGED looking
  /\ \/ looking = "halves" /\ NextHalves /\ UNCHANGED <<varsCache, varsAGC>>
     \/ looking = "cache" /\ NextCache /\ UNCHANGED <<varsHalves, varsAGC>>
     \/ looking = "agc" /\ Next /\ UNCHANGED <<varsHalves, varsCache>>

SpecCarry == InitCarry /\ [][NextCarry]_<<looking, varsHalves, varsCache, varsAGC>>
=============================================================================
