-------------------------------- MODULE MCAGC --------------------------------
(***************************************************************************)
(* AGC with samples of four bits: silence, a frame near the target and the *)
(* loudest, gains that make it wrap, and three settings, of which one      *)
(* disables the AGC and the others differ in target and limits.  The       *)
(* lower limit of the first is above the upper one of the third.           *)
(***************************************************************************)
EXTENDS AGC

MCFrames == {<<0, 0>>, <<3, -2>>, <<-8, 6>>}

Usual == [enabled |-> TRUE, target |-> 4, min |-> 4, max |-> 6, attack |-> 4,
          release |-> 1, gate |-> 2, rx |-> 5, out |-> 6, tx |-> 5]

MCConfs == {Usual, [Usual EXCEPT !.enabled = FALSE],
            [Usual EXCEPT !.target = 2, !.min = 2, !.max = 3]}

(* A quiet and a loud frame of one talker, and settings never changed.     *)
MCQuietAndLoud == {<<1, -1>>, <<6, -5>>}

MCUsualOnly == {[Usual EXCEPT !.rx = 4, !.out = 4, !.tx = 4]}
=============================================================================
