---------------------------------- MODULE AGC ----------------------------------
(***************************************************************************)
(* What the frames of one stream go through on their way from decoder to   *)
(* encoder: the gain of the decoder (into 16 bits, without a clamp),       *)
(* CAGC::ProcessCore with the state kept for the stream, the output gain   *)
(* (with a clamp), and the gain of the encoder (without).  The settings    *)
(* may be changed at any time by the reflector thread, without a lock.     *)
(*                                                                         *)
(* A frame is two samples for 160; its root mean square is taken for the   *)
(* mean of their absolute values.  Gains and numerators are fixed-point    *)
(* numbers, of which Unity is 1.0.                                         *)
(***************************************************************************)
EXTENDS Integers, Sequences

CONSTANTS
  Width,            \* bits of a sample (16)
  Unity,            \* the gain 1.0 (256 of a numerator)
  Whole,            \* the alpha 1.0
  Headroom,         \* what the peak limiter leaves (32000)
  MinGain, MaxGain, \* the lowest and highest gain there may be
  Frames,           \* the frames decoded
  Confs,            \* the settings
  None

Half == 2^(Width - 1)
Samples == -Half..(Half - 1)
Alphas == 1..Whole

Settings == [enabled : BOOLEAN, target : Nat, min : Nat, max : Nat,
             attack : Alphas, release : Alphas, gate : Nat \ {0},
             rx : Nat, out : Nat, tx : Nat]

ASSUME AGCAssumption ==
  /\ Width \in Nat \ {0} /\ Half \in Nat \ {0}
  /\ Unity \in Nat \ {0} /\ Headroom \in 0..(Half - 1)
  /\ Whole \in Nat /\ Whole >= 2
  /\ MinGain \in Nat /\ MaxGain \in Nat
  /\ MinGain <= Unity /\ Unity <= MaxGain
  /\ Frames \subseteq Samples \X Samples
  /\ Confs \subseteq Settings
  /\ None \notin Settings /\ None \notin Int

(* MinGain and MaxGain span the limits of all settings, 0 dB, where every  *)
(* stream starts, and what the peak limiter allows the loudest sample.     *)
(* Nothing is assumed of a setting: tcd takes any limits, from the file or *)
(* from a request, those above or below 0 dB and a min above its max, too. *)
ASSUME LimitsAssumption ==
  /\ \A c \in Confs : c.min \in MinGain..MaxGain /\ c.max \in MinGain..MaxGain
  /\ \A peak \in 1..Half : MinGain <= (Headroom * Unity) \div peak

VARIABLES
  conf,             \* the settings in force
  pending,          \* those ReconfigureAGC is putting in force, or None
  gain, avgGain,    \* of AGCState
  window,           \* rmsHistory: the levels of the last three frames
  gateFrames,       \* capped: only more than 5 is told from 5
  wasGated, postGateFrames,
  raw,              \* the last frame, as decoded
  output,           \* with the AGC and the output gain
  used,             \* the gains of decoder and encoder it got
  before,           \* history: the gain before it
  applied,          \* history: the gain of the AGC it got, or None
  onset             \* history: the gain at the start of a pause, or None

confVars == <<conf, pending>>
agcVars == <<gain, avgGain, window, gateFrames, wasGated, postGateFrames>>
frameVars == <<raw, output, used>>
histVars == <<before, applied, onset>>
vars == <<confVars, agcVars, frameVars, histVars>>

Silence == <<0, 0>>

Init ==
  /\ conf \in Confs /\ pending = None
  /\ gain = Unity /\ avgGain = Unity
  /\ window = <<>>
  /\ gateFrames = 0 /\ wasGated = FALSE /\ postGateFrames = 0
  /\ raw = Silence /\ output = Silence /\ used = [rx |-> Unity, tx |-> Unity]
  /\ before = Unity /\ applied = None /\ onset = None

-----------------------------------------------------------------------------
(* Arithmetic of samples and gains.                                        *)

Abs(v) == IF v < 0 THEN -v ELSE v
Clamp(v, lo, hi) == IF v < lo THEN lo ELSE IF v > hi THEN hi ELSE v
Trunc(v, d) == IF v < 0 THEN -((-v) \div d) ELSE v \div d
Wrap(v) == ((v + Half) % (2 * Half)) - Half

(* The gains of decoders and encoders: int16_t((tmp[i] * num) >> 8). *)
CodecGain(f, num) ==
  <<Wrap((f[1] * num) \div Unity), Wrap((f[2] * num) \div Unity)>>

Coded(f, num) == IF num = Unity THEN f ELSE CodecGain(f, num)

MutantApplyGain(f, num) == CodecGain(f, num)   \* without the clamp
ApplyGain(f, num) ==
  <<Clamp((f[1] * num) \div Unity, -Half, Half - 1),
    Clamp((f[2] * num) \div Unity, -Half, Half - 1)>>

Amplified(f, g) ==
  <<Clamp(Trunc(f[1] * g, Unity), -(Half - 1), Half - 1),
    Clamp(Trunc(f[2] * g, Unity), -(Half - 1), Half - 1)>>

Peak(f) == IF Abs(f[1]) > Abs(f[2]) THEN Abs(f[1]) ELSE Abs(f[2])
Level(f) == (Abs(f[1]) + Abs(f[2])) \div 2

(* The window with one more level, and the mean of a window. *)
Slide(w, level) ==
  IF Len(w) = 3 THEN <<w[2], w[3], level>> ELSE Append(w, level)
Mean(w) ==
  IF Len(w) = 1 THEN w[1]
  ELSE IF Len(w) = 2 THEN (w[1] + w[2]) \div 2
  ELSE (w[1] + w[2] + w[3]) \div 3

(* std::clamp.  With a lower limit above the upper one it is undefined, and *)
(* one of the two comes out, depending on how the library is written.      *)
Limited(g, lo, hi) == IF lo <= hi THEN {Clamp(g, lo, hi)} ELSE {lo, hi}

(* The gain that brings a level to the target, within its limits, and not  *)
(* above what the loudest sample allows.                                   *)
PeakLimit(peak) == (Headroom * Unity) \div (IF peak = 0 THEN 1 ELSE peak)
AtMostPeak(g, peak) == IF g > PeakLimit(peak) THEN PeakLimit(peak) ELSE g
MutantDesiredRange(rms, peak, c) ==   \* limits for amplification only
  LET g == (c.target * Unity) \div rms
  IN {AtMostPeak(IF g > c.max THEN c.max ELSE g, peak)}
Desired(rms, peak, c) ==
  {AtMostPeak(g, peak) : g \in Limited((c.target * Unity) \div rms, c.min, c.max)}

(* x += alpha * (y - x): at least a unit of the way, as y is reached in    *)
(* the end, and at most all of it.                                         *)
Toward(x, y, alpha) ==
  LET part == (alpha * Abs(y - x) + Whole - 1) \div Whole
  IN IF y < x THEN x - part ELSE x + part

(* The same with an alpha of 0.01 or 0.02, of which several make a unit. *)
Creep(x, y) == {x, IF y < x THEN x - 1 ELSE IF y > x THEN x + 1 ELSE x}

FastRelease(alpha) ==
  IF 5 * alpha > Whole \div 2 THEN Whole \div 2 ELSE 5 * alpha

(* The first five frames after a pause are released faster. *)
Alpha(desired, c) ==
  IF desired < gain THEN c.attack
  ELSE IF wasGated /\ postGateFrames < 5 THEN FastRelease(c.release)
  ELSE c.release

-----------------------------------------------------------------------------
(* ReconfigureAGC writes one setting after the other, while other threads  *)
(* read them: a frame may meet any mixture of old and new.                 *)

Reconfigure ==
  /\ pending = None
  /\ pending' \in Confs \ {conf}
  /\ UNCHANGED <<conf, agcVars, frameVars, histVars>>

Reconfigured ==
  /\ pending # None
  /\ conf' = pending
  /\ pending' = None
  /\ UNCHANGED <<agcVars, frameVars, histVars>>

InForce ==
  IF pending = None THEN {conf}
  ELSE [enabled : {conf.enabled, pending.enabled},
        target : {conf.target, pending.target},
        min : {conf.min, pending.min}, max : {conf.max, pending.max},
        attack : {conf.attack, pending.attack},
        release : {conf.release, pending.release},
        gate : {conf.gate, pending.gate},
        rx : {conf.rx, pending.rx}, out : {conf.out, pending.out},
        tx : {conf.tx, pending.tx}]

(* A frame is decoded, and encoded when the AGC is done with it. *)
Decode(f, c) ==
  raw' = f /\ used' = [rx |-> c.rx, tx |-> c.tx] /\ before' = gain
Encode(f, c, g) ==
  /\ output' = IF c.out = Unity THEN f ELSE ApplyGain(f, c.out)
  /\ applied' = g

(* Process with the AGC disabled. *)
Bypass(f, c) ==
  /\ ~ c.enabled
  /\ Decode(f, c)
  /\ Encode(Coded(f, c.rx), c, None)
  /\ UNCHANGED <<confVars, agcVars, onset>>

Measured(f, c) ==
  /\ Decode(f, c)
  /\ window' = Slide(window, Level(Coded(f, c.rx)))

(* ProcessCore below the noise gate: the frame is left as it is, the gain  *)
(* too, for five frames; from then on it drifts to its long-term average.  *)
MutantGated(f, c) ==   \* the gain drifts to 0 dB
  /\ c.enabled
  /\ Measured(f, c)
  /\ Mean(window') < c.gate
  /\ gateFrames' = IF gateFrames > 5 THEN 6 ELSE gateFrames + 1
  /\ wasGated' = TRUE
  /\ postGateFrames' = 0
  /\ gain' \in IF gateFrames' > 5 THEN Creep(gain, Unity) ELSE {gain}
  /\ onset' = IF onset = None THEN gain ELSE onset
  /\ Encode(Coded(f, c.rx), c, None)
  /\ UNCHANGED <<confVars, avgGain>>
Gated(f, c) ==
  /\ c.enabled
  /\ Measured(f, c)
  /\ Mean(window') < c.gate
  /\ gateFrames' = IF gateFrames > 5 THEN 6 ELSE gateFrames + 1
  /\ wasGated' = TRUE
  /\ postGateFrames' = 0
  /\ gain' \in IF gateFrames' > 5 THEN Creep(gain, avgGain) ELSE {gain}
  /\ onset' = IF onset = None THEN gain ELSE onset
  /\ Encode(Coded(f, c.rx), c, None)
  /\ UNCHANGED <<confVars, avgGain>>

(* ProcessCore above it. *)
Speech(f, c) ==
  /\ c.enabled
  /\ Measured(f, c)
  /\ Mean(window') >= c.gate
  /\ \E desired \in Desired(Mean(window'), Peak(Coded(f, c.rx)), c) :
       gain' = Toward(gain, desired, Alpha(desired, c))
  /\ avgGain' \in Creep(avgGain, gain')
  /\ postGateFrames' = IF wasGated THEN postGateFrames + 1 ELSE postGateFrames
  /\ wasGated' = (wasGated /\ postGateFrames' < 5)
  /\ gateFrames' = 0
  /\ onset' = None
  /\ Encode(Amplified(Coded(f, c.rx), gain'), c, gain')
  /\ UNCHANGED confVars

Process(f, c) == Bypass(f, c) \/ Gated(f, c) \/ Speech(f, c)
Frame(f) == \E c \in InForce : Process(f, c)

-----------------------------------------------------------------------------
Next == Reconfigure \/ Reconfigured \/ \E f \in Frames : Frame(f)

Spec == Init /\ [][Next]_vars

-----------------------------------------------------------------------------
(* Properties.                                                             *)

(* Neither the gain nor its average ever leaves the span of the limits     *)
(* that were ever set, whatever the frames, though a frame may meet the    *)
(* lower limit of the old settings with the upper one of the new, and the  *)
(* lower one may then be above the upper one.                              *)
GainInReach == gain \in MinGain..MaxGain /\ avgGain \in MinGain..MaxGain

(* "Gate with gain decay": in a pause the gain is held for five frames and *)
(* then only moves from where it was towards the talker's average, so that *)
(* background noise is never what it adapts to, however long the pause.    *)
Between(v, a, b) == (a <= v /\ v <= b) \/ (b <= v /\ v <= a)

HeldDuringPause ==
  onset # None => /\ Between(gain, onset, avgGain)
                  /\ gateFrames <= 5 => gain = onset

(* "Peak limiter: hard limit at -0.1 dBFS, never clips": no sample of a    *)
(* frame is too large for 16 bits with the gain that the AGC applies to it. *)
Clipped ==
  /\ applied # None
  /\ Peak(Coded(raw, used.rx)) * applied > (Half - 1) * Unity

NeverClips == ~ Clipped

(* What is left of it: the gain aimed at is limited, not the one applied,  *)
(* which clips only as long as it is coming down.                          *)
ClipsOnlyComingDown == Clipped => applied < before

(* A sample is encoded with its sign, if at all, unless the gain of its    *)
(* decoder or of its encoder takes it out of 16 bits: neither the AGC nor  *)
(* the output gain ever makes one wrap.                                    *)
Fits(v, num) == (v * num) \div Unity \in Samples

SignKept ==
  \A i \in 1..2 :
    Fits(raw[i], used.rx) /\ Fits(output[i], used.tx)
      => raw[i] * Coded(output, used.tx)[i] >= 0
=============================================================================
