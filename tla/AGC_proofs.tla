------------------------------ MODULE AGC_proofs ------------------------------
(***************************************************************************)
(* Theorem about the AGC: its gain stays within the limits, for samples of *)
(* any width, any frames and settings, and settings changed in between.    *)
(***************************************************************************)
EXTENDS AGC, TLAPS

(* A quotient of natural numbers is the number of times it goes. *)
LEMMA Quotient ==
  ASSUME NEW a \in Nat, NEW b \in Nat \ {0}
  PROVE  /\ a \div b \in Nat
         /\ b * (a \div b) <= a
         /\ a < b * ((a \div b) + 1)
  BY SMT

LEMMA QuotientInt ==
  ASSUME NEW a \in Int, NEW b \in Nat \ {0}
  PROVE  a \div b \in Int
  BY SMT

LEMMA Remainder ==
  ASSUME NEW a \in Int, NEW b \in Nat \ {0}
  PROVE  a % b \in 0..(b - 1)
  BY SMT

LEMMA TimesMonotone ==
  ASSUME NEW a \in Nat, NEW b \in Nat, NEW d \in Nat, a <= b
  PROVE  a * d <= b * d
  BY SMT

LEMMA LessByFactor ==
  ASSUME NEW w \in Nat \ {0}, NEW p \in Nat, NEW q \in Nat, w * p < w * q
  PROVE  p < q
  BY SMT

(* A step towards y never passes it, whatever the alpha.                   *)
LEMMA TowardBetween ==
  ASSUME NEW x \in Nat, NEW y \in Nat, NEW alpha \in Alphas
  PROVE  /\ Toward(x, y, alpha) \in Int
         /\ Between(Toward(x, y, alpha), x, y)
<1> DEFINE d == Abs(y - x)
           part == (alpha * d + Whole - 1) \div Whole
<1>1. /\ Whole \in Nat \ {0} /\ alpha \in Nat /\ alpha <= Whole
      /\ alpha * d \in Nat
  BY AGCAssumption DEF AGCAssumption, Alphas, Abs
<1>2. d \in Nat /\ (y < x => d = x - y) /\ (x <= y => d = y - x)
  BY DEF Abs
<1> HIDE DEF d
<1>3. alpha * d <= Whole * d
  BY <1>1, <1>2, TimesMonotone
<1>4. alpha * d + Whole - 1 \in Nat
  BY <1>1
<1>5. part \in Nat /\ Whole * part <= alpha * d + Whole - 1
  BY <1>1, <1>4, Quotient
<1> HIDE DEF part
<1>6. Whole * part < Whole * (d + 1)
  BY <1>1, <1>2, <1>3, <1>5
<1>7. part <= d
  BY <1>1, <1>2, <1>5, <1>6, LessByFactor
<1>8. Toward(x, y, alpha) = IF y < x THEN x - part ELSE x + part
  BY DEF Toward, d, part
<1>9. QED
  BY <1>2, <1>5, <1>7, <1>8 DEF Between

(* What is between two gains within the limits is within them, too.        *)
LEMMA BetweenInReach ==
  ASSUME NEW v \in Int, NEW a \in MinGain..MaxGain, NEW b \in MinGain..MaxGain,
         Between(v, a, b)
  PROVE  v \in MinGain..MaxGain
  BY AGCAssumption DEF AGCAssumption, Between

LEMMA CreepInReach ==
  ASSUME NEW a \in MinGain..MaxGain, NEW b \in MinGain..MaxGain,
         NEW v \in Creep(a, b)
  PROVE  v \in MinGain..MaxGain
  BY AGCAssumption DEF AGCAssumption, Creep

(* A decoded frame consists of samples, whatever the gain of its decoder.  *)
LEMMA WrapInSamples ==
  ASSUME NEW v \in Int
  PROVE  Wrap(v) \in Samples
<1>1. Half \in Nat \ {0} /\ 2 * Half \in Nat \ {0}
  BY AGCAssumption DEF AGCAssumption
<1>2. (v + Half) % (2 * Half) \in 0..(2 * Half - 1)
  BY <1>1, Remainder
<1>3. QED
  BY <1>1, <1>2 DEF Wrap, Samples

LEMMA CodedInSamples ==
  ASSUME NEW f \in Samples \X Samples, NEW num \in Nat
  PROVE  Coded(f, num) \in Samples \X Samples
<1>1. Half \in Nat \ {0} /\ Unity \in Nat \ {0}
  BY AGCAssumption DEF AGCAssumption
<1>2. f[1] \in Int /\ f[2] \in Int /\ f[1] * num \in Int /\ f[2] * num \in Int
  BY <1>1 DEF Samples
<1>3. (f[1] * num) \div Unity \in Int /\ (f[2] * num) \div Unity \in Int
  BY <1>1, <1>2, QuotientInt
<1>4. CodecGain(f, num) \in Samples \X Samples
  BY <1>3, WrapInSamples DEF CodecGain
<1>5. QED
  BY <1>4 DEF Coded

LEMMA PeakInRange ==
  ASSUME NEW f \in Samples \X Samples
  PROVE  Peak(f) \in 0..Half
  BY AGCAssumption DEF AGCAssumption, Samples, Peak, Abs

LEMMA LevelInNat ==
  ASSUME NEW f \in Samples \X Samples
  PROVE  Level(f) \in Nat
<1>1. Abs(f[1]) + Abs(f[2]) \in Nat
  BY AGCAssumption DEF AGCAssumption, Samples, Abs
<1>2. QED
  BY <1>1, Quotient DEF Level

LEMMA SlideType ==
  ASSUME NEW w \in Seq(Nat), Len(w) <= 3, NEW level \in Nat
  PROVE  /\ Slide(w, level) \in Seq(Nat)
         /\ Len(Slide(w, level)) \in 1..3
<1>1. \A i \in 1..Len(w) : w[i] \in Nat
  OBVIOUS
<1>2. Len(w) \in Nat
  OBVIOUS
<1>3. CASE Len(w) = 3
  <2>1. w[2] \in Nat /\ w[3] \in Nat
    BY <1>1, <1>3
  <2>2. <<w[2], w[3], level>> \in Seq(Nat) /\ Len(<<w[2], w[3], level>>) = 3
    BY <2>1
  <2>3. QED
    BY <1>3, <2>2 DEF Slide
<1>4. CASE Len(w) # 3
  <2>1. Append(w, level) \in Seq(Nat) /\ Len(Append(w, level)) = Len(w) + 1
    OBVIOUS
  <2>2. Slide(w, level) = Append(w, level)
    BY <1>4 DEF Slide
  <2>3. \A n \in Nat : n <= 3 /\ n # 3 => n + 1 \in 1..3
    OBVIOUS
  <2>4. Len(w) + 1 \in 1..3
    BY <1>2, <1>4, <2>3, Zenon
  <2>5. QED
    BY <2>1, <2>2, <2>4
<1>5. QED
  BY <1>3, <1>4

LEMMA MeanInNat ==
  ASSUME NEW w \in Seq(Nat), Len(w) \in 1..3
  PROVE  Mean(w) \in Nat
<1>1. \A i \in 1..Len(w) : w[i] \in Nat
  OBVIOUS
<1>2. CASE Len(w) = 1
  BY <1>1, <1>2 DEF Mean
<1>3. CASE Len(w) = 2
  <2>1. w[1] \in Nat /\ w[2] \in Nat
    BY <1>1, <1>3
  <2>2. w[1] + w[2] \in Nat
    BY <2>1
  <2>3. QED
    BY <1>3, <2>2, Quotient DEF Mean
<1>4. CASE Len(w) = 3
  <2>1. w[1] \in Nat /\ w[2] \in Nat /\ w[3] \in Nat
    BY <1>1, <1>4
  <2>2. w[1] + w[2] + w[3] \in Nat
    BY <2>1
  <2>3. QED
    BY <1>4, <2>2, Quotient DEF Mean
<1>5. QED
  BY <1>2, <1>3, <1>4

(* The gain aimed at is within the limits, also where the peak limiter     *)
(* has lowered it.                                                         *)
LEMMA DesiredInReach ==
  ASSUME NEW rms \in Nat \ {0}, NEW peak \in 0..Half, NEW c,
         c.target \in Nat, c.min \in MinGain..MaxGain, c.max \in MinGain..MaxGain,
         NEW d \in Desired(rms, peak, c)
  PROVE  d \in MinGain..MaxGain
<1>1. /\ MinGain \in Nat /\ MaxGain \in Nat /\ Unity \in Nat /\ Headroom \in Nat
      /\ Half \in Nat \ {0}
  BY AGCAssumption DEF AGCAssumption
<1>2. MinGain <= PeakLimit(peak) /\ PeakLimit(peak) \in Int
  <2> DEFINE p == IF peak = 0 THEN 1 ELSE peak
  <2>1. p \in 1..Half /\ p \in Nat \ {0}
    BY <1>1
  <2>2. Headroom * Unity \in Int
    BY <1>1
  <2>3. PeakLimit(peak) = (Headroom * Unity) \div p
    BY DEF PeakLimit
  <2> HIDE DEF p
  <2>4. QED
    BY <2>1, <2>2, <2>3, QuotientInt, LimitsAssumption DEF LimitsAssumption
<1>3. (c.target * Unity) \div rms \in Int
  <2>1. c.target * Unity \in Int
    BY <1>1
  <2>2. QED
    BY <2>1, QuotientInt
<1> DEFINE quotient == (c.target * Unity) \div rms
<1>4. PICK g \in Limited(quotient, c.min, c.max) : d = AtMostPeak(g, peak)
  BY DEF Desired
<1>5. g \in MinGain..MaxGain
  <2>1. quotient \in Int
    BY <1>3
  <2> HIDE DEF quotient
  <2>2. QED
    BY <1>1, <2>1 DEF Limited, Clamp
<1>6. QED
  BY <1>1, <1>2, <1>4, <1>5 DEF AtMostPeak

-----------------------------------------------------------------------------
(* What is in force is mixed from settings of Confs.                       *)
ConfsOK == conf \in Confs /\ pending \in Confs \cup {None}

LEMMA InForceLimits ==
  ASSUME ConfsOK, NEW c \in InForce
  PROVE  /\ c \in Settings
         /\ c.min \in MinGain..MaxGain /\ c.max \in MinGain..MaxGain
<1>1. \A s \in Confs : /\ s \in Settings
                      /\ s.min \in MinGain..MaxGain /\ s.max \in MinGain..MaxGain
  BY AGCAssumption, LimitsAssumption DEF AGCAssumption, LimitsAssumption
<1>2. CASE pending = None
  <2>1. c = conf
    BY <1>2 DEF InForce
  <2>2. QED
    BY <1>1, <2>1 DEF ConfsOK
<1>3. CASE pending # None
  <2>1. conf \in Confs /\ pending \in Confs
    BY <1>3 DEF ConfsOK
  <2>2. conf \in Settings /\ pending \in Settings
    BY <1>1, <2>1
  <2>3. c \in Settings
    BY <1>3, <2>2 DEF InForce, Settings
  <2>4. c.min \in {conf.min, pending.min} /\ c.max \in {conf.max, pending.max}
    BY <1>3 DEF InForce
  <2>5. QED
    BY <1>1, <2>1, <2>3, <2>4
<1>4. QED
  BY <1>2, <1>3

LEMMA AlphaType ==
  ASSUME NEW c \in Settings, NEW desired
  PROVE  Alpha(desired, c) \in Alphas
<1>1. Whole \in Nat /\ Whole >= 2
  BY AGCAssumption DEF AGCAssumption
<1>2. c.attack \in 1..Whole /\ c.release \in 1..Whole
  BY DEF Settings, Alphas
<1>3. Whole \div 2 \in 1..Whole
  BY <1>1
<1>4. FastRelease(c.release) \in 1..Whole
  BY <1>1, <1>2, <1>3 DEF FastRelease
<1>5. QED
  BY <1>2, <1>4 DEF Alpha, Alphas

-----------------------------------------------------------------------------
WindowOK == window \in Seq(Nat) /\ Len(window) <= 3

ReachInv == ConfsOK /\ WindowOK /\ GainInReach

LEMMA ReachInit == Init => ReachInv
  BY AGCAssumption
  DEF AGCAssumption, Init, ReachInv, ConfsOK, WindowOK, GainInReach

(* The window after a frame has been measured, and its mean.               *)
LEMMA MeasuredWindow ==
  ASSUME WindowOK, NEW f \in Frames, NEW c \in Settings, Measured(f, c)
  PROVE  WindowOK' /\ Mean(window') \in Nat
<1>1. f \in Samples \X Samples /\ c.rx \in Nat
  BY AGCAssumption DEF AGCAssumption, Settings
<1>2. Level(Coded(f, c.rx)) \in Nat
  BY <1>1, CodedInSamples, LevelInNat
<1>3. window' \in Seq(Nat) /\ Len(window') \in 1..3
  BY <1>2, SlideType DEF Measured, WindowOK
<1>4. WindowOK'
  <2>1. \A n \in 1..3 : n <= 3
    OBVIOUS
  <2>2. Len(window') <= 3
    BY <1>3, <2>1, Zenon
  <2>3. QED
    BY <1>3, <2>2 DEF WindowOK
<1>5. Mean(window') \in Nat
  BY <1>3, MeanInNat
<1>6. QED
  BY <1>4, <1>5

LEMMA GatedReach ==
  ASSUME ReachInv, NEW f \in Frames, NEW c \in InForce, Gated(f, c)
  PROVE  ReachInv'
<1>1. c \in Settings
  BY InForceLimits DEF ReachInv
<1>2. WindowOK'
  BY <1>1, MeasuredWindow DEF ReachInv, Gated
<1>3. ConfsOK'
  BY DEF Gated, ReachInv, ConfsOK, confVars
<1>4. GainInReach'
  <2>1. gain' \in Creep(gain, avgGain) \/ gain' = gain
    BY DEF Gated
  <2>2. avgGain' = avgGain
    BY DEF Gated
  <2>3. QED
    BY <2>1, <2>2, CreepInReach DEF ReachInv, GainInReach
<1>5. QED
  BY <1>2, <1>3, <1>4 DEF ReachInv

(* What speech aims at, and how fast.                                      *)
LEMMA SpeechAims ==
  ASSUME ReachInv, NEW f \in Frames, NEW c \in InForce, Speech(f, c),
         NEW peak, NEW desired \in Desired(Mean(window'), peak, c),
         peak = Peak(Coded(f, c.rx))
  PROVE  /\ peak \in 0..Half /\ peak \in Nat
         /\ desired \in MinGain..MaxGain /\ desired \in Nat
         /\ Alpha(desired, c) \in Alphas
<1>1. /\ c \in Settings
      /\ c.min \in MinGain..MaxGain /\ c.max \in MinGain..MaxGain
  BY InForceLimits DEF ReachInv
<1>2. Mean(window') \in Nat \ {0}
  <2>1. Mean(window') \in Nat
    BY <1>1, MeasuredWindow DEF ReachInv, Speech
  <2>2. QED BY <1>1, <2>1 DEF Speech, Settings
<1>3. f \in Samples \X Samples /\ c.rx \in Nat
  BY <1>1, AGCAssumption DEF AGCAssumption, Settings
<1>4. peak \in 0..Half /\ Half \in Nat
  BY <1>3, CodedInSamples, PeakInRange, AGCAssumption DEF AGCAssumption
<1>5. c.target \in Nat
  BY <1>1 DEF Settings
<1>6. desired \in MinGain..MaxGain
  BY <1>1, <1>2, <1>4, <1>5, DesiredInReach
<1>7. desired \in Nat
  BY <1>6, AGCAssumption DEF AGCAssumption
<1>8. QED BY <1>1, <1>4, <1>6, <1>7, AlphaType

LEMMA SpeechReach ==
  ASSUME ReachInv, NEW f \in Frames, NEW c \in InForce, Speech(f, c)
  PROVE  ReachInv'
<1>1. /\ c \in Settings
      /\ c.min \in MinGain..MaxGain /\ c.max \in MinGain..MaxGain
  BY InForceLimits DEF ReachInv
<1>2. WindowOK' /\ Mean(window') \in Nat
  BY <1>1, MeasuredWindow DEF ReachInv, Speech
<1>3. ConfsOK'
  BY DEF Speech, ReachInv, ConfsOK, confVars
<1>4. PICK desired \in Desired(Mean(window'), Peak(Coded(f, c.rx)), c) :
        gain' = Toward(gain, desired, Alpha(desired, c))
  BY DEF Speech
<1> DEFINE alpha == Alpha(desired, c)
<1>5. desired \in MinGain..MaxGain /\ alpha \in Alphas
  BY SpeechAims
<1>6. gain' = Toward(gain, desired, alpha)
  BY <1>4
<1> HIDE DEF alpha
<1>7. gain \in Nat /\ desired \in Nat /\ gain \in MinGain..MaxGain
  BY <1>5, AGCAssumption DEF AGCAssumption, ReachInv, GainInReach
<1>8. gain' \in MinGain..MaxGain
  BY <1>5, <1>6, <1>7, TowardBetween, BetweenInReach
<1>9. avgGain' \in Creep(avgGain, gain')
  BY DEF Speech
<1>10. GainInReach'
  BY <1>8, <1>9, CreepInReach DEF ReachInv, GainInReach
<1>11. QED
  BY <1>2, <1>3, <1>10 DEF ReachInv

LEMMA ReachStep == ReachInv /\ [Next]_vars => ReachInv'
<1> SUFFICES ASSUME ReachInv, [Next]_vars
             PROVE  ReachInv'
  OBVIOUS
<1>1. CASE Reconfigure
  BY <1>1 DEF Reconfigure, agcVars, ReachInv, ConfsOK, WindowOK, GainInReach
<1>2. CASE Reconfigured
  BY <1>2 DEF Reconfigured, agcVars, ReachInv, ConfsOK, WindowOK, GainInReach
<1>3. CASE \E f \in Frames : Frame(f)
  <2>1. PICK f \in Frames, c \in InForce : Process(f, c)
    BY <1>3 DEF Frame
  <2>2. CASE Bypass(f, c)
    BY <2>2
    DEF Bypass, confVars, agcVars, ReachInv, ConfsOK, WindowOK, GainInReach
  <2>3. CASE Gated(f, c)
    BY <2>3, GatedReach
  <2>4. CASE Speech(f, c)
    BY <2>4, SpeechReach
  <2>5. QED
    BY <2>1, <2>2, <2>3, <2>4 DEF Process
<1>4. CASE UNCHANGED vars
  BY <1>4
  DEF vars, confVars, agcVars, ReachInv, ConfsOK, WindowOK, GainInReach
<1>5. QED
  BY <1>1, <1>2, <1>3, <1>4 DEF Next

(* Neither the gain of a stream nor its average ever leaves the span of    *)
(* the limits ever set (with 0 dB and what the peak limiter allows the     *)
(* loudest sample), whatever frames come and however the settings are      *)
(* changed in between: also where no setting, or a mixture of two, has its *)
(* lower limit below its upper one.                                        *)
THEOREM GainStaysInReach == Spec => []GainInReach
<1>1. ReachInv => GainInReach
  BY DEF ReachInv
<1>2. QED
  BY ReachInit, ReachStep, <1>1, PTL DEF Spec

-----------------------------------------------------------------------------
(* The gate: the pause has lasted for gateFrames frames.                   *)
HeldInv ==
  /\ gateFrames \in 0..6
  /\ onset = None => gateFrames = 0
  /\ onset \in Int \cup {None}
  /\ HeldDuringPause

LEMMA HeldInit == Init => HeldInv
  BY DEF Init, HeldInv, HeldDuringPause

LEMMA GatedHeld ==
  ASSUME ReachInv, HeldInv, NEW f, NEW c, Gated(f, c)
  PROVE  HeldInv'
<1>1. /\ gateFrames' = IF gateFrames > 5 THEN 6 ELSE gateFrames + 1
      /\ gain' \in IF gateFrames' > 5 THEN Creep(gain, avgGain) ELSE {gain}
      /\ onset' = IF onset = None THEN gain ELSE onset
      /\ avgGain' = avgGain
  BY DEF Gated
<1>2. gain \in Int /\ avgGain \in Int /\ None \notin Int
  BY AGCAssumption DEF AGCAssumption, ReachInv, GainInReach
<1>3. gateFrames \in 0..6 /\ gateFrames' \in 1..6
  BY <1>1 DEF HeldInv
<1>4. onset' \in Int /\ onset' # None
  BY <1>1, <1>2 DEF HeldInv
<1>5. Between(gain, onset', avgGain) /\ (gateFrames' <= 5 => gain = onset')
  <2>1. CASE onset = None
    BY <1>1, <1>2, <2>1 DEF Between
  <2>2. CASE onset # None
    BY <1>1, <1>3, <2>2 DEF HeldInv, HeldDuringPause
  <2>3. QED BY <2>1, <2>2
<1>6. CASE gateFrames' <= 5
  <2>1. gain' = gain
    BY <1>1, <1>3, <1>6
  <2>2. QED BY <1>1, <1>3, <1>4, <1>5, <2>1 DEF HeldInv, HeldDuringPause
<1>7. CASE gateFrames' > 5
  <2>1. gain' \in Creep(gain, avgGain)
    BY <1>1, <1>7
  <2>2. Between(gain', onset', avgGain)
    BY <1>2, <1>4, <1>5, <2>1 DEF Between, Creep
  <2>3. QED
    BY <1>1, <1>3, <1>4, <1>7, <2>2 DEF HeldInv, HeldDuringPause
<1>8. QED BY <1>3, <1>6, <1>7

LEMMA HeldStep == ReachInv /\ HeldInv /\ [Next]_vars => HeldInv'
<1> SUFFICES ASSUME ReachInv, HeldInv, [Next]_vars
             PROVE  HeldInv'
  OBVIOUS
<1>1. CASE UNCHANGED <<agcVars, onset>>
  BY <1>1 DEF agcVars, HeldInv, HeldDuringPause
<1>2. ASSUME NEW f, NEW c, Gated(f, c) PROVE HeldInv'
  BY <1>2, GatedHeld
<1>3. ASSUME NEW f, NEW c, Speech(f, c) PROVE HeldInv'
  BY <1>3 DEF Speech, HeldInv, HeldDuringPause
<1>4. QED
  BY <1>1, <1>2, <1>3
  DEF Next, Reconfigure, Reconfigured, Frame, Process, Bypass, vars, histVars

(* In a pause the gain is held for five frames and then only moves from    *)
(* where it was towards the talker's average, however long the pause is    *)
(* and whatever noise and changes of the settings there are in it.         *)
THEOREM GainIsHeld == Spec => []HeldDuringPause
<1>1. ReachInv /\ HeldInv => HeldDuringPause
  BY DEF HeldInv
<1>2. QED
  BY ReachInit, HeldInit, ReachStep, HeldStep, <1>1, PTL DEF Spec


-----------------------------------------------------------------------------
(* A step down is one of a unit at least.                                  *)
LEMMA TowardFalls ==
  ASSUME NEW x \in Nat, NEW y \in Nat, NEW alpha \in Alphas, y < x
  PROVE  Toward(x, y, alpha) < x
<1> DEFINE d == Abs(y - x)
           part == (alpha * d + Whole - 1) \div Whole
<1>1. Whole \in Nat \ {0} /\ alpha \in Nat \ {0}
  BY AGCAssumption DEF AGCAssumption, Alphas
<1>2. d \in Nat \ {0}
  BY DEF Abs
<1> HIDE DEF d
<1>3. alpha * d \in Nat \ {0}
  BY <1>1, <1>2
<1>4. alpha * d + Whole - 1 \in Nat /\ alpha * d + Whole - 1 >= Whole
  BY <1>1, <1>3
<1>5. part \in Nat /\ alpha * d + Whole - 1 < Whole * (part + 1)
  BY <1>1, <1>4, Quotient
<1> HIDE DEF part
<1>6. part # 0
  BY <1>1, <1>4, <1>5
<1>7. Toward(x, y, alpha) = x - part
  BY DEF Toward, d, part
<1>8. QED BY <1>5, <1>6, <1>7

(* With the gain aimed at the loudest sample is within the headroom.       *)
LEMMA DesiredPeak ==
  ASSUME NEW rms, NEW peak \in Nat, NEW c,
         NEW d \in Desired(rms, peak, c), d \in Nat
  PROVE  peak * d <= Headroom * Unity
<1>1. PICK g : d = AtMostPeak(g, peak)
  BY DEF Desired
<1>2. Headroom * Unity \in Nat
  BY AGCAssumption DEF AGCAssumption
<1>3. CASE peak = 0
  BY <1>2, <1>3
<1>4. CASE peak # 0
  <2>1. PICK l : l = (Headroom * Unity) \div peak
    OBVIOUS
  <2>2. l \in Nat /\ peak * l <= Headroom * Unity
    BY <1>2, <1>4, <2>1, Quotient
  <2>3. PeakLimit(peak) = l
    BY <1>4, <2>1 DEF PeakLimit
  <2>5. d = IF g > l THEN l ELSE g
    BY <1>1, <2>3 DEF AtMostPeak
  <2>6. CASE g > l
    BY <2>2, <2>5, <2>6
  <2>7. CASE ~ (g > l)
    <3>1. d = g /\ d \in Nat
      BY <2>5, <2>7
    <3>2. d <= l
      BY <2>2, <2>7, <3>1
    <3>3. d * peak <= l * peak
      BY <2>2, <3>1, <3>2, TimesMonotone
    <3>4. QED BY <1>2, <2>2, <3>1, <3>3
  <2>8. QED BY <2>6, <2>7
<1>5. QED BY <1>3, <1>4

LEMMA SpeechClips ==
  ASSUME ReachInv, NEW f \in Frames, NEW c \in InForce, Speech(f, c)
  PROVE  ClipsOnlyComingDown'
<1>1. PICK peak : peak = Peak(Coded(f, c.rx))
  OBVIOUS
<1>2. PICK desired \in Desired(Mean(window'), peak, c) :
        gain' = Toward(gain, desired, Alpha(desired, c))
  BY <1>1 DEF Speech
<1> DEFINE alpha == Alpha(desired, c)
<1>3. /\ desired \in Nat /\ alpha \in Alphas /\ peak \in Nat
      /\ gain' = Toward(gain, desired, alpha) /\ gain \in Nat
  BY <1>1, <1>2, SpeechAims, AGCAssumption
  DEF AGCAssumption, ReachInv, GainInReach
<1> HIDE DEF alpha
<1>4. Between(gain', gain, desired) /\ gain' \in Int
  BY <1>3, TowardBetween
<1>5. raw' = f /\ used'.rx = c.rx /\ before' = gain /\ applied' = gain'
  BY DEF Speech, Measured, Decode, Encode
<1>6. CASE desired < gain
  <2>1. gain' < gain
    BY <1>3, <1>6, TowardFalls
  <2>2. QED BY <1>5, <2>1 DEF ClipsOnlyComingDown
<1>7. CASE ~ (desired < gain)
  <2>1. gain' \in Nat /\ gain' <= desired
    BY <1>3, <1>4, <1>7 DEF Between
  <2>2. peak * desired <= Headroom * Unity
    BY <1>3, DesiredPeak
  <2>3. Headroom * Unity <= (Half - 1) * Unity
    <3>1. Headroom \in Nat /\ Half - 1 \in Nat /\ Headroom <= Half - 1 /\ Unity \in Nat
      BY AGCAssumption DEF AGCAssumption
    <3>2. QED BY <3>1, TimesMonotone
  <2>4. gain' * peak <= desired * peak
    BY <1>3, <2>1, TimesMonotone
  <2>5. ~ (peak * gain' > (Half - 1) * Unity)
    <3>1. /\ Headroom * Unity \in Int /\ (Half - 1) * Unity \in Int
          /\ peak * gain' \in Int /\ peak * desired \in Int
          /\ peak * gain' = gain' * peak /\ peak * desired = desired * peak
      BY <1>3, <2>1, AGCAssumption DEF AGCAssumption
    <3>2. QED BY <2>2, <2>3, <2>4, <3>1
  <2>6. QED BY <1>1, <1>5, <2>5 DEF ClipsOnlyComingDown, Clipped
<1>8. QED BY <1>6, <1>7

LEMMA ClipsStep ==
  ReachInv /\ ClipsOnlyComingDown /\ [Next]_vars => ClipsOnlyComingDown'
<1> SUFFICES ASSUME ReachInv, ClipsOnlyComingDown, [Next]_vars
             PROVE  ClipsOnlyComingDown'
  OBVIOUS
<1>1. CASE UNCHANGED <<frameVars, histVars>>
  BY <1>1 DEF frameVars, histVars, ClipsOnlyComingDown, Clipped
<1>2. ASSUME applied' = None PROVE ClipsOnlyComingDown'
  BY <1>2 DEF ClipsOnlyComingDown, Clipped
<1>3. ASSUME NEW f \in Frames, NEW c \in InForce, Speech(f, c)
      PROVE  ClipsOnlyComingDown'
  BY <1>3, SpeechClips
<1>4. QED
  BY <1>1, <1>2, <1>3
  DEF Next, Reconfigure, Reconfigured, Frame, Process, Bypass, Gated, Encode, vars

(* The AGC clips with a gain that is coming down only: where it stays or   *)
(* rises, the limiter of the gain aimed at has kept the frame below the    *)
(* largest sample, whatever the attack and the release.                    *)
THEOREM ClipsComingDown == Spec => []ClipsOnlyComingDown
<1>1. Init => ClipsOnlyComingDown
  BY DEF Init, ClipsOnlyComingDown, Clipped
<1>2. QED
  BY ReachInit, ReachStep, ClipsStep, <1>1, PTL DEF Spec

-----------------------------------------------------------------------------
(* Every stage keeps the sign of a sample, or makes it 0.                  *)
Follows(a, b) == (a >= 0 => b >= 0) /\ (a <= 0 => b <= 0)

LEMMA FollowsOn ==
  ASSUME NEW a \in Int, NEW b \in Int, NEW d \in Int, Follows(a, b), Follows(b, d)
  PROVE  Follows(a, d)
  BY DEF Follows

LEMMA FollowsProduct ==
  ASSUME NEW a \in Int, NEW b \in Int, Follows(a, b)
  PROVE  a * b >= 0
<1>1. CASE a >= 0
  <2>1. a \in Nat /\ b \in Nat
    BY <1>1 DEF Follows
  <2>2. QED BY <2>1
<1>2. CASE a <= 0
  <2>1. -a \in Nat /\ -b \in Nat
    BY <1>2 DEF Follows
  <2>2. (-a) * (-b) \in Nat
    BY <2>1
  <2>3. (-a) * (-b) = a * b
    OBVIOUS
  <2>4. QED BY <2>2, <2>3
<1>3. QED BY <1>1, <1>2

LEMMA FollowsTimes ==
  ASSUME NEW a \in Int, NEW m \in Nat
  PROVE  a * m \in Int /\ Follows(a, a * m)
<1>1. CASE a >= 0
  BY <1>1 DEF Follows
<1>2. CASE a < 0
  <2>1. -a \in Nat
    BY <1>2
  <2>2. (-a) * m \in Nat
    BY <2>1
  <2>3. (-a) * m = -(a * m)
    OBVIOUS
  <2>4. QED BY <1>2, <2>2, <2>3 DEF Follows
<1>3. QED BY <1>1, <1>2

LEMMA FollowsQuotient ==
  ASSUME NEW a \in Int, NEW b \in Nat \ {0}
  PROVE  a \div b \in Int /\ Follows(a, a \div b)
  BY SMT DEF Follows

(* The gains, into 16 bits or as far as they go. *)
LEMMA FollowsGain ==
  ASSUME NEW v \in Int, NEW num \in Nat
  PROVE  (v * num) \div Unity \in Int /\ Follows(v, (v * num) \div Unity)
<1>1. Unity \in Nat \ {0}
  BY AGCAssumption DEF AGCAssumption
<1>2. v * num \in Int /\ Follows(v, v * num)
  BY FollowsTimes
<1>3. PICK w : w = v * num
  OBVIOUS
<1>4. w \div Unity \in Int /\ Follows(w, w \div Unity)
  BY <1>1, <1>2, <1>3, FollowsQuotient
<1>5. QED BY <1>2, <1>3, <1>4, FollowsOn

LEMMA FollowsTrunc ==
  ASSUME NEW v \in Int, NEW g \in Nat
  PROVE  Trunc(v * g, Unity) \in Int /\ Follows(v, Trunc(v * g, Unity))
<1>1. Unity \in Nat \ {0}
  BY AGCAssumption DEF AGCAssumption
<1>2. PICK w : w = v * g
  OBVIOUS
<1>3. w \in Int /\ Follows(v, w)
  BY <1>2, FollowsTimes
<1>4. Trunc(w, Unity) \in Int /\ Follows(w, Trunc(w, Unity))
  <2>1. CASE w < 0
    <3>1. PICK q : q = (-w) \div Unity
      OBVIOUS
    <3>2. q \in Nat
      BY <1>1, <1>3, <2>1, <3>1, Quotient
    <3>3. Trunc(w, Unity) = -q
      BY <2>1, <3>1 DEF Trunc
    <3>4. -q \in Int /\ Follows(w, -q)
      BY <2>1, <1>3, <3>2 DEF Follows
    <3>5. QED BY <3>3, <3>4
  <2>2. CASE ~ (w < 0)
    BY <1>1, <1>3, <2>2, FollowsQuotient DEF Trunc
  <2>3. QED BY <2>1, <2>2
<1>5. QED BY <1>2, <1>3, <1>4, FollowsOn

LEMMA FollowsClamp ==
  ASSUME NEW v \in Int, NEW lo \in Int, NEW hi \in Int, lo <= 0, 0 <= hi
  PROVE  Clamp(v, lo, hi) \in lo..hi /\ Follows(v, Clamp(v, lo, hi))
  BY DEF Clamp, Follows

(* What fits into a sample is not changed by the conversion to one.        *)
LEMMA WrapFits ==
  ASSUME NEW v \in Samples
  PROVE  Wrap(v) = v
<1>1. Half \in Nat \ {0} /\ v \in Int /\ v + Half \in 0..(2 * Half - 1)
  BY AGCAssumption DEF AGCAssumption, Samples
<1>2. PICK w, m : w = v + Half /\ m = 2 * Half
  OBVIOUS
<1>3. w \in Nat /\ m \in Nat \ {0} /\ w < m
  BY <1>1, <1>2
<1>4. w % m = w
  BY <1>3
<1>5. QED BY <1>1, <1>2, <1>4 DEF Wrap

LEMMA CodedFollows ==
  ASSUME NEW f \in Samples \X Samples, NEW num \in Nat, NEW i \in 1..2,
         Fits(f[i], num)
  PROVE  Follows(f[i], Coded(f, num)[i])
<1>1. f[1] \in Samples /\ f[2] \in Samples /\ (i = 1 \/ i = 2)
  OBVIOUS
<1>2. f[i] \in Int
  BY <1>1, AGCAssumption DEF AGCAssumption, Samples
<1>3. PICK q : q = (f[i] * num) \div Unity
  OBVIOUS
<1>4. q \in Samples /\ Follows(f[i], q)
  BY <1>2, <1>3, FollowsGain DEF Fits
<1>5. Wrap(q) = q
  BY <1>4, WrapFits
<1>6. CodecGain(f, num)[i] = q
  BY <1>1, <1>3, <1>5 DEF CodecGain
<1>7. CASE num = Unity
  BY <1>2, <1>7 DEF Coded, Follows
<1>8. CASE num # Unity
  BY <1>4, <1>6, <1>8 DEF Coded
<1>9. QED BY <1>7, <1>8

LEMMA ApplyGainFollows ==
  ASSUME NEW f \in Samples \X Samples, NEW num \in Nat
  PROVE  /\ ApplyGain(f, num) \in Samples \X Samples
         /\ \A i \in 1..2 : Follows(f[i], ApplyGain(f, num)[i])
<1>1. Half \in Nat \ {0}
  BY AGCAssumption DEF AGCAssumption
<1>2. ASSUME NEW v \in Samples
      PROVE  /\ Clamp((v * num) \div Unity, -Half, Half - 1) \in Samples
             /\ Follows(v, Clamp((v * num) \div Unity, -Half, Half - 1))
  <2>1. PICK q : q = (v * num) \div Unity
    OBVIOUS
  <2>2. v \in Int
    BY <1>1 DEF Samples
  <2>3. q \in Int /\ Follows(v, q)
    BY <2>1, <2>2, FollowsGain
  <2>4. /\ Clamp(q, -Half, Half - 1) \in (-Half)..(Half - 1)
        /\ Follows(q, Clamp(q, -Half, Half - 1))
    BY <1>1, <2>3, FollowsClamp
  <2>5. QED BY <1>1, <2>1, <2>2, <2>3, <2>4, FollowsOn DEF Samples
<1>3. f[1] \in Samples /\ f[2] \in Samples
  OBVIOUS
<1>4. QED BY <1>2, <1>3 DEF ApplyGain

LEMMA AmplifiedFollows ==
  ASSUME NEW f \in Samples \X Samples, NEW g \in Nat
  PROVE  /\ Amplified(f, g) \in Samples \X Samples
         /\ \A i \in 1..2 : Follows(f[i], Amplified(f, g)[i])
<1>1. Half \in Nat \ {0}
  BY AGCAssumption DEF AGCAssumption
<1>2. ASSUME NEW v \in Samples
      PROVE  /\ Clamp(Trunc(v * g, Unity), -(Half - 1), Half - 1) \in Samples
             /\ Follows(v, Clamp(Trunc(v * g, Unity), -(Half - 1), Half - 1))
  <2>1. PICK q : q = Trunc(v * g, Unity)
    OBVIOUS
  <2>2. v \in Int
    BY <1>1 DEF Samples
  <2>3. q \in Int /\ Follows(v, q)
    BY <2>1, <2>2, FollowsTrunc
  <2>4. /\ Clamp(q, -(Half - 1), Half - 1) \in (-(Half - 1))..(Half - 1)
        /\ Follows(q, Clamp(q, -(Half - 1), Half - 1))
    BY <1>1, <2>3, FollowsClamp
  <2>5. QED BY <1>1, <2>1, <2>2, <2>3, <2>4, FollowsOn DEF Samples
<1>3. f[1] \in Samples /\ f[2] \in Samples
  OBVIOUS
<1>4. QED BY <1>2, <1>3 DEF Amplified

(* From the samples decoded to those encoded. *)
LEMMA SignStep ==
  ASSUME ReachInv, NEW f \in Frames, NEW c \in InForce,
         NEW x \in Samples \X Samples,
         \A i \in 1..2 : Fits(f[i], c.rx) => Follows(f[i], x[i]),
         raw' = f, used' = [rx |-> c.rx, tx |-> c.tx],
         output' = IF c.out = Unity THEN x ELSE ApplyGain(x, c.out)
  PROVE  SignKept'
<1>1. c \in Settings /\ c.rx \in Nat /\ c.out \in Nat /\ c.tx \in Nat
  BY InForceLimits DEF ReachInv, Settings
<1>2. used'.rx = c.rx /\ used'.tx = c.tx
  OBVIOUS
<1>3. f \in Samples \X Samples
  BY AGCAssumption DEF AGCAssumption
<1>4. PICK o : o = output'
  OBVIOUS
<1>5. /\ o \in Samples \X Samples
      /\ \A i \in 1..2 : x[i] \in Int => Follows(x[i], o[i])
  <2>1. CASE c.out = Unity
    BY <1>4, <2>1 DEF Follows
  <2>2. CASE c.out # Unity
    BY <1>1, <1>4, <2>2, ApplyGainFollows
  <2>3. QED BY <2>1, <2>2
<1>6. Samples \subseteq Int
  BY AGCAssumption DEF AGCAssumption, Samples
<1>7. ASSUME NEW i \in 1..2, Fits(f[i], c.rx), Fits(o[i], c.tx)
      PROVE  f[i] * Coded(o, c.tx)[i] >= 0
  <2>1. f[i] \in Int /\ x[i] \in Int /\ o[i] \in Int
    <3>1. i = 1 \/ i = 2
      OBVIOUS
    <3>2. \A y \in Samples \X Samples : y[1] \in Int /\ y[2] \in Int
      BY <1>6
    <3>3. QED BY <1>3, <1>5, <3>1, <3>2
  <2>2. PICK y : y = Coded(o, c.tx)
    OBVIOUS
  <2>3. y[i] \in Int
    <3>1. y \in Samples \X Samples
      BY <1>1, <1>5, <2>2, CodedInSamples
    <3>2. y[1] \in Int /\ y[2] \in Int
      BY <1>6, <3>1
    <3>3. i = 1 \/ i = 2
      OBVIOUS
    <3>4. QED BY <3>2, <3>3
  <2>4. Follows(f[i], x[i]) /\ Follows(x[i], o[i])
    BY <1>5, <1>7, <2>1
  <2>5. Follows(o[i], y[i])
    BY <1>1, <1>5, <1>7, <2>2, CodedFollows
  <2>6. Follows(f[i], y[i])
    BY <2>1, <2>3, <2>4, <2>5, FollowsOn
  <2>7. f[i] * y[i] >= 0
    BY <2>1, <2>3, <2>6, FollowsProduct
  <2>8. QED BY <2>2, <2>7
<1>8. QED
  BY <1>2, <1>4, <1>7 DEF SignKept

LEMMA SignKeptStep == ReachInv /\ SignKept /\ [Next]_vars => SignKept'
<1> SUFFICES ASSUME ReachInv, SignKept, [Next]_vars
             PROVE  SignKept'
  OBVIOUS
<1>1. CASE UNCHANGED frameVars
  BY <1>1 DEF frameVars, SignKept
<1>2. ASSUME NEW f \in Frames, NEW c \in InForce, Process(f, c)
      PROVE  SignKept'
  <2>1. PICK x : x = Coded(f, c.rx)
    OBVIOUS
  <2>2. /\ x \in Samples \X Samples
        /\ \A i \in 1..2 : Fits(f[i], c.rx) => Follows(f[i], x[i])
    <3>1. f \in Samples \X Samples /\ c.rx \in Nat
      BY InForceLimits, AGCAssumption DEF AGCAssumption, ReachInv, Settings
    <3>2. QED BY <2>1, <3>1, CodedInSamples, CodedFollows
  <2>3. raw' = f /\ used' = [rx |-> c.rx, tx |-> c.tx]
    BY <1>2 DEF Process, Bypass, Gated, Speech, Measured, Decode
  <2>4. CASE Bypass(f, c) \/ Gated(f, c)
    <3>1. output' = IF c.out = Unity THEN x ELSE ApplyGain(x, c.out)
      BY <2>1, <2>4 DEF Bypass, Gated, Encode
    <3>2. QED BY <2>2, <2>3, <3>1, SignStep
  <2>5. CASE Speech(f, c)
    <3>1. PICK z : z = Amplified(x, gain')
      OBVIOUS
    <3>2. output' = IF c.out = Unity THEN z ELSE ApplyGain(z, c.out)
      BY <2>1, <2>5, <3>1 DEF Speech, Encode
    <3>3. gain' \in Nat
      <4>1. gain' \in MinGain..MaxGain
        BY <2>5, SpeechReach DEF ReachInv, GainInReach
      <4>2. QED BY <4>1, AGCAssumption DEF AGCAssumption
    <3>4. /\ z \in Samples \X Samples
          /\ \A i \in 1..2 : Follows(x[i], z[i])
      BY <2>2, <3>1, <3>3, AmplifiedFollows
    <3>5. ASSUME NEW i \in 1..2, Fits(f[i], c.rx) PROVE Follows(f[i], z[i])
      <4>1. Samples \subseteq Int
        BY AGCAssumption DEF AGCAssumption, Samples
      <4>2. f[i] \in Int /\ x[i] \in Int /\ z[i] \in Int
        <5>1. i = 1 \/ i = 2
          OBVIOUS
        <5>2. \A y \in Samples \X Samples : y[1] \in Int /\ y[2] \in Int
          BY <4>1
        <5>3. f \in Samples \X Samples
          BY AGCAssumption DEF AGCAssumption
        <5>4. QED BY <2>2, <3>4, <5>1, <5>2, <5>3
      <4>3. Follows(f[i], x[i]) /\ Follows(x[i], z[i])
        BY <2>2, <3>4, <3>5
      <4>4. QED BY <4>2, <4>3, FollowsOn
    <3>6. QED BY <2>3, <3>2, <3>4, <3>5, SignStep
  <2>6. QED BY <1>2, <2>4, <2>5 DEF Process
<1>3. QED
  BY <1>1, <1>2 DEF Next, Reconfigure, Reconfigured, Frame, vars

(* Neither the AGC nor the output gain makes a sample wrap, whatever the   *)
(* width, the gains and the order in which settings change: one that fits  *)
(* through the gains of its decoder and its encoder keeps its sign.        *)
THEOREM SignIsKept == Spec => []SignKept
<1>1. Init => SignKept
  <2> SUFFICES ASSUME Init, NEW i \in 1..2
               PROVE  raw[i] * Coded(output, used.tx)[i] >= 0
    BY DEF SignKept
  <2>1. raw = <<0, 0>> /\ output = <<0, 0>> /\ used.tx = Unity
    BY DEF Init, Silence
  <2>2. Coded(output, used.tx) = <<0, 0>>
    BY <2>1 DEF Coded
  <2>3. i = 1 \/ i = 2
    OBVIOUS
  <2>4. QED BY <2>1, <2>2, <2>3
<1>2. QED
  BY ReachInit, ReachStep, SignKeptStep, <1>1, PTL DEF Spec
=============================================================================
