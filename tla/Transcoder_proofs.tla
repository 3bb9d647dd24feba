-------------------------- MODULE Transcoder_proofs --------------------------
(***************************************************************************)
(* What is proved of the pipeline for any number of packets, any codecs,   *)
(* either hardware and any number of retries: first the types, the flow of *)
(* the handlers and SentOnce, then a packet's way through the pipeline,    *)
(* TravelInv with what follows from it, and that the pipeline does what    *)
(* TranscodeService allows.                                                *)
(***************************************************************************)
EXTENDS Transcoder, SequenceTheorems, TLAPS

(* A handler never starts inside SendToReflector. *)
Sendless(s) == \A i \in DOMAIN s : s[i].op # "send"

LEMMA StationsAreCodecs == Devices \subseteq Codecs /\ Workers \subseteq Codecs
  BY DEF Devices, Workers, Codecs

LEMMA SourceIsCodec ==
  \A c \in CodecsIn : c # "none" => Source(c) \in Codecs
  BY TranscoderAssumption DEF Source, Codecs, ECodecType

(* The steps handlers are made of. *)
Plain == {s \in Steps : s.op # "send"}

LEMMA PlainSteps ==
  /\ Hear("raw") \in Plain /\ Hear("levelled") \in Plain /\ Check \in Plain
  /\ \A c \in Codecs : Push(c) \in Plain /\ Set(c) \in Plain
  BY DEF Plain, Steps, Hear, Push, Set, Check

LEMMA PlainCodecs ==
  /\ Push("dstar") \in Plain /\ Push("dmr") \in Plain /\ Push("p25") \in Plain
  /\ Push("m17") \in Plain /\ Push("usrp") \in Plain
  /\ Set("dstar") \in Plain /\ Set("dmr") \in Plain /\ Set("p25") \in Plain
  /\ Set("m17") \in Plain /\ Set("usrp") \in Plain
  BY PlainSteps DEF Codecs

LEMMA PlainSequences ==
  ASSUME NEW s \in Seq(Plain)
  PROVE  s \in Seq(Steps) /\ Sendless(s)
<1>1. \A i \in 1..Len(s) : s[i] \in Steps /\ s[i].op # "send"
  BY DEF Plain
<1>2. s \in Seq(Steps)
  BY <1>1
<1>3. QED BY <1>1, <1>2 DEF Sendless

LEMMA HandlerSteps ==
  ASSUME NEW t, NEW c
  PROVE  Handler(t, c) \in Seq(Plain)
<1>1. Codec2toAudio \in Seq(Plain)
  <2> DEFINE second == IF HasDmrsf THEN Push("dmr") ELSE Set("dmr")
  <2>1. second \in Plain
    BY PlainCodecs
  <2> HIDE DEF second
  <2>2. <<Hear("levelled"), Push("dstar"), second, Set("p25"), Set("usrp")>>
          \in Seq(Plain)
    BY <2>1, PlainSteps, PlainCodecs
  <2>3. QED BY <2>2 DEF Codec2toAudio, second
<1>2. IMBEtoAudio \in Seq(Plain)
  BY PlainSteps, PlainCodecs DEF IMBEtoAudio
<1>3. USRPtoAudio \in Seq(Plain) /\ SvxToAudio \in Seq(Plain)
  BY PlainSteps, PlainCodecs DEF USRPtoAudio, SvxToAudio
<1>4. SWAMBE2toAudio \in Seq(Plain)
  BY PlainSteps, PlainCodecs DEF SWAMBE2toAudio
<1>5. /\ AudiotoCodec2 \in Seq(Plain) /\ AudiotoIMBE \in Seq(Plain)
      /\ AudiotoUSRP \in Seq(Plain) /\ AudiotoSWAMBE2 \in Seq(Plain)
  BY PlainSteps, PlainCodecs
     DEF AudiotoCodec2, AudiotoIMBE, AudiotoUSRP, AudiotoSWAMBE2
<1>6. QED BY <1>1, <1>2, <1>3, <1>4, <1>5 DEF Handler

LEMMA ResponseSteps ==
  ASSUME NEW d \in Devices, NEW c, NEW request, NEW rewrite \in BOOLEAN
  PROVE  Response(d, c, request, rewrite) \in Seq(Plain)
<1> DEFINE answer == Answer(d, request)
<1>1. answer \in Plain
  BY StationsAreCodecs, PlainSteps DEF Answer
<1> HIDE DEF answer
<1>2. DstResponse(c, answer) \in Seq(Plain)
  BY <1>1, PlainSteps, PlainCodecs DEF DstResponse
<1>3. DmrResponse(c, answer, rewrite) \in Seq(Plain)
  BY <1>1, PlainSteps, PlainCodecs DEF DmrResponse
<1>4. QED BY <1>2, <1>3 DEF Response, answer

-----------------------------------------------------------------------------
(* Type correctness.  It needs that a thread with steps left has a packet, *)
(* and that a chip's answer finds a packet waiting: parts of FlowInv.      *)

LEMMA TypeInit == Init => TypeOK
  BY TranscoderAssumption DEF Init, TypeOK, Packets

LEMMA TailOfOne ==
  ASSUME NEW S, NEW s \in Seq(S), s # <<>>, Len(s) = 1
  PROVE  Tail(s) = <<>>
<1>1. Tail(s) \in Seq(S) /\ Len(Tail(s)) = 0
  BY HeadTailProperties
<1>2. Tail(s) # <<>> => Len(Tail(s)) \in Nat \ {0}
  BY <1>1, EmptySeq
<1>3. QED BY <1>1, <1>2

LEMMA AdvanceType ==
  ASSUME TypeOK, NEW t \in Codecs, NEW op, AtStep(t, op), Advance(t)
  PROVE  /\ script' \in [Codecs -> Seq(Steps)]
         /\ current' \in [Codecs -> Packets \cup {None}]
<1>1. script[t] \in Seq(Steps) /\ script[t] # <<>>
  BY DEF TypeOK, AtStep
<1>2. Tail(script[t]) \in Seq(Steps)
  BY <1>1
<1>3. QED BY <1>2 DEF Advance, TypeOK

LEMMA BeginType ==
  ASSUME TypeOK, NEW t \in Codecs, NEW p \in Packets,
         NEW handler \in Seq(Steps), Begin(t, p, handler)
  PROVE  /\ script' \in [Codecs -> Seq(Steps)]
         /\ current' \in [Codecs -> Packets \cup {None}]
  BY DEF Begin, TypeOK

LEMMA StepOfThread ==
  ASSUME TypeOK, FlowInv, NEW t \in Codecs, NEW op, AtStep(t, op)
  PROVE  /\ current[t] \in Packets /\ current[t] \in Arrived
         /\ op = "hear" => Arg(t) \in {"raw", "levelled"}
         /\ op \in {"push", "set"} => Arg(t) \in Codecs
<1>1. Head(script[t]) \in Steps /\ Head(script[t]).op = op
  BY DEF AtStep, TypeOK
<1>2. QED BY <1>1 DEF AtStep, Arg, Steps, FlowInv, Arrived

LEMMA TypeStep == TypeOK /\ FlowInv /\ [Next]_vars => TypeOK'
<1> SUFFICES ASSUME TypeOK, FlowInv, [Next]_vars PROVE TypeOK'
  OBVIOUS
<1> USE TranscoderAssumption, StationsAreCodecs
<1>1. ASSUME NEW p \in Packets, NEW c \in CodecsIn, Receive(p, c) PROVE TypeOK'
  <2>1. Source(c) \in Codecs /\ c \in ECodecType
    BY <1>1, SourceIsCodec DEF Receive
  <2>2. QED BY <1>1, <2>1
       DEF Receive, NextPacket, TypeOK, threadVars, sendVars
<1>2. ASSUME NEW p \in Packets, Dump(p) PROVE TypeOK'
  BY <1>2 DEF Dump, NextPacket, TypeOK, ECodecType, threadVars, sendVars,
              stationVars
<1>3. ASSUME NEW t \in Codecs, Pop(t) PROVE TypeOK'
  <2> DEFINE p == Head(queue[t])
  <2>1. queue[t] \in Seq(Packets) /\ queue[t] # <<>>
    BY <1>3 DEF Pop, TypeOK
  <2>2. p \in Packets /\ Tail(queue[t]) \in Seq(Packets)
    BY <2>1
  <2>3. Handler(t, codecIn[p]) \in Seq(Steps)
    BY HandlerSteps, PlainSequences
  <2>4. Begin(t, p, Handler(t, codecIn[p]))
    BY <1>3 DEF Pop
  <2>5. /\ script' \in [Codecs -> Seq(Steps)]
        /\ current' \in [Codecs -> Packets \cup {None}]
    BY <2>2, <2>3, <2>4, BeginType
  <2>6. QED BY <1>3, <2>2, <2>5 DEF Pop, TypeOK, packetVars, sendVars
<1>4. ASSUME NEW d \in Codecs, FeedDevice(d) PROVE TypeOK'
  <2> DEFINE p == Head(queue[d])
  <2>1. queue[d] \in Seq(Packets) /\ queue[d] # <<>> /\ d \in Devices
    BY <1>4 DEF FeedDevice, TypeOK
  <2>2. p \in Packets /\ Tail(queue[d]) \in Seq(Packets)
    BY <2>1
  <2>3. Request(d, p) \in {"decode", "encode"}
    BY DEF Request
  <2>4. /\ waiting' \in [Devices -> Seq(Packets)]
        /\ chip' \in [Devices -> Seq({"decode", "encode"})]
    BY <1>4, <2>1, <2>2, <2>3 DEF FeedDevice, TypeOK
  <2>5. QED BY <1>4, <2>2, <2>4
       DEF FeedDevice, TypeOK, packetVars, threadVars, sendVars
<1>5. ASSUME NEW d \in Codecs, ReadDevice(d) PROVE TypeOK'
  <2> DEFINE p == Head(waiting[d])
  <2> PICK rewrite \in BOOLEAN :
             Begin(d, p, Response(d, codecIn[p], Head(chip[d]), rewrite))
    BY <1>5 DEF ReadDevice
  <2> DEFINE handler == Response(d, codecIn[p], Head(chip[d]), rewrite)
  <2>1. d \in Devices /\ chip[d] \in Seq({"decode", "encode"}) /\ chip[d] # <<>>
    BY <1>5 DEF ReadDevice, TypeOK
  <2>2. waiting[d] \in Seq(Packets) /\ waiting[d] # <<>>
    BY <2>1 DEF TypeOK, FlowInv
  <2>3. /\ p \in Packets /\ Tail(waiting[d]) \in Seq(Packets)
        /\ Tail(chip[d]) \in Seq({"decode", "encode"})
    BY <2>1, <2>2
  <2>4. handler \in Seq(Steps)
    BY <2>1, ResponseSteps, PlainSequences
  <2>5. Begin(d, p, handler)
    OBVIOUS
  <2>6. /\ script' \in [Codecs -> Seq(Steps)]
        /\ current' \in [Codecs -> Packets \cup {None}]
    BY <2>3, <2>4, <2>5, BeginType
  <2>7. QED BY <1>5, <2>1, <2>3, <2>6
       DEF ReadDevice, TypeOK, packetVars, sendVars
<1>6. ASSUME NEW t \in Codecs, SetAudioSamples(t) PROVE TypeOK'
  <2>1. current[t] \in Packets /\ Arg(t) \in {"raw", "levelled"}
    BY <1>6, StepOfThread DEF SetAudioSamples
  <2>2. QED BY <1>6, <2>1, AdvanceType
       DEF SetAudioSamples, TypeOK, stationVars, sendVars
<1>7. ASSUME NEW t \in Codecs, SetData(t) PROVE TypeOK'
  <2>1. current[t] \in Packets /\ Arg(t) \in Codecs
    BY <1>7, StepOfThread DEF SetData
  <2>2. QED BY <1>7, <2>1, AdvanceType
       DEF SetData, TypeOK, stationVars, sendVars
<1>8. ASSUME NEW t \in Codecs, HandOver(t) PROVE TypeOK'
  <2>1. current[t] \in Packets /\ Arg(t) \in Codecs
    BY <1>8, StepOfThread DEF HandOver
  <2>2. queue' \in [Codecs -> Seq(Packets)]
    BY <1>8, <2>1 DEF HandOver, TypeOK
  <2>3. QED BY <1>8, <2>2, AdvanceType
       DEF HandOver, TypeOK, packetVars, sendVars
<1>9. ASSUME NEW t \in Codecs, CheckDone(t) PROVE TypeOK'
  BY <1>9, AdvanceType DEF CheckDone, TypeOK, packetVars, stationVars, sendVars
<1>10. ASSUME NEW t \in Codecs, StartSend(t) PROVE TypeOK'
  <2>1. <<Send>> \in Seq(Steps)
    BY DEF Send, Steps
  <2>2. QED BY <1>10, <2>1 DEF StartSend, TypeOK, packetVars, stationVars
<1>11. ASSUME NEW t \in Codecs, SendSucceeds(t) PROVE TypeOK'
  <2>1. current[t] \in Packets
    BY <1>11, StepOfThread DEF SendSucceeds
  <2>2. delivered' \in Seq(Packets)
    BY <1>11, <2>1 DEF SendSucceeds, TypeOK
  <2>3. QED BY <1>11, <2>1, <2>2, AdvanceType
       DEF SendSucceeds, EndSend, TypeOK, stationVars
<1>12. ASSUME NEW t \in Codecs, SendFails(t) PROVE TypeOK'
  BY <1>12 DEF SendFails, TypeOK, packetVars, stationVars, threadVars
<1>13. ASSUME NEW t \in Codecs, GiveUp(t) PROVE TypeOK'
  <2>1. current[t] \in Packets
    BY <1>13, StepOfThread DEF GiveUp
  <2>2. QED BY <1>13, <2>1, AdvanceType DEF GiveUp, EndSend, TypeOK, stationVars
<1>14. CASE UNCHANGED vars
  BY <1>14 DEF vars, TypeOK, packetVars, stationVars, threadVars, sendVars
<1>15. QED
  BY <1>1, <1>2, <1>3, <1>4, <1>5, <1>6, <1>7, <1>8, <1>9, <1>10, <1>11,
     <1>12, <1>13, <1>14 DEF Next, ReflectorStep, ThreadStep, SendStep

-----------------------------------------------------------------------------
(* What is inside has arrived, and every answer finds a packet.            *)

LEMMA FlowInit == Init => FlowInv
  BY StationsAreCodecs DEF Init, FlowInv, Arrived

LEMMA AdvanceFlow ==
  ASSUME TypeOK, FlowInv, NEW t \in Codecs, NEW op, AtStep(t, op), Advance(t)
  PROVE  \A u \in Codecs : script'[u] # <<>> => current'[u] \in Arrived
<1>1. script[t] \in Seq(Steps) /\ script[t] # <<>>
  BY DEF TypeOK, AtStep
<1>2. Len(script[t]) = 1 => Tail(script[t]) = <<>>
  BY <1>1, TailOfOne
<1>3. QED BY <1>1, <1>2 DEF Advance, FlowInv, TypeOK

(* Packets do not un-arrive. *)
LEMMA FlowKept ==
  ASSUME TypeOK, FlowInv, NEW S \in SUBSET Packets, Arrived \subseteq S
  PROVE  queue \in [Codecs -> Seq(S)] /\ waiting \in [Devices -> Seq(S)]
<1>1. \A s \in Seq(Arrived) : s \in Seq(S)
  OBVIOUS
<1>2. QED BY <1>1 DEF FlowInv

LEMMA FlowStep == TypeOK /\ FlowInv /\ [Next]_vars => FlowInv'
<1> SUFFICES ASSUME TypeOK, FlowInv, [Next]_vars PROVE FlowInv'
  OBVIOUS
<1> USE StationsAreCodecs
<1>1. ASSUME NEW p \in Packets, NEW c \in CodecsIn, Receive(p, c) PROVE FlowInv'
  <2>1. Source(c) \in Codecs /\ c # None
    BY <1>1, SourceIsCodec, TranscoderAssumption DEF Receive
  <2>2. Arrived' = Arrived \cup {p}
    BY <1>1, <2>1 DEF Receive, Arrived, TypeOK
  <2>3. queue \in [Codecs -> Seq(Arrived')] /\ waiting \in [Devices -> Seq(Arrived')]
    BY <2>2, FlowKept DEF Arrived
  <2>4. queue' \in [Codecs -> Seq(Arrived')] /\ waiting' \in [Devices -> Seq(Arrived')]
    BY <1>1, <2>1, <2>2, <2>3 DEF Receive
  <2>5. \A q \in Packets : codecIn'[q] = None => isSet'[q] = {}
    BY <1>1, <2>1 DEF Receive, FlowInv, TypeOK
  <2>6. QED BY <1>1, <2>2, <2>4, <2>5 DEF Receive, FlowInv, threadVars
<1>2. ASSUME NEW p \in Packets, Dump(p) PROVE FlowInv'
  <2>1. Arrived' = Arrived \cup {p} /\ "none" # None
    BY <1>2, TranscoderAssumption DEF Dump, Arrived, TypeOK, ECodecType
  <2>2. queue' \in [Codecs -> Seq(Arrived')] /\ waiting' \in [Devices -> Seq(Arrived')]
    BY <1>2, <2>1, FlowKept DEF Arrived, Dump, stationVars
  <2>3. QED BY <1>2, <2>1, <2>2 DEF Dump, FlowInv, TypeOK, threadVars, stationVars
<1>3. ASSUME NEW t \in Codecs, Pop(t) PROVE FlowInv'
  <2>1. queue[t] \in Seq(Arrived) /\ queue[t] # <<>>
    BY <1>3 DEF Pop, FlowInv
  <2>2. Head(queue[t]) \in Arrived /\ Tail(queue[t]) \in Seq(Arrived)
    BY <2>1
  <2>3. Arrived' = Arrived
    BY <1>3 DEF Pop, packetVars, Arrived
  <2>4. QED BY <1>3, <2>2, <2>3 DEF Pop, Begin, FlowInv, TypeOK, packetVars
<1>4. ASSUME NEW d \in Codecs, FeedDevice(d) PROVE FlowInv'
  <2>1. queue[d] \in Seq(Arrived) /\ queue[d] # <<>> /\ d \in Devices
    BY <1>4 DEF FeedDevice, FlowInv
  <2>2. Head(queue[d]) \in Arrived /\ Tail(queue[d]) \in Seq(Arrived)
    BY <2>1
  <2>3. Arrived' = Arrived
    BY <1>4 DEF FeedDevice, packetVars, Arrived
  <2>4. waiting' \in [Devices -> Seq(Arrived)]
    BY <1>4, <2>1, <2>2 DEF FeedDevice, FlowInv
  <2>5. Request(d, Head(queue[d])) \in {"decode", "encode"}
    BY DEF Request
  <2>6. \A e \in Devices : Len(waiting'[e]) = Len(chip'[e])
    BY <1>4, <2>1, <2>2, <2>5 DEF FeedDevice, FlowInv, TypeOK
  <2>7. QED BY <1>4, <2>2, <2>3, <2>4, <2>6
       DEF FeedDevice, FlowInv, packetVars, threadVars
<1>5. ASSUME NEW d \in Codecs, ReadDevice(d) PROVE FlowInv'
  <2>1. d \in Devices /\ chip[d] \in Seq({"decode", "encode"}) /\ chip[d] # <<>>
    BY <1>5 DEF ReadDevice, TypeOK
  <2>2. waiting[d] \in Seq(Arrived) /\ waiting[d] # <<>>
    BY <2>1 DEF FlowInv
  <2>3. Head(waiting[d]) \in Arrived /\ Tail(waiting[d]) \in Seq(Arrived)
    BY <2>2
  <2>4. Arrived' = Arrived
    BY <1>5 DEF ReadDevice, packetVars, Arrived
  <2>5. \A e \in Devices : Len(waiting'[e]) = Len(chip'[e])
    BY <1>5, <2>1, <2>2 DEF ReadDevice, FlowInv, TypeOK
  <2>6. QED BY <1>5, <2>1, <2>3, <2>4, <2>5
       DEF ReadDevice, Begin, FlowInv, TypeOK, packetVars
<1>6. ASSUME NEW t \in Codecs, SetAudioSamples(t) PROVE FlowInv'
  <2>1. Arrived' = Arrived
    BY <1>6 DEF SetAudioSamples, Arrived
  <2>2. QED BY <1>6, <2>1, AdvanceFlow DEF SetAudioSamples, FlowInv, stationVars
<1>7. ASSUME NEW t \in Codecs, SetData(t) PROVE FlowInv'
  <2>1. Arrived' = Arrived /\ current[t] \in Arrived
    BY <1>7, StepOfThread DEF SetData, Arrived
  <2>2. \A p \in Packets : codecIn'[p] = None => isSet'[p] = {}
    BY <1>7, <2>1 DEF SetData, FlowInv, TypeOK, Arrived
  <2>3. QED BY <1>7, <2>1, <2>2, AdvanceFlow DEF SetData, FlowInv, stationVars
<1>8. ASSUME NEW t \in Codecs, HandOver(t) PROVE FlowInv'
  <2>1. Arrived' = Arrived /\ current[t] \in Arrived /\ Arg(t) \in Codecs
    BY <1>8, StepOfThread DEF HandOver, packetVars, Arrived
  <2>2. queue' \in [Codecs -> Seq(Arrived)]
    BY <1>8, <2>1 DEF HandOver, FlowInv
  <2>3. QED BY <1>8, <2>1, <2>2, AdvanceFlow DEF HandOver, FlowInv, packetVars
<1>9. ASSUME NEW t \in Codecs, CheckDone(t) PROVE FlowInv'
  <2>1. Arrived' = Arrived
    BY <1>9 DEF CheckDone, packetVars, Arrived
  <2>2. QED BY <1>9, <2>1, AdvanceFlow
       DEF CheckDone, FlowInv, packetVars, stationVars
<1>10. ASSUME NEW t \in Codecs, StartSend(t) PROVE FlowInv'
  <2>1. Arrived' = Arrived /\ current[t] \in Arrived
    BY <1>10, StepOfThread DEF StartSend, packetVars, Arrived
  <2>2. QED BY <1>10, <2>1
       DEF StartSend, FlowInv, TypeOK, packetVars, stationVars
<1>11. ASSUME NEW t \in Codecs, SendSucceeds(t) \/ GiveUp(t) PROVE FlowInv'
  <2>1. Arrived' = Arrived
    BY <1>11 DEF SendSucceeds, GiveUp, EndSend, Arrived
  <2>2. QED BY <1>11, <2>1, AdvanceFlow
       DEF SendSucceeds, GiveUp, EndSend, FlowInv, stationVars
<1>12. ASSUME NEW t \in Codecs, SendFails(t) PROVE FlowInv'
  BY <1>12 DEF SendFails, FlowInv, Arrived, packetVars, stationVars, threadVars
<1>13. CASE UNCHANGED vars
  BY <1>13 DEF vars, FlowInv, Arrived, packetVars, stationVars, threadVars
<1>14. QED
  BY <1>1, <1>2, <1>3, <1>4, <1>5, <1>6, <1>7, <1>8, <1>9, <1>10, <1>11,
     <1>12, <1>13 DEF Next, ReflectorStep, ThreadStep, SendStep

-----------------------------------------------------------------------------
(* Who sends holds send_mux, and nothing leaves twice.                     *)

LEMMA SendInit == Init => SendInv /\ SentOnce
  BY TranscoderAssumption DEF Init, SendInv, SentOnce, Delivered

(* A thread at any other step is not the one that holds send_mux. *)
LEMMA NotSending ==
  ASSUME SendInv, NEW t \in Codecs, NEW op, AtStep(t, op), op # "send"
  PROVE  sendMux # t
<1> SUFFICES ASSUME sendMux = t PROVE FALSE
  OBVIOUS
<1>1. script[t] = <<Send>>
  BY DEF SendInv
<1>2. Head(script[t]).op = "send"
  BY <1>1 DEF Send
<1>3. QED BY <1>2 DEF AtStep

(* A thread at the step "send" holds it, and its packet is still to go.    *)
LEMMA Sending ==
  ASSUME TypeOK, SendInv, NEW t \in Codecs, AtStep(t, "send")
  PROVE  sendMux = t /\ script[t] = <<Send>> /\ ToBeSent(current[t])
<1>1. script[t] \in Seq(Steps) /\ script[t] # <<>>
  BY DEF TypeOK, AtStep
<1>2. 1 \in DOMAIN script[t] /\ Head(script[t]) = script[t][1]
  BY <1>1
<1>3. sendMux = t
  BY <1>2 DEF AtStep, SendInv
<1>4. QED BY <1>3 DEF SendInv

(* Going on to the next step starts no send. *)
LEMMA AdvanceSendless ==
  ASSUME TypeOK, SendInv, NEW t \in Codecs, NEW op, AtStep(t, op), Advance(t)
  PROVE  /\ \A u \in Codecs : \A i \in DOMAIN script'[u] :
              script'[u][i].op = "send" => sendMux = u
         /\ \A u \in Codecs \ {t} :
              script'[u] = script[u] /\ current'[u] = current[u]
         /\ script[t] = <<Send>> => script'[t] = <<>>
<1>1. script[t] \in Seq(Steps) /\ script[t] # <<>>
  BY DEF TypeOK, AtStep
<1>2. script'[t] = Tail(script[t])
  BY DEF Advance, TypeOK
<1>3. \A i \in DOMAIN Tail(script[t]) :
        i + 1 \in DOMAIN script[t] /\ Tail(script[t])[i] = script[t][i + 1]
  BY <1>1
<1>4. \A u \in Codecs \ {t} : script'[u] = script[u] /\ current'[u] = current[u]
  BY DEF Advance, TypeOK
<1>5. script[t] = <<Send>> => script'[t] = <<>>
  BY <1>1, <1>2, TailOfOne
<1>6. \A i \in DOMAIN script'[t] : script'[t][i].op = "send" => sendMux = t
  BY <1>2, <1>3 DEF SendInv
<1>7. \A u \in Codecs \ {t} : \A i \in DOMAIN script'[u] :
        script'[u][i].op = "send" => sendMux = u
  BY <1>4 DEF SendInv
<1>8. QED BY <1>4, <1>5, <1>6, <1>7

(* A new handler starts no send. *)
LEMMA BeginSendless ==
  ASSUME TypeOK, SendInv, NEW t \in Codecs, NEW p,
         NEW handler \in Seq(Plain), Begin(t, p, handler)
  PROVE  /\ \A u \in Codecs : \A i \in DOMAIN script'[u] :
              script'[u][i].op = "send" => sendMux = u
         /\ \A u \in Codecs : sendMux = u =>
              script'[u] = script[u] /\ current'[u] = current[u]
<1>1. script' = [script EXCEPT ![t] = handler] /\ script[t] = <<>>
  BY DEF Begin
<1>2. \A i \in DOMAIN handler : handler[i].op # "send"
  BY PlainSequences DEF Sendless
<1>3. sendMux # t
  BY <1>1 DEF SendInv, Send
<1>4. QED BY <1>1, <1>2, <1>3 DEF SendInv, TypeOK, Begin

(* A sequence without repetition stays so when something new is appended.  *)
LEMMA AppendNew ==
  ASSUME NEW S, NEW s \in Seq(S), NEW e \in S,
         \A i, j \in DOMAIN s : s[i] = s[j] => i = j,
         e \notin {s[i] : i \in DOMAIN s}
  PROVE  LET a == Append(s, e)
         IN /\ {a[i] : i \in DOMAIN a} = {s[i] : i \in DOMAIN s} \cup {e}
            /\ \A i, j \in DOMAIN a : a[i] = a[j] => i = j
<1> DEFINE a == Append(s, e)
<1>1. /\ DOMAIN a = 1..(Len(s) + 1) /\ DOMAIN s = 1..Len(s) /\ Len(s) \in Nat
      /\ \A i \in 1..Len(s) : a[i] = s[i]
      /\ a[Len(s) + 1] = e
  OBVIOUS
<1> HIDE DEF a
<1>2. {a[i] : i \in DOMAIN a} = {s[i] : i \in DOMAIN s} \cup {e}
  BY <1>1
<1>3. \A i, j \in DOMAIN a : a[i] = a[j] => i = j
  BY <1>1
<1>4. QED BY <1>2, <1>3 DEF a

LEMMA SendStepInv ==
  TypeOK /\ FlowInv /\ SendInv /\ SentOnce /\ [Next]_vars
    => SendInv' /\ SentOnce'
<1> SUFFICES ASSUME TypeOK, FlowInv, SendInv, SentOnce, [Next]_vars
             PROVE  SendInv' /\ SentOnce'
  OBVIOUS
<1> USE StationsAreCodecs
<1>1. ASSUME NEW p \in Packets, NEW c \in CodecsIn, Receive(p, c)
      PROVE  SendInv' /\ SentOnce'
  <2>1. isSet[p] = {} /\ isSet[p] # Codecs
    BY <1>1 DEF Receive, NextPacket, FlowInv, Codecs
  <2>2. \A q \in Packets : AllCodecsAreSet(q) => AllCodecsAreSet(q)'
    BY <1>1, <2>1 DEF Receive, AllCodecsAreSet, TypeOK
  <2>3. \A t \in Codecs : sendMux = t => current[t] \in Packets
    BY DEF SendInv, FlowInv, Arrived, Send
  <2>4. SendInv'
    BY <1>1, <2>2, <2>3
       DEF Receive, SendInv, ToBeSent, Delivered, threadVars, sendVars
  <2>5. Delivered \subseteq Packets
    BY DEF Delivered, TypeOK
  <2>6. SentOnce'
    BY <1>1, <2>2, <2>5 DEF Receive, SentOnce, Delivered, sendVars
  <2>7. QED BY <2>4, <2>6
<1>2. ASSUME NEW p \in Packets, Dump(p) PROVE SendInv' /\ SentOnce'
  BY <1>2 DEF Dump, SendInv, SentOnce, Delivered, ToBeSent, AllCodecsAreSet,
              threadVars, sendVars
<1>3. ASSUME NEW t \in Codecs, Pop(t) PROVE SendInv' /\ SentOnce'
  <2>1. Begin(t, Head(queue[t]), Handler(t, codecIn[Head(queue[t])]))
    BY <1>3 DEF Pop
  <2>2. QED BY <1>3, <2>1, HandlerSteps, BeginSendless
       DEF Pop, SendInv, SentOnce, Delivered, ToBeSent, AllCodecsAreSet,
           packetVars, sendVars
<1>4. ASSUME NEW d \in Codecs, FeedDevice(d) PROVE SendInv' /\ SentOnce'
  BY <1>4 DEF FeedDevice, SendInv, SentOnce, Delivered, ToBeSent,
              AllCodecsAreSet, packetVars, threadVars, sendVars
<1>5. ASSUME NEW d \in Codecs, ReadDevice(d) PROVE SendInv' /\ SentOnce'
  <2> DEFINE p == Head(waiting[d])
  <2> PICK rewrite \in BOOLEAN :
             Begin(d, p, Response(d, codecIn[p], Head(chip[d]), rewrite))
    BY <1>5 DEF ReadDevice
  <2> DEFINE handler == Response(d, codecIn[p], Head(chip[d]), rewrite)
  <2>1. Begin(d, p, handler) /\ d \in Devices
    BY <1>5 DEF ReadDevice
  <2>2. handler \in Seq(Plain)
    BY <2>1, ResponseSteps
  <2> HIDE DEF handler, p
  <2>3. QED BY <1>5, <2>1, <2>2, BeginSendless
       DEF ReadDevice, SendInv, SentOnce, Delivered, ToBeSent, AllCodecsAreSet,
           packetVars, sendVars
<1>6. ASSUME NEW t \in Codecs, SetAudioSamples(t) PROVE SendInv' /\ SentOnce'
  <2>1. sendMux # t
    BY <1>6, NotSending DEF SetAudioSamples
  <2>2. QED BY <1>6, <2>1, AdvanceSendless
       DEF SetAudioSamples, SendInv, SentOnce, Delivered, ToBeSent,
           AllCodecsAreSet, sendVars
<1>7. ASSUME NEW t \in Codecs, SetData(t) PROVE SendInv' /\ SentOnce'
  <2>1. sendMux # t /\ Arg(t) \in Codecs /\ current[t] \in Packets
    BY <1>7, NotSending, StepOfThread DEF SetData
  <2>2. \A q \in Packets : AllCodecsAreSet(q) => AllCodecsAreSet(q)'
    BY <1>7, <2>1 DEF SetData, AllCodecsAreSet, TypeOK
  <2>3. \A u \in Codecs : sendMux = u => current[u] \in Packets
    BY DEF SendInv, FlowInv, Arrived, Send
  <2>4. SendInv'
    BY <1>7, <2>1, <2>2, <2>3, AdvanceSendless
       DEF SetData, SendInv, ToBeSent, Delivered, sendVars
  <2>5. Delivered \subseteq Packets
    BY DEF Delivered, TypeOK
  <2>6. SentOnce'
    BY <1>7, <2>2, <2>5 DEF SetData, SentOnce, Delivered, sendVars
  <2>7. QED BY <2>4, <2>6
<1>8. ASSUME NEW t \in Codecs, HandOver(t) PROVE SendInv' /\ SentOnce'
  <2>1. sendMux # t
    BY <1>8, NotSending DEF HandOver
  <2>2. QED BY <1>8, <2>1, AdvanceSendless
       DEF HandOver, SendInv, SentOnce, Delivered, ToBeSent, AllCodecsAreSet,
           packetVars, sendVars
<1>9. ASSUME NEW t \in Codecs, CheckDone(t) PROVE SendInv' /\ SentOnce'
  <2>1. sendMux # t
    BY <1>9, NotSending DEF CheckDone
  <2>2. QED BY <1>9, <2>1, AdvanceSendless
       DEF CheckDone, SendInv, SentOnce, Delivered, ToBeSent, AllCodecsAreSet,
           packetVars, sendVars
<1>10. ASSUME NEW t \in Codecs, StartSend(t) PROVE SendInv' /\ SentOnce'
  <2>1. \A u \in Codecs : sendMux # u
    BY <1>10, TranscoderAssumption DEF StartSend
  <2>2. SendInv'
    BY <1>10, <2>1 DEF StartSend, SendInv, Delivered, ToBeSent,
       AllCodecsAreSet, TypeOK, packetVars, Send
  <2>3. SentOnce'
    BY <1>10 DEF StartSend, SentOnce, Delivered, AllCodecsAreSet, packetVars
  <2>4. QED BY <2>2, <2>3
<1>11. ASSUME NEW t \in Codecs, AtStep(t, "send"), EndSend(t),
              \/ delivered' = Append(delivered, current[t]) /\ UNCHANGED dropped
              \/ dropped' = dropped \cup {current[t]} /\ UNCHANGED delivered
       PROVE  SendInv' /\ SentOnce'
  <2> DEFINE p == current[t]
  <2>1. p \in Packets /\ ToBeSent(p) /\ sendMux = t /\ script[t] = <<Send>>
    BY <1>11, Sending, StepOfThread
  <2>2. p \notin Delivered /\ p \notin dropped
    BY <2>1 DEF ToBeSent, SendInv
  <2> HIDE DEF p
  <2>3. /\ Delivered' \cup dropped' = Delivered \cup dropped \cup {p}
        /\ Delivered' \cap dropped' = {}
        /\ Delivered' \subseteq Delivered \cup {p}
        /\ \A i, j \in DOMAIN delivered' : delivered'[i] = delivered'[j] => i = j
    <3>1. CASE delivered' = Append(delivered, p) /\ UNCHANGED dropped
      <4> DEFINE a == Append(delivered, p)
      <4>1. /\ delivered \in Seq(Packets)
            /\ \A i, j \in DOMAIN delivered : delivered[i] = delivered[j] => i = j
            /\ p \notin {delivered[i] : i \in DOMAIN delivered}
        BY <2>2 DEF TypeOK, SentOnce, Delivered
      <4>2. /\ {a[i] : i \in DOMAIN a} = {delivered[i] : i \in DOMAIN delivered} \cup {p}
            /\ \A i, j \in DOMAIN a : a[i] = a[j] => i = j
        BY <2>1, <4>1, AppendNew
      <4> HIDE DEF a
      <4>3. delivered' = a
        BY <3>1 DEF a
      <4>4. Delivered' = Delivered \cup {p}
        BY <4>2, <4>3 DEF Delivered
      <4>5. QED BY <3>1, <4>2, <4>3, <4>4, <2>2 DEF SentOnce
    <3>2. CASE dropped' = dropped \cup {p} /\ UNCHANGED delivered
      <4>1. Delivered' = Delivered
        BY <3>2 DEF Delivered
      <4>2. QED BY <3>2, <4>1, <2>2 DEF SentOnce
    <3>3. QED BY <1>11, <3>1, <3>2 DEF p
  <2>5. \A u \in Codecs : \A i \in DOMAIN script'[u] : script'[u][i].op # "send"
    BY <1>11, <2>1, AdvanceSendless DEF EndSend
  <2>6. \A u \in Codecs : sendMux' # u
    BY <1>11, TranscoderAssumption DEF EndSend
  <2>7. \A q \in Packets : notSent'[q] => q # p /\ notSent[q]
    BY <1>11, <2>1 DEF EndSend, TypeOK, p
  <2>8. SendInv'
    BY <2>3, <2>5, <2>6, <2>7 DEF SendInv
  <2>9. SentOnce'
    BY <1>11, <2>1, <2>3
       DEF SentOnce, EndSend, ToBeSent, AllCodecsAreSet
  <2>10. QED BY <2>8, <2>9
<1>12. ASSUME NEW t \in Codecs, SendFails(t) PROVE SendInv' /\ SentOnce'
  BY <1>12 DEF SendFails, SendInv, SentOnce, Delivered, ToBeSent,
               AllCodecsAreSet, packetVars, threadVars
<1>13. CASE UNCHANGED vars
  BY <1>13 DEF vars, SendInv, SentOnce, Delivered, ToBeSent, AllCodecsAreSet,
               packetVars, threadVars, sendVars
<1>14. QED
  BY <1>1, <1>2, <1>3, <1>4, <1>5, <1>6, <1>7, <1>8, <1>9, <1>10, <1>11,
     <1>12, <1>13
     DEF Next, ReflectorStep, ThreadStep, SendStep, SendSucceeds, GiveUp

-----------------------------------------------------------------------------
(* The pipeline always has its types, for any number of packets and either *)
(* hardware: every thread with steps left has a packet, every push goes to *)
(* a queue there is, every answer finds a packet waiting.                  *)
THEOREM TypeCorrect == Spec => [](TypeOK /\ FlowInv)
<1>1. Init => TypeOK /\ FlowInv
  BY TypeInit, FlowInit
<1>2. TypeOK /\ FlowInv /\ [Next]_vars => (TypeOK /\ FlowInv)'
  BY TypeStep, FlowStep
<1>3. QED BY <1>1, <1>2, PTL DEF Spec

(* SendToReflector is only ever run by the thread that holds send_mux, for *)
(* a packet complete and unsent, and no packet leaves twice, is both sent  *)
(* and given up, or is sent incomplete.                                    *)
THEOREM SendOnce == Spec => [](SendInv /\ SentOnce)
<1>1. Init => SendInv /\ SentOnce
  BY SendInit
<1>2. (TypeOK /\ FlowInv) /\ (SendInv /\ SentOnce) /\ [Next]_vars
        => (SendInv /\ SentOnce)'
  BY SendStepInv
<1>3. QED BY <1>1, <1>2, TypeCorrect, PTL DEF Spec

-----------------------------------------------------------------------------
(* Sequences, and the sets of their elements.                              *)

LEMMA TailElements ==
  ASSUME NEW S, NEW s \in Seq(S), s # <<>>
  PROVE  {s[i] : i \in DOMAIN s}
           = {Head(s)} \cup {Tail(s)[i] : i \in DOMAIN Tail(s)}
<1> DEFINE r == Tail(s)
<1>1. /\ DOMAIN s = 1..Len(s) /\ DOMAIN r = 1..(Len(s) - 1)
      /\ Len(s) \in Nat \ {0} /\ Head(s) = s[1]
      /\ \A i \in 1..(Len(s) - 1) : r[i] = s[i + 1]
  BY EmptySeq
<1> HIDE DEF r
<1>2. \A i \in DOMAIN s : s[i] \in {Head(s)} \cup {r[j] : j \in DOMAIN r}
  <2> SUFFICES ASSUME NEW i \in DOMAIN s, i # 1
               PROVE  \E j \in DOMAIN r : s[i] = r[j]
    BY <1>1
  <2>1. i - 1 \in DOMAIN r /\ r[i - 1] = s[i]
    BY <1>1
  <2>2. QED BY <2>1
<1>3. \A j \in DOMAIN r : j + 1 \in DOMAIN s /\ r[j] = s[j + 1]
  BY <1>1
<1>4. 1 \in DOMAIN s
  BY <1>1
<1>5. QED BY <1>1, <1>2, <1>3, <1>4 DEF r

LEMMA AppendElements ==
  ASSUME NEW S, NEW s \in Seq(S), NEW e \in S, NEW a, a = Append(s, e)
  PROVE  {a[i] : i \in DOMAIN a} = {s[i] : i \in DOMAIN s} \cup {e}
<1>1. /\ DOMAIN a = 1..(Len(s) + 1) /\ DOMAIN s = 1..Len(s) /\ Len(s) \in Nat
      /\ \A i \in 1..Len(s) : a[i] = s[i]
      /\ a[Len(s) + 1] = e
  OBVIOUS
<1>2. QED BY <1>1

LEMMA Cons ==
  ASSUME NEW S, NEW e \in S, NEW s \in Seq(S)
  PROVE  /\ <<e>> \o s \in Seq(S) /\ <<e>> \o s # <<>>
         /\ (<<e>> \o s)[1] = e /\ Tail(<<e>> \o s) = s
         /\ Head(<<e>> \o s) = e
<1> DEFINE a == <<e>> \o s
<1>1. /\ a \in Seq(S) /\ Len(a) = Len(s) + 1
      /\ \A i \in 1..(Len(s) + 1) : a[i] = IF i <= 1 THEN e ELSE s[i - 1]
  BY ConcatProperties, <<e>> \in Seq(S)
<1> HIDE DEF a
<1>2. Len(s) \in Nat /\ a # <<>> /\ a[1] = e /\ Head(a) = e
  BY <1>1
<1>3. /\ Tail(a) \in Seq(S) /\ Len(Tail(a)) = Len(s)
      /\ \A i \in 1..Len(s) : Tail(a)[i] = a[i + 1]
  BY <1>1, <1>2, HeadTailProperties
<1>4. \A i \in 1..Len(s) : Tail(a)[i] = s[i]
  BY <1>1, <1>2, <1>3
<1>5. Tail(a) = s
  BY <1>3, <1>4, SeqEqual
<1>6. QED BY <1>1, <1>2, <1>5 DEF a

LEMMA HeadOn ==
  ASSUME NEW S, NEW s \in Seq(S), s # <<>>
  PROVE  <<Head(s)>> \o Tail(s) = s
<1> DEFINE a == <<Head(s)>> \o Tail(s)
<1>1. /\ Head(s) \in S /\ Head(s) = s[1] /\ Tail(s) \in Seq(S)
      /\ Len(s) \in Nat \ {0} /\ Len(Tail(s)) = Len(s) - 1
      /\ \A i \in 1..(Len(s) - 1) : Tail(s)[i] = s[i + 1]
  BY HeadTailProperties, EmptySeq
<1>2. /\ a \in Seq(S) /\ Len(a) = Len(s)
      /\ \A i \in 1..Len(s) : a[i] = IF i <= 1 THEN s[1] ELSE Tail(s)[i - 1]
  BY <1>1, ConcatProperties, <<Head(s)>> \in Seq(S)
<1> HIDE DEF a
<1>3. \A i \in 1..Len(s) : a[i] = s[i]
  BY <1>1, <1>2
<1>4. a = s
  BY <1>2, <1>3, SeqEqual
<1>5. QED BY <1>4 DEF a

LEMMA MovedOver ==
  ASSUME NEW S, NEW s \in Seq(S), NEW q \in Seq(S), q # <<>>
  PROVE  Append(s, Head(q)) \o Tail(q) = s \o q
<1>1. /\ Head(q) \in S /\ Tail(q) \in Seq(S) /\ <<Head(q)>> \in Seq(S)
      /\ <<Head(q)>> \o Tail(q) = q
  BY HeadTailProperties, HeadOn
<1>2. Append(s, Head(q)) = s \o <<Head(q)>>
  BY <1>1, AppendIsConcat
<1>3. QED BY <1>1, <1>2, ConcatAssociative

LEMMA AppendedTo ==
  ASSUME NEW S, NEW s \in Seq(S), NEW q \in Seq(S), NEW e \in S
  PROVE  s \o Append(q, e) = Append(s \o q, e)
<1>1. /\ <<e>> \in Seq(S) /\ s \o q \in Seq(S)
      /\ Append(q, e) = q \o <<e>> /\ Append(s \o q, e) = (s \o q) \o <<e>>
  BY ConcatProperties, AppendIsConcat
<1>2. QED BY <1>1, ConcatAssociative

LEMMA ThreeParts ==
  ASSUME NEW S, NEW s \in Seq(S), NEW t \in Seq(S), NEW u \in Seq(S)
  PROVE  /\ s \o t \in Seq(S) /\ t \o u \in Seq(S)
         /\ (s \o t) \o u = s \o (t \o u) /\ (s \o t) \o u \in Seq(S)
<1>1. s \o t \in Seq(S) /\ t \o u \in Seq(S)
  BY ConcatProperties
<1>2. QED BY <1>1, ConcatProperties, ConcatAssociative

LEMMA FirstBehind ==
  ASSUME NEW S, NEW s \in Seq(S), NEW t \in Seq(S), t # <<>>, NEW l, l = s \o t
  PROVE  Len(s) + 1 \in DOMAIN l /\ l[Len(s) + 1] = t[1]
<1>1. /\ l \in Seq(S) /\ Len(l) = Len(s) + Len(t)
      /\ \A i \in 1..(Len(s) + Len(t)) : l[i] =
           IF i <= Len(s) THEN s[i] ELSE t[i - Len(s)]
  BY ConcatProperties
<1>2. Len(s) \in Nat /\ Len(t) \in Nat \ {0}
  BY EmptySeq
<1>3. DOMAIN l = 1..(Len(s) + Len(t))
  BY <1>1, LenProperties
<1>4. QED BY <1>1, <1>2, <1>3

LEMMA InLastPart ==
  ASSUME NEW S, NEW s \in Seq(S), NEW t \in Seq(S), NEW i \in DOMAIN t,
         NEW l, l = s \o t
  PROVE  Len(s) + i \in DOMAIN l /\ l[Len(s) + i] = t[i]
<1>1. /\ DOMAIN l = 1..(Len(s) + Len(t))
      /\ Len(s) \in Nat /\ Len(t) \in Nat /\ i \in 1..Len(t)
  BY LenProperties
<1>2. QED BY <1>1

LEMMA FirstOfConcat ==
  ASSUME NEW S, NEW s \in Seq(S), NEW t \in Seq(S), s # <<>>
  PROVE  (s \o t)[1] = Head(s) /\ 1 \in DOMAIN (s \o t)
<1>1. /\ s \o t \in Seq(S) /\ Len(s \o t) = Len(s) + Len(t)
      /\ \A i \in 1..(Len(s) + Len(t)) : (s \o t)[i] =
           IF i <= Len(s) THEN s[i] ELSE t[i - Len(s)]
  BY ConcatProperties
<1>2. Len(s) \in Nat \ {0} /\ Len(t) \in Nat /\ Head(s) = s[1]
  BY EmptySeq
<1>3. DOMAIN (s \o t) = 1..(Len(s) + Len(t))
  BY <1>1, LenProperties
<1>4. QED BY <1>1, <1>2, <1>3

-----------------------------------------------------------------------------
(* Lines, and what each kind of step does to them.                         *)

Held(c) == IF script[c] = <<>> THEN <<>> ELSE <<current[c]>>
InChip(c) == IF c \in Devices THEN waiting[c] ELSE <<>>

LEMMA LineParts ==
  ASSUME TypeOK, FlowInv, NEW c \in Codecs
  PROVE  /\ Held(c) \in Seq(Arrived) /\ InChip(c) \in Seq(Arrived)
         /\ queue[c] \in Seq(Arrived) /\ InChip(c) \o queue[c] \in Seq(Arrived)
         /\ Line(c) = Held(c) \o (InChip(c) \o queue[c])
         /\ Line(c) \in Seq(Arrived)
<1> DEFINE S == Arrived
           h == Held(c)
           w == InChip(c)
           q == queue[c]
<1>1. h \in Seq(S) /\ w \in Seq(S) /\ q \in Seq(S)
  BY DEF Held, InChip, FlowInv
<1>2. Line(c) = (h \o w) \o q
  BY DEF Line, Held, InChip
<1> HIDE DEF S, h, w, q
<1>3. w \o q \in Seq(S) /\ (h \o w) \o q = h \o (w \o q) /\ (h \o w) \o q \in Seq(S)
  BY <1>1, ThreeParts
<1>4. QED BY <1>1, <1>2, <1>3 DEF S, h, w, q

(* The packet a thread is at is the first of its line. *)
LEMMA FirstInLine ==
  ASSUME TypeOK, FlowInv, NEW c \in Codecs, script[c] # <<>>
  PROVE  /\ Line(c) # <<>> /\ Head(Line(c)) = current[c]
         /\ Line(c)[1] = current[c] /\ 1 \in DOMAIN Line(c)
         /\ Tail(Line(c)) = InChip(c) \o queue[c]
         /\ current[c] \in At(c)
<1>1. /\ Held(c) = <<current[c]>> /\ current[c] \in Arrived
      /\ InChip(c) \o queue[c] \in Seq(Arrived)
      /\ Line(c) = Held(c) \o (InChip(c) \o queue[c])
      /\ Line(c) \in Seq(Arrived)
  BY LineParts DEF Held, FlowInv
<1>2. /\ Line(c) # <<>> /\ Head(Line(c)) = current[c]
      /\ Line(c)[1] = current[c]
      /\ Tail(Line(c)) = InChip(c) \o queue[c]
  BY <1>1, Cons
<1>3. 1 \in DOMAIN Line(c)
  BY <1>1, <1>2, EmptySeq, LenProperties
<1>4. QED BY <1>2, <1>3 DEF At

LEMMA LineOfIdle ==
  ASSUME TypeOK, FlowInv, NEW c \in Codecs, script[c] = <<>>
  PROVE  Line(c) = InChip(c) \o queue[c]
BY LineParts, ConcatEmptySeq DEF Held

LEMMA DoesIsAt ==
  ASSUME TypeOK, FlowInv, NEW c \in Codecs, NEW p, Does(c, p)
  PROVE  p \in At(c) /\ p \in Arrived
BY FirstInLine DEF Does, FlowInv

(* To take a packet, to feed the chip and to read from it leave every      *)
(* packet at its place in the line.                                        *)
LEMMA PopLine ==
  ASSUME TypeOK, FlowInv, NEW t \in Codecs, Pop(t)
  PROVE  /\ \A c \in Codecs : Line(c)' = Line(c)
         /\ Head(queue[t]) = Line(t)[1] /\ 1 \in DOMAIN Line(t)
         /\ Head(queue[t]) \in At(t)
<1> DEFINE p == Head(queue[t])
<1>1. /\ queue[t] \in Seq(Arrived) /\ queue[t] # <<>>
      /\ script[t] = <<>> /\ t \notin Devices
  BY LineParts DEF Pop, Begin, Workers
<1>2. Line(t) = queue[t]
  BY <1>1, LineOfIdle, ConcatEmptySeq DEF InChip
<1>3. /\ script'[t] = Handler(t, codecIn[p]) /\ current'[t] = p
      /\ queue'[t] = Tail(queue[t])
      /\ \A c \in Codecs \ {t} : /\ script'[c] = script[c]
                                 /\ current'[c] = current[c]
                                 /\ queue'[c] = queue[c]
  BY DEF Pop, Begin, TypeOK
<1>4. Handler(t, codecIn[p]) # <<>>
  BY DEF Handler, Codec2toAudio, AudiotoCodec2, IMBEtoAudio, AudiotoIMBE,
         USRPtoAudio, SvxToAudio, AudiotoUSRP, SWAMBE2toAudio, AudiotoSWAMBE2
<1>5. Line(t)' = (<<p>> \o <<>>) \o Tail(queue[t])
  BY <1>1, <1>3, <1>4 DEF Line
<1>6. p \in Arrived /\ <<p>> \o <<>> = <<p>> /\ <<p>> \o Tail(queue[t]) = queue[t]
  BY <1>1, HeadTailProperties, HeadOn, ConcatEmptySeq, <<p>> \in Seq(Arrived)
<1>7. \A c \in Codecs \ {t} : Line(c)' = Line(c)
  BY <1>3 DEF Line, Pop
<1>8. p = Line(t)[1] /\ 1 \in DOMAIN Line(t)
  BY <1>1, <1>2, EmptySeq, LenProperties
<1>9. QED BY <1>2, <1>5, <1>6, <1>7, <1>8 DEF At

LEMMA FeedLine ==
  ASSUME TypeOK, FlowInv, NEW d \in Codecs, FeedDevice(d)
  PROVE  \A c \in Codecs : Line(c)' = Line(c)
<1> DEFINE p == Head(queue[d])
<1>1. /\ queue[d] \in Seq(Arrived) /\ queue[d] # <<>>
      /\ waiting[d] \in Seq(Arrived) /\ d \in Devices
  BY LineParts DEF FeedDevice, FlowInv
<1>2. /\ waiting'[d] = Append(waiting[d], p) /\ queue'[d] = Tail(queue[d])
      /\ \A c \in Codecs \ {d} : queue'[c] = queue[c]
      /\ \A c \in Devices \ {d} : waiting'[c] = waiting[c]
  BY <1>1 DEF FeedDevice, TypeOK
<1>3. InChip(d)' \o queue'[d] = InChip(d) \o queue[d]
  BY <1>1, <1>2, MovedOver DEF InChip
<1>4. p \in Arrived /\ Tail(queue[d]) \in Seq(Arrived) /\ InChip(d)' \in Seq(Arrived)
  BY <1>1, <1>2, HeadTailProperties, AppendProperties DEF InChip
<1>5. Held(d)' = Held(d) /\ Held(d) \in Seq(Arrived)
  BY LineParts DEF FeedDevice, threadVars, Held
<1>6. Line(d)' = (Held(d)' \o InChip(d)') \o queue'[d]
  BY DEF Line, Held, InChip
<1>7. Line(d)' = Held(d) \o (InChip(d) \o queue[d])
  <2> DEFINE S == Arrived
             h == Held(d)
             w == InChip(d)'
             q == Tail(queue[d])
  <2>1. h \in Seq(S) /\ w \in Seq(S) /\ q \in Seq(S)
    BY <1>4, <1>5
  <2>2. Line(d)' = (h \o w) \o q
    BY <1>2, <1>5, <1>6
  <2>3. w \o q = InChip(d) \o queue[d]
    BY <1>2, <1>3
  <2> HIDE DEF S, h, w, q
  <2>4. (h \o w) \o q = h \o (w \o q)
    BY <2>1, ThreeParts
  <2>5. QED BY <2>2, <2>3, <2>4 DEF h
<1>8. \A c \in Codecs \ {d} : Line(c)' = Line(c)
  BY <1>2 DEF FeedDevice, threadVars, Line
<1>9. QED BY <1>7, <1>8, LineParts

LEMMA ReadLine ==
  ASSUME TypeOK, FlowInv, NEW d \in Codecs, ReadDevice(d)
  PROVE  /\ \A c \in Codecs : Line(c)' = Line(c)
         /\ Head(waiting[d]) = Line(d)[1] /\ 1 \in DOMAIN Line(d)
         /\ Head(waiting[d]) \in At(d)
         /\ waiting[d] # <<>> /\ waiting[d] \in Seq(Arrived)
<1> DEFINE p == Head(waiting[d])
<1> PICK rewrite \in BOOLEAN :
           Begin(d, p, Response(d, codecIn[p], Head(chip[d]), rewrite))
  BY DEF ReadDevice
<1> DEFINE handler == Response(d, codecIn[p], Head(chip[d]), rewrite)
<1>1. /\ d \in Devices /\ chip[d] # <<>> /\ script[d] = <<>>
      /\ waiting[d] \in Seq(Arrived) /\ queue[d] \in Seq(Arrived)
  BY LineParts DEF ReadDevice, Begin, FlowInv
<1>2. waiting[d] # <<>>
  <2>1. chip[d] \in Seq({"decode", "encode"}) /\ Len(waiting[d]) = Len(chip[d])
    BY <1>1 DEF TypeOK, FlowInv
  <2>2. Len(chip[d]) # 0
    BY <1>1, <2>1, EmptySeq
  <2>3. QED BY <2>1, <2>2
<1>3. /\ script'[d] = handler /\ current'[d] = p
      /\ waiting'[d] = Tail(waiting[d])
      /\ \A c \in Codecs \ {d} : /\ script'[c] = script[c]
                                 /\ current'[c] = current[c]
      /\ \A c \in Devices \ {d} : waiting'[c] = waiting[c]
      /\ queue' = queue
  BY <1>1 DEF ReadDevice, Begin, TypeOK
<1>4. handler # <<>>
  BY DEF Response, DstResponse, DmrResponse
<1> HIDE DEF handler
<1>5. Line(d)' = (<<p>> \o Tail(waiting[d])) \o queue[d]
  BY <1>1, <1>3, <1>4 DEF Line
<1>6. /\ p \in Arrived /\ <<p>> \o Tail(waiting[d]) = waiting[d]
      /\ p = waiting[d][1] /\ 1 \in DOMAIN waiting[d] /\ Len(waiting[d]) >= 1
  BY <1>1, <1>2, HeadTailProperties, HeadOn, EmptySeq, LenProperties
<1>7. \A c \in Codecs \ {d} : Line(c)' = Line(c)
  BY <1>3 DEF Line
<1>8. Line(d) = waiting[d] \o queue[d]
  BY <1>1, LineOfIdle DEF InChip
<1>9. p = Line(d)[1] /\ 1 \in DOMAIN Line(d)
  BY <1>1, <1>2, <1>8, FirstOfConcat
<1>10. QED BY <1>1, <1>2, <1>5, <1>6, <1>7, <1>8, <1>9 DEF At

(* Going on in a handler: what is left of it, and, at its end, the packet  *)
(* leaves the line.                                                        *)
LEMMA AdvanceLine ==
  ASSUME TypeOK, FlowInv, NEW t \in Codecs, NEW op, AtStep(t, op), Advance(t),
         UNCHANGED waiting, queue'[t] = queue[t]
  PROVE  /\ script'[t] = Tail(script[t])
         /\ script'[t] = <<>> => Line(t)' = Tail(Line(t))
         /\ script'[t] # <<>> => Line(t)' = Line(t) /\ current'[t] = current[t]
         /\ \A c \in Codecs \ {t} :
              script'[c] = script[c] /\ current'[c] = current[c]
         /\ Line(t) \in Seq(Arrived) /\ Line(t) # <<>>
         /\ Head(Line(t)) = current[t] /\ current[t] \in Arrived
         /\ Line(t)[1] = current[t] /\ 1 \in DOMAIN Line(t)
<1>1. script[t] \in Seq(Steps) /\ script[t] # <<>> /\ Line(t) \in Seq(Arrived)
  BY LineParts DEF TypeOK, AtStep
<1>2. /\ script'[t] = Tail(script[t])
      /\ current'[t] = IF Len(script[t]) = 1 THEN None ELSE current[t]
      /\ \A c \in Codecs \ {t} :
           script'[c] = script[c] /\ current'[c] = current[c]
  BY DEF Advance, TypeOK
<1>3. Len(script[t]) = 1 => Tail(script[t]) = <<>>
  BY <1>1, TailOfOne
<1>4. Len(script[t]) # 1 => Tail(script[t]) # <<>>
  <2>1. Len(script[t]) \in Nat \ {0} /\ Len(Tail(script[t])) = Len(script[t]) - 1
    BY <1>1, EmptySeq
  <2>2. Tail(script[t]) = <<>> => Len(Tail(script[t])) = 0
    BY EmptySeq
  <2>3. QED BY <2>1, <2>2
<1>5. ASSUME script'[t] = <<>> PROVE Line(t)' = Tail(Line(t))
  <2>1. Line(t)' = (<<>> \o InChip(t)) \o queue[t]
    BY <1>5 DEF Line, InChip
  <2>2. QED BY <1>1, <2>1, LineParts, FirstInLine, ConcatEmptySeq
<1>6. ASSUME script'[t] # <<>> PROVE Line(t)' = Line(t) /\ current'[t] = current[t]
  BY <1>1, <1>2, <1>3, <1>6 DEF Line
<1>7. QED BY <1>1, <1>2, <1>5, <1>6, FirstInLine DEF FlowInv

LEMMA PushLine ==
  ASSUME TypeOK, FlowInv, NEW c \in Codecs, NEW p \in Packets,
         queue'[c] = Append(queue[c], p), UNCHANGED waiting,
         script'[c] = script[c], current'[c] = current[c]
  PROVE  Line(c)' = Append(Line(c), p) /\ Line(c) \in Seq(Packets)
<1> DEFINE front == Held(c) \o InChip(c)
           q == queue[c]
<1>1. front \in Seq(Packets) /\ q \in Seq(Packets)
  <2>1. /\ Held(c) \in Seq(Packets) /\ InChip(c) \in Seq(Packets)
        /\ queue[c] \in Seq(Packets)
    BY LineParts, SeqMonotonic DEF Arrived
  <2>2. QED BY <2>1, ConcatProperties
<1>2. Line(c) = front \o q /\ Line(c)' = front \o Append(q, p)
  BY DEF Line, Held, InChip
<1> HIDE DEF front, q
<1>3. front \o Append(q, p) = Append(front \o q, p) /\ front \o q \in Seq(Packets)
  BY <1>1, AppendedTo, ConcatProperties
<1>4. QED BY <1>2, <1>3

-----------------------------------------------------------------------------
(* The steps of a handler.                                                 *)

LEMMA StepsDiffer ==
  /\ Hear("raw") # Hear("levelled")
  /\ Check # Send /\ Check.op = "check" /\ Send.op = "send"
  /\ \A x : Hear(x) # Check /\ Hear(x) # Send /\ Hear(x).op = "hear"
  /\ \A c : /\ Push(c) # Check /\ Push(c) # Send
            /\ Push(c).op = "push" /\ Push(c).arg = c
            /\ Set(c) # Check /\ Set(c) # Send
            /\ Set(c).op = "set" /\ Set(c).arg = c
  /\ \A x, c : Hear(x) # Push(c) /\ Hear(x) # Set(c)
  /\ \A c, d : Push(c) # Set(d)
  /\ \A c, d : (Push(c) = Push(d) => c = d) /\ (Set(c) = Set(d) => c = d)
BY DEF Hear, Push, Set, Check, Send

LEMMA JobFacts ==
  ASSUME NEW s \in Codecs, NEW c \in Codecs \ {s}
  PROVE  /\ Job(s, c) \in Jobs(s)
         /\ Rank(s, Job(s, c)) = 4
         /\ Job(s, c) # Set(s) /\ Job(s, c) # Check /\ Job(s, c) # Send
         /\ \A x : Job(s, c) # Hear(x)
         /\ \A a : Job(s, c) = Push(a) => a = c /\ c \in Visits(s)
         /\ \A a : Job(s, c) = Set(a) => a = c /\ c \notin Visits(s)
         /\ \A d \in Codecs : Job(s, d) = Job(s, c) => d = c
<1>1. CASE c \in Visits(s)
  <2>1. Job(s, c) = Push(c)
    BY <1>1 DEF Job
  <2>2. \A d : Job(s, d) \in {Push(d), Set(d)}
    BY DEF Job
  <2>3. QED BY <1>1, <2>1, <2>2, StepsDiffer DEF Jobs, Rank
<1>2. CASE c \notin Visits(s)
  <2>1. Job(s, c) = Set(c)
    BY <1>2 DEF Job
  <2>2. \A d : Job(s, d) \in {Push(d), Set(d)}
    BY DEF Job
  <2>3. QED BY <1>2, <2>1, <2>2, StepsDiffer DEF Jobs, Rank
<1>3. QED BY <1>1, <1>2

LEMMA Ranks ==
  ASSUME NEW s \in Codecs
  PROVE  /\ Rank(s, Hear("raw")) = 1 /\ Rank(s, Hear("levelled")) = 2
         /\ Rank(s, Set(s)) = 3
         /\ \A job \in Jobs(s) : Rank(s, job) = 4
         /\ \A job \in Jobs(s) : job # Hear("raw") /\ job # Hear("levelled")
         /\ \A job \in Jobs(s) : job # Set(s) /\ job # Check /\ job # Send
         /\ Jobs(s) # {}
<1>1. \A job \in Jobs(s) : \E c \in Codecs \ {s} : job = Job(s, c)
  BY DEF Jobs
<1>2. /\ \A job \in Jobs(s) : Rank(s, job) = 4
      /\ \A job \in Jobs(s) : job # Hear("raw") /\ job # Hear("levelled")
      /\ \A job \in Jobs(s) : job # Set(s) /\ job # Check /\ job # Send
  BY <1>1, JobFacts
<1>3. PICK c \in Codecs : c # s
  BY DEF Codecs
<1>4. Jobs(s) # {}
  BY <1>3 DEF Jobs
<1>5. QED BY <1>2, <1>4, StepsDiffer DEF Rank

(* A source's handler, one step further on. *)
LEMMA SourceGoesOn ==
  ASSUME NEW t \in Codecs, NEW s \in Seq(Steps), s # <<>>, SourceScript(t, s)
  PROVE  LET rest == {Tail(s)[i] : i \in DOMAIN Tail(s)}
         IN /\ SourceScript(t, Tail(s))
            /\ Head(s) \in {Hear("raw"), Hear("levelled"), Set(t)} \cup Jobs(t)
            /\ Head(s) \notin rest
            /\ Head(s) \in Jobs(t) => rest \subseteq Jobs(t)
            /\ Head(s) \notin Jobs(t) => Jobs(t) \subseteq rest /\ Tail(s) # <<>>
            /\ Head(s) = Hear("raw") => Hear("levelled") \in rest
<1> DEFINE r == Tail(s)
           rest == {r[i] : i \in DOMAIN r}
           front == {Hear("raw"), Hear("levelled"), Set(t)}
<1>1. /\ DOMAIN s = 1..Len(s) /\ DOMAIN r = 1..(Len(s) - 1)
      /\ Len(s) \in Nat \ {0} /\ Head(s) = s[1]
      /\ \A i \in 1..(Len(s) - 1) : r[i] = s[i + 1]
  BY EmptySeq
<1>2. r = <<>> => DOMAIN r = {}
  OBVIOUS
<1> HIDE DEF r
<1>3. \A i \in DOMAIN s :
        /\ s[i] \in front \cup Jobs(t)
        /\ s[i] \in Jobs(t) <=> ~ (Rank(t, s[i]) < 4)
        /\ Rank(t, s[i]) \in 1..4
  BY Ranks DEF SourceScript
<1>4. \A j \in DOMAIN r : j + 1 \in DOMAIN s /\ r[j] = s[j + 1] /\ 1 < j + 1
  BY <1>1
<1>5. \A i \in DOMAIN s : i # 1 => s[i] \in rest
  <2> SUFFICES ASSUME NEW i \in DOMAIN s, i # 1
               PROVE  \E j \in DOMAIN r : s[i] = r[j]
    OBVIOUS
  <2>1. i - 1 \in DOMAIN r /\ r[i - 1] = s[i]
    BY <1>1
  <2>2. QED BY <2>1
<1>6. 1 \in DOMAIN s
  BY <1>1
<1>7. \A x \in rest : \E i \in DOMAIN s : 1 < i /\ x = s[i]
  BY <1>4
<1>8. s[1] \notin rest
  BY <1>6, <1>7 DEF SourceScript
<1>9. s[1] \in Jobs(t) => rest \subseteq Jobs(t)
  <2> SUFFICES ASSUME s[1] \in Jobs(t), NEW x \in rest PROVE x \in Jobs(t)
    OBVIOUS
  <2>1. PICK i \in DOMAIN s : 1 < i /\ x = s[i]
    BY <1>7
  <2>2. Rank(t, s[1]) <= Rank(t, s[i])
    BY <1>6, <2>1 DEF SourceScript
  <2>3. QED BY <1>3, <1>6, <2>1, <2>2
<1>10. \A i \in DOMAIN s : s[i] \notin Jobs(t) => Jobs(t) \subseteq rest
  <2> SUFFICES ASSUME NEW i \in DOMAIN s, s[i] \notin Jobs(t),
                      NEW job \in Jobs(t)
               PROVE  job \in rest
    OBVIOUS
  <2>1. PICK j \in DOMAIN s : s[j] = job
    BY <1>3 DEF SourceScript
  <2>2. j # 1
    <3> SUFFICES ASSUME j = 1 PROVE FALSE
      OBVIOUS
    <3>1. s[1] \in Jobs(t) /\ i # 1
      BY <2>1
    <3>2. s[i] \in rest
      BY <1>5, <3>1
    <3>3. QED BY <1>9, <3>1, <3>2
  <2>3. QED BY <1>5, <2>1, <2>2
<1>11. \A i \in DOMAIN s : s[i] = Hear("raw") => Hear("levelled") \in rest
  <2> SUFFICES ASSUME NEW i \in DOMAIN s, s[i] = Hear("raw")
               PROVE  Hear("levelled") \in rest
    OBVIOUS
  <2>1. PICK j \in DOMAIN s : s[j] = Hear("levelled")
    BY DEF SourceScript
  <2>2. j # 1
    <3> SUFFICES ASSUME j = 1 PROVE FALSE
      OBVIOUS
    <3>1. i # 1
      BY <2>1, StepsDiffer
    <3>2. 1 < i
      BY <1>1, <3>1
    <3>3. Rank(t, s[1]) <= Rank(t, s[i])
      BY <1>6, <3>2 DEF SourceScript
    <3>4. QED BY <2>1, <3>3, Ranks
  <2>3. QED BY <1>5, <2>1, <2>2
<1>12. SourceScript(t, r)
  <2>1. ASSUME NEW i \in DOMAIN r
        PROVE  /\ r[i] \in front \cup Jobs(t)
               /\ Rank(t, r[i]) < 4 =>
                    \A job \in Jobs(t) : \E j \in DOMAIN r : r[j] = job
               /\ r[i] = Hear("raw") =>
                    \E j \in DOMAIN r : r[j] = Hear("levelled")
    <3>1. i + 1 \in DOMAIN s /\ r[i] = s[i + 1]
      BY <1>4
    <3>2. Rank(t, r[i]) < 4 => Jobs(t) \subseteq rest
      BY <1>3, <1>10, <3>1
    <3>3. r[i] = Hear("raw") => Hear("levelled") \in rest
      BY <1>11, <3>1
    <3>4. QED BY <1>3, <3>1, <3>2, <3>3
  <2>2. ASSUME NEW i \in DOMAIN r, NEW j \in DOMAIN r, i < j
        PROVE  Rank(t, r[i]) <= Rank(t, r[j]) /\ r[i] # r[j]
    <3>1. /\ i + 1 \in DOMAIN s /\ r[i] = s[i + 1]
          /\ j + 1 \in DOMAIN s /\ r[j] = s[j + 1]
      BY <1>4
    <3>2. i + 1 < j + 1
      BY <1>1, <2>2
    <3>3. QED BY <3>1, <3>2 DEF SourceScript
  <2>3. QED BY <2>1, <2>2 DEF SourceScript
<1>13. s[1] \notin Jobs(t) => r # <<>>
  BY <1>2, <1>6, <1>10, Ranks
<1>14. QED
  BY <1>1, <1>3, <1>6, <1>8, <1>9, <1>10, <1>11, <1>12, <1>13 DEF r

(* What a thread begins with at its packet's source, and elsewhere.        *)
Whole(s, steps) ==
  /\ SourceScript(s, steps)
  /\ Jobs(s) \cup {Hear("levelled")} \subseteq {steps[i] : i \in DOMAIN steps}
  /\ steps # <<>>

LEMMA WholeScripts ==
  ASSUME NEW s \in Codecs, NEW a, NEW b, NEW c, NEW d, Jobs(s) = {a, b, c, d},
         a # b, a # c, a # d, b # c, b # d, c # d
  PROVE  /\ Whole(s, <<Hear("levelled"), a, b, c, d>>)
         /\ Whole(s, <<Hear("raw"), Hear("levelled"), a, b, c, d>>)
         /\ Whole(s, <<Hear("raw"), Hear("levelled"), Set(s), a, b, c, d>>)
<1> DEFINE raw == Hear("raw")
           lev == Hear("levelled")
           own == Set(s)
<1>1. /\ Rank(s, raw) = 1 /\ Rank(s, lev) = 2 /\ Rank(s, own) = 3
      /\ Rank(s, a) = 4 /\ Rank(s, b) = 4 /\ Rank(s, c) = 4 /\ Rank(s, d) = 4
      /\ raw # lev /\ raw # own /\ lev # own
      /\ \A job \in {a, b, c, d} : job # raw /\ job # lev /\ job # own
  BY Ranks, StepsDiffer
<1> HIDE DEF raw, lev, own
<1>2. Whole(s, <<lev, a, b, c, d>>)
  BY <1>1 DEF Whole, SourceScript, raw, lev, own
<1>3. Whole(s, <<raw, lev, a, b, c, d>>)
  BY <1>1 DEF Whole, SourceScript, raw, lev, own
<1>4. Whole(s, <<raw, lev, own, a, b, c, d>>)
  BY <1>1 DEF Whole, SourceScript, raw, lev, own
<1>5. QED BY <1>2, <1>3, <1>4 DEF raw, lev, own

LEMMA JobsOf ==
  /\ Jobs("dstar") = {Push("m17"), Push("p25"), Push("usrp"), Push("dmr")}
  /\ Jobs("dmr") = {Push("m17"), Push("p25"), Push("usrp"), Push("dstar")}
  /\ Jobs("p25") = {Push("dstar"), Push("m17"), Push("dmr"), Push("usrp")}
  /\ Jobs("usrp") = {Push("dstar"), Push("m17"), Push("dmr"), Push("p25")}
  /\ Jobs("m17") = {Push("dstar"),
                    IF HasDmrsf THEN Push("dmr") ELSE Set("dmr"),
                    Set("p25"), Set("usrp")}
<1>1. /\ Codecs \ {"dstar"} = {"m17", "p25", "usrp", "dmr"}
      /\ Codecs \ {"dmr"} = {"m17", "p25", "usrp", "dstar"}
      /\ Codecs \ {"p25"} = {"dstar", "m17", "dmr", "usrp"}
      /\ Codecs \ {"usrp"} = {"dstar", "m17", "dmr", "p25"}
      /\ Codecs \ {"m17"} = {"dstar", "dmr", "p25", "usrp"}
  BY DEF Codecs
<1>2. \A s \in Codecs : s # "m17" =>
        \A c \in Codecs \ {s} : Job(s, c) = Push(c)
  BY DEF Job, Visits
<1>3. /\ Job("m17", "dstar") = Push("dstar")
      /\ Job("m17", "dmr") = IF HasDmrsf THEN Push("dmr") ELSE Set("dmr")
      /\ Job("m17", "p25") = Set("p25") /\ Job("m17", "usrp") = Set("usrp")
  BY DEF Job, Visits, Devices
<1>4. \A s, w, x, y, z : Codecs \ {s} = {w, x, y, z} =>
        Jobs(s) = {Job(s, w), Job(s, x), Job(s, y), Job(s, z)}
  BY DEF Jobs
<1>5. Jobs("m17") = {Job("m17", "dstar"), Job("m17", "dmr"),
                     Job("m17", "p25"), Job("m17", "usrp")}
  BY <1>1, <1>4
<1>6. /\ Jobs("dstar") = {Push("m17"), Push("p25"), Push("usrp"), Push("dmr")}
      /\ Jobs("dmr") = {Push("m17"), Push("p25"), Push("usrp"), Push("dstar")}
  BY <1>1, <1>2, <1>4 DEF Codecs
<1>7. /\ Jobs("p25") = {Push("dstar"), Push("m17"), Push("dmr"), Push("usrp")}
      /\ Jobs("usrp") = {Push("dstar"), Push("m17"), Push("dmr"), Push("p25")}
  BY <1>1, <1>2, <1>4 DEF Codecs
<1>8. QED BY <1>3, <1>5, <1>6, <1>7

LEMMA JobsDiffer ==
  /\ Push("dstar") # Push("dmr") /\ Push("dstar") # Push("p25")
  /\ Push("dstar") # Push("m17") /\ Push("dstar") # Push("usrp")
  /\ Push("dmr") # Push("p25") /\ Push("dmr") # Push("m17")
  /\ Push("dmr") # Push("usrp") /\ Push("p25") # Push("m17")
  /\ Push("p25") # Push("usrp") /\ Push("m17") # Push("usrp")
  /\ Set("dmr") # Set("p25") /\ Set("dmr") # Set("usrp")
  /\ Set("p25") # Set("usrp")
  /\ \A c, d : Push(c) # Set(d)
<1>1. \A c, d : c # d => Push(c) # Push(d) /\ Set(c) # Set(d)
  BY StepsDiffer
<1>2. /\ "dstar" # "dmr" /\ "dstar" # "p25" /\ "dstar" # "m17"
      /\ "dstar" # "usrp" /\ "dmr" # "p25" /\ "dmr" # "m17" /\ "dmr" # "usrp"
      /\ "p25" # "m17" /\ "p25" # "usrp" /\ "m17" # "usrp"
  OBVIOUS
<1>3. QED BY <1>1, <1>2, StepsDiffer

LEMMA HandlerScript ==
  ASSUME NEW t \in Workers, NEW c \in ECodecType \ {"none"}
  PROVE  /\ Source(c) = t => Whole(t, Handler(t, c))
         /\ Source(c) # t => Handler(t, c) = <<Set(t), Check>>
<1>1. ASSUME Source(c) # t PROVE Handler(t, c) = <<Set(t), Check>>
  BY <1>1 DEF Workers, Codecs, Devices, Handler, Source, ECodecType,
     AudiotoCodec2, AudiotoIMBE, AudiotoUSRP, AudiotoSWAMBE2
<1>2. ASSUME Source(c) = t PROVE Whole(t, Handler(t, c))
  <2>1. t \in {"dmr", "p25", "m17", "usrp"} /\ (t = "dmr" => ~ HasDmrsf)
    BY DEF Workers, Codecs, Devices
  <2>2. CASE t = "m17"
    <3> DEFINE second == IF HasDmrsf THEN Push("dmr") ELSE Set("dmr")
    <3>1. Handler(t, c) = <<Hear("levelled"), Push("dstar"), second,
                            Set("p25"), Set("usrp")>>
      BY <1>2, <2>2 DEF Handler, Codec2toAudio
    <3>2. second \in {Push("dmr"), Set("dmr")}
      OBVIOUS
    <3>3. Jobs(t) = {Push("dstar"), second, Set("p25"), Set("usrp")}
      BY <2>2, JobsOf
    <3> HIDE DEF second
    <3>4. Whole(t, <<Hear("levelled"), Push("dstar"), second,
                     Set("p25"), Set("usrp")>>)
      BY <3>2, <3>3, JobsDiffer, WholeScripts, t \in Codecs DEF Workers
    <3>5. QED BY <3>1, <3>4
  <2>3. CASE t = "p25"
    <3>1. Handler(t, c) = IMBEtoAudio
      BY <1>2, <2>3 DEF Handler, Source, ECodecType
    <3>2. Jobs(t) = {Push("dstar"), Push("m17"), Push("dmr"), Push("usrp")}
      BY <2>3, JobsOf
    <3>3. Whole(t, <<Hear("levelled"), Push("dstar"), Push("m17"),
                     Push("dmr"), Push("usrp")>>)
      BY <3>2, JobsDiffer, WholeScripts, t \in Codecs DEF Workers
    <3>4. QED BY <3>1, <3>3 DEF IMBEtoAudio
  <2>4. CASE t = "usrp"
    <3>1. Handler(t, c) \in {USRPtoAudio, SvxToAudio}
      BY <1>2, <2>4 DEF Handler, Source, ECodecType
    <3>2. Jobs(t) = {Push("dstar"), Push("m17"), Push("dmr"), Push("p25")}
      BY <2>4, JobsOf
    <3>3. Whole(t, <<Hear("levelled"), Push("dstar"), Push("m17"),
                     Push("dmr"), Push("p25")>>)
      BY <3>2, JobsDiffer, WholeScripts, t \in Codecs DEF Workers
    <3>4. QED BY <3>1, <3>3 DEF USRPtoAudio, SvxToAudio
  <2>5. CASE t = "dmr"
    <3>1. Handler(t, c) = SWAMBE2toAudio
      BY <1>2, <2>5 DEF Handler, Source, ECodecType
    <3>2. Jobs(t) = {Push("dstar"), Push("m17"), Push("p25"), Push("usrp")}
      BY <2>5, JobsOf
    <3>3. Whole(t, <<Hear("levelled"), Push("dstar"), Push("m17"),
                     Push("p25"), Push("usrp")>>)
      BY <3>2, JobsDiffer, WholeScripts, t \in Codecs DEF Workers
    <3>4. QED BY <3>1, <3>3 DEF SWAMBE2toAudio
  <2>6. QED BY <2>1, <2>2, <2>3, <2>4, <2>5
<1>3. QED BY <1>1, <1>2

LEMMA ResponseScript ==
  ASSUME NEW d \in Devices, NEW c \in ECodecType \ {"none"},
         NEW rewrite \in BOOLEAN
  PROVE  /\ Source(c) = d => Whole(d, Response(d, c, "decode", rewrite))
         /\ Source(c) # d => Response(d, c, "encode", rewrite) = <<Set(d), Check>>
<1>1. d \in {"dstar", "dmr"} /\ (Source(c) = d <=> c = d)
  BY DEF Devices, Source, ECodecType
<1>2. ASSUME Source(c) # d
      PROVE  Response(d, c, "encode", rewrite) = <<Set(d), Check>>
  BY <1>1, <1>2 DEF Response, DstResponse, DmrResponse, Answer
<1>3. ASSUME d = "dstar", c = d
      PROVE  Whole(d, Response(d, c, "decode", rewrite))
  <2>1. Response(d, c, "decode", rewrite) =
          <<Hear("raw"), Hear("levelled"),
            Push("m17"), Push("p25"), Push("usrp"), Push("dmr")>>
    BY <1>3 DEF Response, DstResponse, Answer
  <2>2. /\ Jobs(d) = {Push("m17"), Push("p25"), Push("usrp"), Push("dmr")}
        /\ d \in Codecs
    BY <1>3, JobsOf DEF Codecs
  <2>3. Whole(d, <<Hear("raw"), Hear("levelled"),
                   Push("m17"), Push("p25"), Push("usrp"), Push("dmr")>>)
    BY <2>2, JobsDiffer, WholeScripts
  <2>4. QED BY <2>1, <2>3
<1>4. ASSUME d = "dmr", c = d
      PROVE  Whole(d, Response(d, c, "decode", rewrite))
  <2>1. Response(d, c, "decode", rewrite) \in
          {<<Hear("raw"), Hear("levelled"), Set("dmr"),
             Push("m17"), Push("p25"), Push("usrp"), Push("dstar")>>,
           <<Hear("raw"), Hear("levelled"),
             Push("m17"), Push("p25"), Push("usrp"), Push("dstar")>>}
    BY <1>4 DEF Response, DmrResponse, Answer
  <2>2. /\ Jobs(d) = {Push("m17"), Push("p25"), Push("usrp"), Push("dstar")}
        /\ d \in Codecs
    BY <1>4, JobsOf DEF Codecs
  <2>3. /\ Whole(d, <<Hear("raw"), Hear("levelled"), Set(d),
                      Push("m17"), Push("p25"), Push("usrp"), Push("dstar")>>)
        /\ Whole(d, <<Hear("raw"), Hear("levelled"),
                      Push("m17"), Push("p25"), Push("usrp"), Push("dstar")>>)
    BY <2>2, JobsDiffer, WholeScripts
  <2>4. QED BY <1>4, <2>1, <2>3
<1>5. QED BY <1>1, <1>2, <1>3, <1>4

-----------------------------------------------------------------------------
(* What the invariant says of a packet, in the forms the steps need.       *)

Safe == TypeOK /\ FlowInv /\ SendInv /\ TravelInv

LEMMA GoingHasSource ==
  ASSUME TypeOK
  PROVE  /\ \A p \in Going : Src(p) \in Codecs /\ p \in Packets /\ p \in Arrived
         /\ \A p \in Going : codecIn[p] \in ECodecType \ {"none"}
BY DEF Going, Arrived, Src, Source, TypeOK, ECodecType, Codecs

LEMMA DoesGoing ==
  ASSUME Safe, NEW t \in Codecs, script[t] # <<>>
  PROVE  /\ current[t] \in At(t) /\ current[t] \in Going
         /\ current[t] \in Packets /\ Src(current[t]) \in Codecs
         /\ Does(t, current[t]) /\ Line(t)[1] = current[t]
         /\ 1 \in DOMAIN Line(t)
         /\ \A p : Does(t, p) <=> p = current[t]
<1>1. current[t] \in At(t) /\ Line(t)[1] = current[t] /\ 1 \in DOMAIN Line(t)
  BY FirstInLine DEF Safe
<1>2. current[t] \in Going
  BY <1>1 DEF Safe, TravelInv, LineInv
<1>3. QED BY <1>1, <1>2, GoingHasSource DEF Safe, Does

(* Behind the first of a line are only later packets of its source. *)
LEMMA BehindFirst ==
  ASSUME Safe, NEW t \in Codecs, 1 \in DOMAIN Line(t)
  PROVE  LET rest == {Tail(Line(t))[i] : i \in DOMAIN Tail(Line(t))}
         IN /\ At(t) = {Line(t)[1]} \cup rest
            /\ Line(t)[1] \notin rest
            /\ \A q \in At(t) : Src(q) = Src(Line(t)[1]) =>
                 q = Line(t)[1] \/ Line(t)[1] < q
            /\ \A i, j \in DOMAIN Tail(Line(t)) :
                 /\ i < j
                 /\ Src(Tail(Line(t))[i]) = Src(Tail(Line(t))[j])
                 => Tail(Line(t))[i] < Tail(Line(t))[j]
<1> DEFINE s == Line(t)
           r == Tail(s)
           rest == {r[i] : i \in DOMAIN r}
<1>1. s \in Seq(Arrived)
  BY LineParts DEF Safe
<1>2. /\ DOMAIN s = 1..Len(s) /\ DOMAIN r = 1..(Len(s) - 1)
      /\ Len(s) \in Nat \ {0} /\ Head(s) = s[1] /\ s # <<>>
      /\ \A i \in 1..(Len(s) - 1) : r[i] = s[i + 1]
  BY <1>1, EmptySeq
<1>3. At(t) = {s[1]} \cup rest
  BY <1>1, <1>2, TailElements DEF At
<1>4. \A i, j \in DOMAIN s : i < j /\ Src(s[i]) = Src(s[j]) => s[i] < s[j]
  BY DEF Safe, TravelInv, LineInv
<1>5. \A i \in DOMAIN s : s[i] \in Nat
  BY <1>1, <1>2 DEF Arrived, Packets
<1>6. At(t) = {s[i] : i \in DOMAIN s}
  BY DEF At
<1> HIDE DEF s, r
<1>7. \A j \in DOMAIN r : j + 1 \in DOMAIN s /\ r[j] = s[j + 1] /\ 1 < j + 1
  BY <1>2
<1>8. \A q \in rest : Src(q) = Src(s[1]) => s[1] < q
  <2> SUFFICES ASSUME NEW j \in DOMAIN r, Src(r[j]) = Src(s[1])
               PROVE  s[1] < r[j]
    OBVIOUS
  <2>1. 1 \in DOMAIN s
    BY <1>2
  <2>2. QED BY <1>4, <1>7, <2>1
<1>9. s[1] \notin rest
  <2>1. 1 \in DOMAIN s
    BY <1>2
  <2>2. s[1] \in Nat /\ ~ (s[1] < s[1])
    BY <1>5, <2>1
  <2>3. QED BY <1>8, <2>2
<1>10. \A i, j \in DOMAIN r : i < j /\ Src(r[i]) = Src(r[j]) => r[i] < r[j]
  <2> SUFFICES ASSUME NEW i \in DOMAIN r, NEW j \in DOMAIN r, i < j,
                      Src(r[i]) = Src(r[j])
               PROVE  r[i] < r[j]
    OBVIOUS
  <2>1. i + 1 < j + 1
    BY <1>2
  <2>2. QED BY <1>4, <1>7, <2>1
<1>11. QED BY <1>3, <1>8, <1>9, <1>10 DEF s, r

(* A packet that owes anything is still at its source, and so is every     *)
(* later one of that source, which owes the same.                          *)
LEMMA LaterOwe ==
  ASSUME Safe, NEW p \in Going, NEW q \in Going, p < q, Src(p) = Src(q),
         p \in At(Src(p)), NEW c \in Others(p)
  PROVE  Owed(q, c) /\ q \notin At(c) /\ c \notin isSet[q] /\ c \in Others(q)
<1> DEFINE s == Src(p)
<1>1. s \in Codecs /\ p \in Nat /\ q \in Nat
  BY GoingHasSource DEF Safe, Packets
<1>2. q \in At(s)
  BY DEF Safe, TravelInv, OrderInv
<1>3. ~ Does(s, q)
  <2> SUFFICES ASSUME Does(s, q) PROVE FALSE
    OBVIOUS
  <2>1. Line(s)[1] = q /\ 1 \in DOMAIN Line(s)
    BY <1>1, DoesGoing DEF Does
  <2>2. p = q \/ q < p
    BY <1>1, <2>1, BehindFirst
  <2>3. QED BY <1>1, <2>2
<1>4. Owed(q, c) /\ c \in Others(q)
  BY <1>2, <1>3 DEF Owed, Others
<1>5. QED BY <1>4 DEF Safe, TravelInv, PlaceInv

(* A thread at a step of a handler. *)
LEMMA AtSource ==
  ASSUME Safe, NEW t \in Codecs, script[t] # <<>>, Src(current[t]) = t
  PROVE  LET step == Head(script[t])
             rest == {Tail(script[t])[i] : i \in DOMAIN Tail(script[t])}
         IN /\ Todo(t) = {step} \cup rest
            /\ SourceScript(t, Tail(script[t]))
            /\ step \in {Hear("raw"), Hear("levelled"), Set(t)} \cup Jobs(t)
            /\ step \notin rest
            /\ step \in Jobs(t) => rest \subseteq Jobs(t)
            /\ step \notin Jobs(t) =>
                 Jobs(t) \subseteq rest /\ Tail(script[t]) # <<>>
            /\ step = Hear("raw") => Hear("levelled") \in rest
<1>1. script[t] \in Seq(Steps) /\ SourceScript(t, script[t])
  BY DEF Safe, TypeOK, TravelInv, ScriptInv
<1>2. Todo(t) = {Head(script[t])} \cup
                  {Tail(script[t])[i] : i \in DOMAIN Tail(script[t])}
  BY <1>1, TailElements DEF Todo
<1>3. QED BY <1>1, <1>2, SourceGoesOn

LEMMA Elsewhere ==
  ASSUME Safe, NEW t \in Codecs, script[t] # <<>>, Src(current[t]) # t
  PROVE  \/ /\ script[t] = <<Set(t), Check>> /\ Head(script[t]) = Set(t)
            /\ Todo(t) = {Set(t), Check} /\ Tail(script[t]) = <<Check>>
         \/ /\ script[t] = <<Check>> /\ Head(script[t]) = Check
            /\ Todo(t) = {Check} /\ Tail(script[t]) = <<>>
         \/ /\ script[t] = <<Send>> /\ Head(script[t]) = Send
            /\ Todo(t) = {Send} /\ Tail(script[t]) = <<>>
<1>1. script[t] \in {<<Set(t), Check>>, <<Check>>, <<Send>>}
  BY DEF Safe, TravelInv, ScriptInv
<1>2. CASE script[t] = <<Set(t), Check>>
  BY <1>2 DEF Todo
<1>3. CASE script[t] = <<Check>>
  BY <1>3 DEF Todo
<1>4. CASE script[t] = <<Send>>
  BY <1>4 DEF Todo
<1>5. QED BY <1>1, <1>2, <1>3, <1>4

-----------------------------------------------------------------------------
(* The steps.                                                              *)

(* LineInv in two parts: the lines, and the requests in the chips. *)
InLine ==
  /\ \A c \in Codecs : At(c) \subseteq Going
  /\ \A c \in Codecs : \A i, j \in DOMAIN Line(c) :
       i < j /\ Src(Line(c)[i]) = Src(Line(c)[j]) => Line(c)[i] < Line(c)[j]
Requested ==
  \A d \in Devices : \A i \in DOMAIN chip[d] :
    chip[d][i] = IF Src(waiting[d][i]) = d THEN "decode" ELSE "encode"

Rest == ScriptInv /\ PlaceInv /\ OrderInv /\ AudioInv /\ LookInv

LEMMA Parts == TravelInv <=> InLine /\ Requested /\ Rest
BY DEF TravelInv, LineInv, InLine, Requested, Rest

LEMMA SameCodecs ==
  ASSUME UNCHANGED codecIn
  PROVE  /\ \A p : Src(p)' = Src(p)
         /\ \A p : Others(p)' = Others(p)
         /\ Arrived' = Arrived /\ Going' = Going
<1>1. \A p : Src(p)' = Src(p)
  BY DEF Src
<1>2. QED BY <1>1 DEF Others, Arrived, Going

LEMMA SameRequests ==
  ASSUME Requested, UNCHANGED <<codecIn, waiting, chip>>
  PROVE  Requested'
BY SameCodecs DEF Requested

(* Nothing moves that the invariant looks at. *)
LEMMA SameView ==
  ASSUME Safe, UNCHANGED packetVars, UNCHANGED threadVars,
         \A c \in Codecs : Line(c)' = Line(c)
  PROVE  InLine' /\ Rest'
<1> USE DEF packetVars, threadVars
<1>1. /\ \A p : Src(p)' = Src(p)
      /\ \A p : Others(p)' = Others(p)
      /\ Arrived' = Arrived /\ Going' = Going
  BY SameCodecs
<1>2. /\ \A c \in Codecs : At(c)' = At(c)
      /\ \A c : Todo(c)' = Todo(c)
      /\ \A c, p : Does(c, p)' <=> Does(c, p)
      /\ \A p : ToBeSent(p)' <=> ToBeSent(p)
  BY DEF At, Todo, Does, ToBeSent, AllCodecsAreSet
<1>3. \A p \in Going : Src(p) \in Codecs
  BY GoingHasSource DEF Safe
<1>4. \A p \in Going : \A c : Owed(p, c)' <=> Owed(p, c)
  BY <1>1, <1>2, <1>3 DEF Owed
<1>5. /\ InLine /\ ScriptInv /\ PlaceInv /\ OrderInv /\ AudioInv /\ LookInv
  BY Parts DEF Safe, Rest
<1>6. InLine'
  BY <1>1, <1>2, <1>5 DEF InLine
<1>7. ScriptInv'
  BY <1>1, <1>5 DEF ScriptInv
<1>8. PlaceInv'
  BY <1>1, <1>2, <1>3, <1>4, <1>5 DEF PlaceInv, Others
<1>9. OrderInv'
  BY <1>1, <1>2, <1>3, <1>4, <1>5 DEF OrderInv, Others
<1>10. AudioInv'
  BY <1>1, <1>2, <1>3, <1>5 DEF AudioInv, Others
<1>11. LookInv'
  BY <1>1, <1>2, <1>5 DEF LookInv
<1>12. QED BY <1>6, <1>7, <1>8, <1>9, <1>10, <1>11 DEF Rest

(* A thread that had nothing to do takes a packet. *)
LEMMA Taken ==
  ASSUME Safe, UNCHANGED packetVars,
         \A c \in Codecs : Line(c)' = Line(c),
         NEW t \in Codecs, NEW p \in At(t), NEW handler,
         script[t] = <<>>, script'[t] = handler, current'[t] = p,
         \A u \in Codecs \ {t} : script'[u] = script[u] /\ current'[u] = current[u],
         Src(p) = t => Whole(t, handler),
         Src(p) # t => handler = <<Set(t), Check>>
  PROVE  InLine' /\ Rest'
<1> USE DEF packetVars
<1>1. /\ \A q : Src(q)' = Src(q)
      /\ \A q : Others(q)' = Others(q)
      /\ Arrived' = Arrived /\ Going' = Going
  BY SameCodecs
<1>2. InLine /\ ScriptInv /\ PlaceInv /\ OrderInv /\ AudioInv /\ LookInv
  BY Parts DEF Safe, Rest
<1>3. /\ \A c \in Codecs : At(c)' = At(c)
      /\ \A q : ToBeSent(q)' <=> ToBeSent(q)
      /\ \A u \in Codecs \ {t} : /\ Todo(u)' = Todo(u)
                                 /\ \A q : Does(u, q)' <=> Does(u, q)
  BY DEF At, Todo, Does, ToBeSent, AllCodecsAreSet
<1>4. \A q \in Going : Src(q) \in Codecs
  BY GoingHasSource DEF Safe
<1>5. p \in Going
  BY <1>2 DEF InLine
<1>6. handler # <<>> /\ \A q : ~ Does(t, q) /\ (Does(t, q)' <=> q = p)
  BY DEF Does, Whole
<1>7. Todo(t)' = {handler[i] : i \in DOMAIN handler}
  BY DEF Todo
<1>8. Src(p) = t => Jobs(t) \cup {Hear("levelled")} \subseteq Todo(t)'
  BY <1>7 DEF Whole
<1>9. Src(p) # t => Set(t) \in Todo(t)' /\ ~ ToBeSent(p)
  <2>1. Src(p) # t => Set(t) \in Todo(t)'
    BY <1>7
  <2>2. Src(p) # t => t \in Others(p) /\ t \notin isSet[p]
    BY <1>2, <1>4, <1>5, <1>6 DEF PlaceInv, Others
  <2>3. QED BY <2>1, <2>2 DEF ToBeSent, AllCodecsAreSet
<1>10. ASSUME NEW q \in Going, NEW c \in Others(q)
       PROVE  Owed(q, c)' <=> Owed(q, c)
  <2>1. CASE Src(q) # t
    BY <1>1, <1>3, <1>4, <2>1 DEF Owed
  <2>2. CASE Src(q) = t
    <3>1. Job(t, c) \in Jobs(t)
      BY <2>2 DEF Jobs, Others
    <3>2. QED BY <1>1, <1>3, <1>6, <1>8, <2>2, <3>1 DEF Owed
  <2>3. QED BY <2>1, <2>2
<1>11. InLine'
  BY <1>1, <1>2, <1>3 DEF InLine
<1>12. ScriptInv'
  BY <1>1, <1>2 DEF ScriptInv, Whole
<1>13. PlaceInv'
  <2> SUFFICES ASSUME NEW q \in Going
               PROVE  /\ Src(q) \in isSet[q]
                      /\ \A c \in Others(q) :
                           /\ Owed(q, c)' => q \notin At(c) /\ c \notin isSet[q]
                           /\ q \in At(c) =>
                                /\ c \in Visits(Src(q))
                                /\ c \in isSet[q] <=>
                                     Does(c, q)' /\ Set(c) \notin Todo(c)'
                           /\ ~ Owed(q, c)' /\ q \notin At(c) => c \in isSet[q]
    BY <1>1, <1>3 DEF PlaceInv, Others
  <2>1. Src(q) \in isSet[q]
    BY <1>2 DEF PlaceInv
  <2>2. ASSUME NEW c \in Others(q), q \in At(c)
        PROVE  c \in isSet[q] <=> Does(c, q)' /\ Set(c) \notin Todo(c)'
    <3>1. c \in Codecs /\ c # Src(q)
      BY DEF Others
    <3>2. CASE c # t
      BY <1>2, <1>3, <2>2, <3>1, <3>2 DEF PlaceInv
    <3>3. CASE c = t
      <4>1. c \notin isSet[q]
        BY <1>2, <1>6, <2>2, <3>3 DEF PlaceInv
      <4>2. q = p => Set(t) \in Todo(t)'
        BY <1>9, <3>1, <3>3
      <4>3. QED BY <1>6, <3>3, <4>1, <4>2
    <3>4. QED BY <3>2, <3>3
  <2>3. QED BY <1>2, <1>10, <2>1, <2>2 DEF PlaceInv
<1>14. OrderInv'
  BY <1>1, <1>2, <1>3, <1>4, <1>10 DEF OrderInv, Others
<1>15. AudioInv'
  <2> SUFFICES ASSUME NEW q \in Going
               PROVE  /\ \A c \in Others(q) : q \in At(c) => audio[q] = "levelled"
                      /\ /\ Does(Src(q), q)'
                         /\ Hear("levelled") \notin Todo(Src(q))'
                         => audio[q] = "levelled"
    BY <1>1, <1>3 DEF AudioInv, Others
  <2>1. QED BY <1>1, <1>2, <1>3, <1>4, <1>6, <1>8 DEF AudioInv
<1>16. LookInv'
  <2> SUFFICES ASSUME NEW q \in Going, ToBeSent(q), Src(q) # "m17"
               PROVE  \E u \in Codecs :
                        Does(u, q)' /\ script'[u] \in {<<Check>>, <<Send>>}
    BY <1>1, <1>3 DEF LookInv
  <2>1. PICK u \in Codecs : Does(u, q) /\ script[u] \in {<<Check>>, <<Send>>}
    BY <1>2 DEF LookInv
  <2>2. u # t
    BY <1>6, <2>1
  <2>3. QED BY <1>3, <2>1, <2>2
<1>17. QED BY <1>11, <1>12, <1>13, <1>14, <1>15, <1>16 DEF Rest

LEMMA AppendAt ==
  ASSUME NEW c, NEW p \in Packets, Line(c) \in Seq(Packets),
         Line(c)' = Append(Line(c), p)
  PROVE  At(c)' = At(c) \cup {p}
BY AppendElements DEF At

(* Which steps are done where. *)
LEMMA StepIs ==
  ASSUME Safe, NEW t \in Codecs, NEW op, AtStep(t, op)
  PROVE  /\ script[t] # <<>>
         /\ op = "hear" => /\ Head(script[t]) = Hear(Arg(t)) /\ Src(current[t]) = t
                           /\ Arg(t) \in {"raw", "levelled"}
         /\ op = "push" => /\ Head(script[t]) = Push(Arg(t)) /\ Src(current[t]) = t
                           /\ Arg(t) \in Visits(t) /\ Arg(t) \in Codecs \ {t}
                           /\ Head(script[t]) = Job(t, Arg(t))
         /\ op = "set" => /\ Head(script[t]) = Set(Arg(t)) /\ Arg(t) \in Codecs
         /\ op = "check" => script[t] = <<Check>> /\ Src(current[t]) # t
         /\ op = "send" => script[t] = <<Send>> /\ Src(current[t]) # t
<1> DEFINE step == Head(script[t])
<1>1. /\ script[t] # <<>> /\ step \in Steps /\ step.op = op /\ step.arg = Arg(t)
  <2>1. script[t] # <<>> /\ script[t] \in Seq(Steps)
    BY DEF AtStep, Safe, TypeOK
  <2>2. QED BY <2>1, HeadTailProperties DEF AtStep, Arg
<1>2. /\ op = "hear" => step = Hear(Arg(t)) /\ Arg(t) \in {"raw", "levelled"}
      /\ op = "push" => step = Push(Arg(t)) /\ Arg(t) \in Codecs
      /\ op = "set" => step = Set(Arg(t)) /\ Arg(t) \in Codecs
  BY <1>1 DEF Steps, Hear, Push, Set
<1>3. Src(current[t]) # t => step \in {Set(t), Check, Send}
  BY <1>1, Elsewhere
<1>4. Src(current[t]) = t =>
        step \in {Hear("raw"), Hear("levelled"), Set(t)} \cup Jobs(t)
  BY <1>1, AtSource
<1>5. op \in {"hear", "push"} => Src(current[t]) = t
  BY <1>2, <1>3, StepsDiffer
<1>6. op \in {"check", "send"} => Src(current[t]) # t
  <2>1. \A job \in Jobs(t) : job.op \in {"push", "set"}
    BY StepsDiffer DEF Jobs, Job
  <2>2. QED BY <1>1, <1>4, <2>1, StepsDiffer
<1>7. op = "check" => script[t] = <<Check>>
  BY <1>1, <1>6, Elsewhere, StepsDiffer
<1>8. op = "send" => script[t] = <<Send>>
  BY <1>1, <1>6, Elsewhere, StepsDiffer
<1>9. op = "push" => /\ Arg(t) \in Visits(t) /\ Arg(t) \in Codecs \ {t}
                     /\ step = Job(t, Arg(t))
  <2> SUFFICES ASSUME op = "push"
               PROVE  /\ Arg(t) \in Visits(t) /\ Arg(t) \in Codecs \ {t}
                      /\ step = Job(t, Arg(t))
    OBVIOUS
  <2>1. step = Push(Arg(t)) /\ step \in Jobs(t)
    BY <1>2, <1>4, <1>5, StepsDiffer
  <2>2. PICK c \in Codecs \ {t} : step = Job(t, c)
    BY <2>1 DEF Jobs
  <2>3. QED BY <2>1, <2>2, JobFacts
<1>10. QED BY <1>1, <1>2, <1>5, <1>6, <1>7, <1>8, <1>9

(* A thread that is not the source's is through with a packet. *)
LEMMA Left ==
  ASSUME Safe, UNCHANGED <<codecIn, isSet, audio>>,
         NEW t \in Codecs, script[t] \in {<<Check>>, <<Send>>},
         NEW p, p = current[t], Src(p) # t, script'[t] = <<>>,
         \A u \in Codecs \ {t} : /\ script'[u] = script[u]
                                 /\ current'[u] = current[u]
                                 /\ Line(u)' = Line(u),
         Line(t)' = Tail(Line(t)),
         \A q \in Packets : notSent'[q] => notSent[q],
         ~ ToBeSent(p)'
  PROVE  InLine' /\ Rest'
<1> DEFINE rest == {Tail(Line(t))[i] : i \in DOMAIN Tail(Line(t))}
<1>1. /\ \A q : Src(q)' = Src(q)
      /\ \A q : Others(q)' = Others(q)
      /\ Arrived' = Arrived /\ Going' = Going
  BY SameCodecs
<1>2. InLine /\ ScriptInv /\ PlaceInv /\ OrderInv /\ AudioInv /\ LookInv
  BY Parts DEF Safe, Rest
<1>3. /\ p \in At(t) /\ p \in Going /\ Line(t)[1] = p /\ 1 \in DOMAIN Line(t)
      /\ \A q : Does(t, q) <=> q = p
  BY DoesGoing
<1>4. /\ At(t) = {p} \cup rest /\ p \notin rest /\ At(t)' = rest
      /\ \A q \in At(t) : Src(q) = Src(p) => q = p \/ p < q
      /\ \A i, j \in DOMAIN Tail(Line(t)) :
           i < j /\ Src(Tail(Line(t))[i]) = Src(Tail(Line(t))[j])
             => Tail(Line(t))[i] < Tail(Line(t))[j]
  <2>1. At(t)' = rest
    BY DEF At
  <2>2. QED BY <1>3, <2>1, BehindFirst
<1>5. /\ \A u \in Codecs \ {t} : /\ At(u)' = At(u) /\ Todo(u)' = Todo(u)
                                 /\ \A q : Does(u, q)' <=> Does(u, q)
      /\ \A q : ~ Does(t, q)'
      /\ \A q \in Packets : ToBeSent(q)' => ToBeSent(q)
  BY DEF At, Todo, Does, ToBeSent, AllCodecsAreSet
<1>6. \A q \in Going : Src(q) \in Codecs /\ q \in Packets /\ q \in Nat
  BY GoingHasSource DEF Safe, Packets
<1>7. t \in isSet[p]
  <2>1. Set(t) \notin Todo(t)
    BY StepsDiffer DEF Todo
  <2>2. t \in Others(p)
    BY DEF Others
  <2>3. QED BY <1>2, <1>3, <2>1, <2>2 DEF PlaceInv
<1> HIDE DEF rest
<1>8. ASSUME NEW q \in Going, NEW c \in Others(q)
      PROVE  Owed(q, c)' <=> Owed(q, c)
  <2>1. CASE Src(q) # t
    BY <1>1, <1>5, <1>6, <2>1 DEF Owed
  <2>2. CASE Src(q) = t
    <3>1. q # p
      BY <2>2
    <3>2. QED BY <1>1, <1>3, <1>4, <1>5, <2>2, <3>1 DEF Owed
  <2>3. QED BY <2>1, <2>2
<1>9. \A q \in Going : \A c \in Codecs :
        q \in At(c)' <=> q \in At(c) /\ ~ (q = p /\ c = t)
  BY <1>4, <1>5
<1>10. InLine'
  <2>1. \A c \in Codecs : At(c)' \subseteq Going'
    BY <1>1, <1>2, <1>4, <1>5 DEF InLine
  <2>2. ASSUME NEW c \in Codecs,
               NEW i \in DOMAIN Line(c)', NEW j \in DOMAIN Line(c)',
               i < j, Src(Line(c)'[i]) = Src(Line(c)'[j])
        PROVE  Line(c)'[i] < Line(c)'[j]
    <3>1. CASE c = t
      BY <1>4, <2>2, <3>1
    <3>2. CASE c # t
      BY <1>2, <2>2, <3>2 DEF InLine
    <3>3. QED BY <3>1, <3>2
  <2>3. QED BY <1>1, <2>1, <2>2 DEF InLine
<1>11. ScriptInv'
  BY <1>1, <1>2 DEF ScriptInv
<1>12. PlaceInv'
  <2> SUFFICES ASSUME NEW q \in Going
               PROVE  /\ Src(q) \in isSet[q]
                      /\ \A c \in Others(q) :
                           /\ Owed(q, c)' => q \notin At(c)' /\ c \notin isSet[q]
                           /\ q \in At(c)' =>
                                /\ c \in Visits(Src(q))
                                /\ c \in isSet[q] <=>
                                     Does(c, q)' /\ Set(c) \notin Todo(c)'
                           /\ ~ Owed(q, c)' /\ q \notin At(c)' => c \in isSet[q]
    BY <1>1 DEF PlaceInv, Others
  <2>1. Src(q) \in isSet[q]
    BY <1>2 DEF PlaceInv
  <2>2. ASSUME NEW c \in Others(q)
        PROVE  /\ Owed(q, c)' => q \notin At(c)' /\ c \notin isSet[q]
               /\ ~ Owed(q, c)' /\ q \notin At(c)' => c \in isSet[q]
    <3>1. c \in Codecs
      BY DEF Others
    <3>2. QED BY <1>2, <1>7, <1>8, <1>9, <3>1 DEF PlaceInv
  <2>3. ASSUME NEW c \in Others(q), q \in At(c)'
        PROVE  /\ c \in Visits(Src(q))
               /\ c \in isSet[q] <=> Does(c, q)' /\ Set(c) \notin Todo(c)'
    <3>1. c \in Codecs
      BY DEF Others
    <3>2. CASE c # t
      BY <1>2, <1>5, <1>9, <2>3, <3>1, <3>2 DEF PlaceInv
    <3>3. CASE c = t
      BY <1>2, <1>3, <1>5, <1>9, <2>3, <3>1, <3>3 DEF PlaceInv
    <3>4. QED BY <3>2, <3>3
  <2>4. QED BY <2>1, <2>2, <2>3
<1>13. OrderInv'
  <2>1. \A r, q \in Packets : q < r /\ r \in Arrived => q \in Arrived
    BY <1>2 DEF OrderInv
  <2>2. ASSUME NEW r \in Going, NEW q \in Going, r < q, Src(r) = Src(q)
        PROVE  /\ r \in At(Src(r))' => q \in At(Src(q))'
               /\ \A c \in Others(r) :
                    r \in At(c)' => q \in At(c)' \/ Owed(q, c)'
    <3>1. r \in At(Src(r)) => q \in At(Src(q))
      BY <1>2, <2>2 DEF OrderInv
    <3>2. r \in At(Src(r))' => q \in At(Src(q))'
      BY <1>1, <1>6, <1>9, <2>2, <3>1
    <3>3. ASSUME NEW c \in Others(r), r \in At(c)'
          PROVE  q \in At(c)' \/ Owed(q, c)'
      <4>1. c \in Codecs /\ c \in Others(q)
        BY <2>2 DEF Others
      <4>2. r \in At(c) /\ ~ (r = p /\ c = t)
        BY <1>9, <3>3, <4>1
      <4>3. q \in At(c) \/ Owed(q, c)
        BY <1>2, <2>2, <4>2 DEF OrderInv
      <4>4. ~ (q = p /\ c = t)
        BY <1>4, <1>6, <2>2, <4>2, <1>3
      <4>5. QED BY <1>8, <1>9, <4>1, <4>3, <4>4
    <3>4. QED BY <3>2, <3>3
  <2>3. QED BY <1>1, <2>1, <2>2 DEF OrderInv, Others
<1>14. AudioInv'
  <2> SUFFICES ASSUME NEW q \in Going
               PROVE  /\ \A c \in Others(q) : q \in At(c)' => audio[q] = "levelled"
                      /\ /\ Does(Src(q), q)'
                         /\ Hear("levelled") \notin Todo(Src(q))'
                         => audio[q] = "levelled"
    BY <1>1 DEF AudioInv, Others
  <2>1. \A c \in Others(q) : q \in At(c)' => audio[q] = "levelled"
    BY <1>2, <1>9 DEF AudioInv, Others
  <2>2. QED BY <1>1, <1>2, <1>5, <1>6, <2>1 DEF AudioInv
<1>15. LookInv'
  <2> SUFFICES ASSUME NEW q \in Going, ToBeSent(q)', Src(q) # "m17"
               PROVE  \E u \in Codecs :
                        Does(u, q)' /\ script'[u] \in {<<Check>>, <<Send>>}
    BY <1>1 DEF LookInv
  <2>1. PICK u \in Codecs : Does(u, q) /\ script[u] \in {<<Check>>, <<Send>>}
    BY <1>2, <1>5, <1>6 DEF LookInv
  <2>2. q # p
    OBVIOUS
  <2>3. u # t
    BY <1>3, <2>1, <2>2
  <2>4. QED BY <1>5, <2>1, <2>3
<1>16. QED BY <1>10, <1>11, <1>12, <1>13, <1>14, <1>15 DEF Rest

(* A source does the job it owes another codec: it hands the packet on, or *)
(* (M17) sets that codec's flag itself; after its last job it leaves it.   *)
LEMMA JobDone ==
  ASSUME Safe, UNCHANGED <<codecIn, notSent, audio>>,
         NEW t \in Codecs, script[t] # <<>>, NEW p, p = current[t], Src(p) = t,
         NEW a \in Codecs \ {t}, Head(script[t]) = Job(t, a),
         script'[t] = Tail(script[t]),
         script'[t] = <<>> => Line(t)' = Tail(Line(t)),
         script'[t] # <<>> => Line(t)' = Line(t) /\ current'[t] = p,
         \A u \in Codecs \ {t} :
           script'[u] = script[u] /\ current'[u] = current[u],
         \A u \in Codecs \ {t, a} : Line(u)' = Line(u),
         \/ /\ a \in Visits(t) /\ isSet' = isSet
            /\ Line(a)' = Append(Line(a), p)
         \/ /\ a \notin Visits(t) /\ isSet' = [isSet EXCEPT ![p] = @ \cup {a}]
            /\ Line(a)' = Line(a)
  PROVE  InLine' /\ Rest'
<1> DEFINE step == Head(script[t])
           left == {Tail(script[t])[i] : i \in DOMAIN Tail(script[t])}
           behind == {Tail(Line(t))[i] : i \in DOMAIN Tail(Line(t))}
<1>1. /\ \A q : Src(q)' = Src(q)
      /\ \A q : Others(q)' = Others(q)
      /\ Arrived' = Arrived /\ Going' = Going
  BY SameCodecs
<1>2. InLine /\ ScriptInv /\ PlaceInv /\ OrderInv /\ AudioInv /\ LookInv
  BY Parts DEF Safe, Rest
<1>3. /\ p \in At(t) /\ p \in Going /\ Line(t)[1] = p /\ 1 \in DOMAIN Line(t)
      /\ p \in Packets /\ \A q : Does(t, q) <=> q = p
  BY DoesGoing
<1>4. \A q \in Going : Src(q) \in Codecs /\ q \in Packets /\ q \in Nat
  BY GoingHasSource DEF Safe, Packets
<1>5. /\ Todo(t) = {step} \cup left /\ step \notin left /\ step \in Jobs(t)
      /\ SourceScript(t, Tail(script[t])) /\ left \subseteq Jobs(t)
      /\ Todo(t)' = left
  <2>1. step \in Jobs(t)
    BY JobFacts
  <2>2. Todo(t)' = left
    BY DEF Todo
  <2>3. QED BY <2>1, <2>2, AtSource
<1>6. Hear("levelled") \notin Todo(t) /\ audio[p] = "levelled"
  <2>1. Hear("levelled") \notin Todo(t)
    BY <1>5, Ranks
  <2>2. QED BY <1>2, <1>3, <2>1 DEF AudioInv
<1>7. At(t) = {p} \cup behind /\ p \notin behind
  BY <1>3, BehindFirst
<1>8. script'[t] = <<>> => At(t)' = behind /\ left = {}
  <2> SUFFICES ASSUME script'[t] = <<>> PROVE At(t)' = behind /\ left = {}
    OBVIOUS
  <2>1. Line(t)' = Tail(Line(t)) /\ Tail(script[t]) = <<>>
    OBVIOUS
  <2>2. At(t)' = behind
    BY <2>1 DEF At
  <2>3. DOMAIN Tail(script[t]) = {}
    BY <2>1
  <2>4. QED BY <2>2, <2>3
<1>9. script'[t] # <<>> => At(t)' = At(t)
  BY DEF At
<1>10. \A q : q # p => (q \in At(t)' <=> q \in At(t)) /\ ~ Does(t, q)'
  <2>1. \A q : q # p => (q \in At(t)' <=> q \in At(t))
    BY <1>7, <1>8, <1>9
  <2>2. \A q : q # p => ~ Does(t, q)'
    BY DEF Does
  <2>3. QED BY <2>1, <2>2
<1>11. a \in Visits(t) => At(a)' = At(a) \cup {p}
  <2>1. Line(a) \in Seq(Packets)
    <3>1. Line(a) \in Seq(Arrived)
      BY LineParts DEF Safe
    <3>2. QED BY <3>1, SeqMonotonic DEF Arrived
  <2> SUFFICES ASSUME a \in Visits(t) PROVE At(a)' = At(a) \cup {p}
    OBVIOUS
  <2>2. Line(a)' = Append(Line(a), p)
    OBVIOUS
  <2>3. QED BY <1>3, <2>1, <2>2, AppendAt
<1>12. a \notin Visits(t) => At(a)' = At(a)
  BY DEF At
<1>13. /\ \A u \in Codecs \ {t, a} : At(u)' = At(u)
       /\ \A u \in Codecs \ {t} : /\ Todo(u)' = Todo(u)
                                  /\ \A q : Does(u, q)' <=> Does(u, q)
  BY DEF At, Todo, Does
<1>14. /\ \A q \in Going : \A c \in Codecs :
            c \in isSet'[q] <=>
              c \in isSet[q] \/ (a \notin Visits(t) /\ q = p /\ c = a)
       /\ \A q \in Going : q # p => isSet'[q] = isSet[q]
  <2>1. isSet \in [Packets -> SUBSET Codecs]
    BY DEF Safe, TypeOK
  <2>2. CASE a \in Visits(t) /\ isSet' = isSet
    BY <2>2
  <2>3. CASE a \notin Visits(t) /\ isSet' = [isSet EXCEPT ![p] = @ \cup {a}]
    BY <1>3, <1>4, <2>1, <2>3
  <2>4. QED BY <2>2, <2>3
<1>15. \A q \in Going : \A c \in Others(q) :
         q \in At(c)' <=> q \in At(c) \/ (a \in Visits(t) /\ q = p /\ c = a)
  <2> SUFFICES ASSUME NEW q \in Going, NEW c \in Others(q)
               PROVE  q \in At(c)' <=>
                        q \in At(c) \/ (a \in Visits(t) /\ q = p /\ c = a)
    OBVIOUS
  <2>1. c \in Codecs /\ (q = p => c # t)
    BY DEF Others
  <2>2. CASE c = t
    BY <1>10, <2>1, <2>2
  <2>3. CASE c = a
    BY <1>11, <1>12, <2>3
  <2>4. CASE c # t /\ c # a
    BY <1>13, <2>1, <2>4
  <2>5. QED BY <2>2, <2>3, <2>4
<1>16. Owed(p, a) /\ p \notin At(a) /\ a \notin isSet[p]
  <2>1. Owed(p, a)
    BY <1>3, <1>5 DEF Owed
  <2>2. a \in Others(p)
    BY DEF Others
  <2>3. QED BY <1>2, <1>3, <2>1, <2>2 DEF PlaceInv
<1> HIDE DEF step, left, behind
<1>17. ASSUME NEW q \in Going, NEW c \in Others(q)
       PROVE  Owed(q, c)' <=> Owed(q, c) /\ ~ (q = p /\ c = a)
  <2>1. c \in Codecs /\ c # Src(q)
    BY DEF Others
  <2>2. CASE q = p
    <3>1. Owed(p, c) <=> Job(t, c) \in Todo(t)
      BY <1>3 DEF Owed
    <3>2. Job(t, c) = step <=> c = a
      BY <2>1, <2>2, JobFacts DEF step
    <3>3. CASE script'[t] = <<>>
      <4>1. ~ Owed(p, c)'
        BY <1>1, <1>7, <1>8, <3>3 DEF Owed
      <4>2. Owed(p, c) => c = a
        BY <1>5, <1>8, <3>1, <3>2, <3>3
      <4>3. QED BY <2>2, <4>1, <4>2
    <3>4. CASE script'[t] # <<>>
      <4>1. p \in At(t)' /\ Does(t, p)'
        BY <1>3, <1>9, <3>4 DEF Does
      <4>2. Owed(p, c)' <=> Job(t, c) \in left
        BY <1>1, <1>5, <4>1 DEF Owed
      <4>3. QED BY <1>5, <2>2, <3>1, <3>2, <4>2
    <3>5. QED BY <3>3, <3>4
  <2>3. CASE q # p /\ Src(q) = t
    BY <1>1, <1>3, <1>10, <2>3 DEF Owed
  <2>4. CASE q # p /\ Src(q) # t
    <3>1. Src(q) \in Codecs \ {t}
      BY <1>4, <2>4
    <3>2. q \in At(Src(q))' <=> q \in At(Src(q))
      <4>1. CASE Src(q) = a
        BY <1>11, <1>12, <1>1, <2>4, <4>1
      <4>2. CASE Src(q) # a
        BY <1>1, <1>13, <3>1, <4>2
      <4>3. QED BY <4>1, <4>2
    <3>3. QED BY <1>1, <1>13, <2>4, <3>1, <3>2 DEF Owed
  <2>5. QED BY <2>2, <2>3, <2>4
<1>18. \A q \in At(a) : Src(q) = Src(p) => q < p
  <2> SUFFICES ASSUME NEW q \in At(a), Src(q) = Src(p), ~ (q < p) PROVE FALSE
    OBVIOUS
  <2>1. q \in Going /\ q # p
    BY <1>2, <1>16 DEF InLine
  <2>2. p < q
    BY <1>3, <1>4, <2>1
  <2>3. a \in Others(p)
    BY DEF Others
  <2>4. QED BY <1>3, <2>1, <2>2, <2>3, LaterOwe
<1>19. InLine'
  <2>1. \A c \in Codecs : At(c)' \subseteq Going'
    <3>1. At(t)' \subseteq Going
      BY <1>2, <1>3, <1>10 DEF InLine
    <3>2. At(a)' \subseteq Going
      BY <1>2, <1>3, <1>11, <1>12 DEF InLine
    <3>3. \A c \in Codecs \ {t, a} : At(c)' \subseteq Going
      BY <1>2, <1>13 DEF InLine
    <3>4. QED BY <1>1, <3>1, <3>2, <3>3
  <2>2. ASSUME NEW c \in Codecs,
               NEW i \in DOMAIN Line(c)', NEW j \in DOMAIN Line(c)',
               i < j, Src(Line(c)'[i]) = Src(Line(c)'[j])
        PROVE  Line(c)'[i] < Line(c)'[j]
    <3>1. CASE c = t
      BY <1>2, <1>3, <2>2, <3>1, BehindFirst DEF InLine
    <3>2. CASE c = a /\ a \in Visits(t)
      <4>1. Line(a) \in Seq(Arrived) /\ p \in Arrived
        BY <1>3, LineParts DEF Safe, Going
      <4>2. Line(a)' = Append(Line(a), p)
        BY <3>2
      <4>3. /\ DOMAIN Line(a)' = 1..(Len(Line(a)) + 1)
            /\ DOMAIN Line(a) = 1..Len(Line(a)) /\ Len(Line(a)) \in Nat
            /\ \A k \in 1..Len(Line(a)) : Line(a)'[k] = Line(a)[k]
            /\ Line(a)'[Len(Line(a)) + 1] = p
        BY <4>1, <4>2
      <4>4. i \in DOMAIN Line(a) /\ Line(a)'[i] = Line(a)[i]
        BY <2>2, <3>2, <4>3
      <4>5. CASE j \in DOMAIN Line(a)
        <5>1. Line(a)'[j] = Line(a)[j]
          BY <4>3, <4>5
        <5>2. QED BY <1>2, <2>2, <3>2, <4>4, <4>5, <5>1 DEF InLine
      <4>6. CASE j \notin DOMAIN Line(a)
        <5>1. Line(a)'[j] = p /\ Line(a)[i] \in At(a)
          BY <3>2, <4>3, <4>4, <4>6 DEF At
        <5>2. QED BY <1>18, <2>2, <3>2, <4>4, <5>1
      <4>7. QED BY <4>5, <4>6
    <3>3. CASE c # t /\ ~ (c = a /\ a \in Visits(t))
      <4>1. Line(c)' = Line(c)
        BY <3>3
      <4>2. QED BY <1>2, <2>2, <4>1 DEF InLine
    <3>4. QED BY <3>1, <3>2, <3>3
  <2>3. QED BY <1>1, <2>1, <2>2 DEF InLine
<1>20. ScriptInv'
  <2>1. script'[t] # <<>> => Src(current'[t]) = t /\ SourceScript(t, script'[t])
    BY <1>5
  <2>2. QED BY <1>1, <1>2, <2>1 DEF ScriptInv
<1>21. PlaceInv'
  <2> SUFFICES ASSUME NEW q \in Going
               PROVE  /\ Src(q) \in isSet'[q]
                      /\ \A c \in Others(q) :
                           /\ Owed(q, c)' => q \notin At(c)' /\ c \notin isSet'[q]
                           /\ q \in At(c)' =>
                                /\ c \in Visits(Src(q))
                                /\ c \in isSet'[q] <=>
                                     Does(c, q)' /\ Set(c) \notin Todo(c)'
                           /\ ~ Owed(q, c)' /\ q \notin At(c)' => c \in isSet'[q]
    BY <1>1 DEF PlaceInv, Others
  <2>1. Src(q) \in isSet'[q]
    BY <1>2, <1>4, <1>14 DEF PlaceInv
  <2>2. ASSUME NEW c \in Others(q)
        PROVE  /\ Owed(q, c)' => q \notin At(c)' /\ c \notin isSet'[q]
               /\ ~ Owed(q, c)' /\ q \notin At(c)' => c \in isSet'[q]
    <3>1. c \in Codecs
      BY DEF Others
    <3>2. QED BY <1>2, <1>14, <1>15, <1>17, <3>1 DEF PlaceInv
  <2>3. ASSUME NEW c \in Others(q), q \in At(c)'
        PROVE  /\ c \in Visits(Src(q))
               /\ c \in isSet'[q] <=> Does(c, q)' /\ Set(c) \notin Todo(c)'
    <3>1. c \in Codecs
      BY DEF Others
    <3>2. CASE q = p /\ c = a
      <4>1. a \in Visits(t)
        BY <1>15, <1>16, <2>3, <3>2
      <4>2. ~ Does(a, p)
        BY <1>16, DoesGoing DEF Does
      <4>3. QED BY <1>13, <1>14, <1>16, <3>2, <4>1, <4>2, <1>3
    <3>3. CASE c = t
      <4>1. q # p
        BY <3>3 DEF Others
      <4>2. QED BY <1>2, <1>3, <1>10, <1>14, <1>15, <2>3, <3>3, <4>1 DEF PlaceInv
    <3>4. CASE c # t /\ ~ (q = p /\ c = a)
      BY <1>2, <1>13, <1>14, <1>15, <2>3, <3>1, <3>4 DEF PlaceInv
    <3>5. QED BY <3>2, <3>3, <3>4
  <2>4. QED BY <2>1, <2>2, <2>3
<1>22. OrderInv'
  <2>1. \A r, q \in Packets : q < r /\ r \in Arrived => q \in Arrived
    BY <1>2 DEF OrderInv
  <2>2. ASSUME NEW r \in Going, NEW q \in Going, r < q, Src(r) = Src(q)
        PROVE  /\ r \in At(Src(r))' => q \in At(Src(q))'
               /\ \A c \in Others(r) :
                    r \in At(c)' => q \in At(c)' \/ Owed(q, c)'
    <3>1. r \in At(Src(r))' => q \in At(Src(q))'
      <4> SUFFICES ASSUME r \in At(Src(r))' PROVE q \in At(Src(r))'
        BY <1>1, <2>2
      <4>1. CASE Src(r) = t
        <5>1. r \in At(t)
          BY <1>1, <1>3, <1>10, <4>1
        <5>2. q \in At(t)
          BY <1>2, <2>2, <4>1, <5>1 DEF OrderInv
        <5>3. r = p \/ p < r
          BY <1>3, <4>1, <5>1, BehindFirst
        <5>4. q # p
          BY <1>3, <1>4, <2>2, <5>3
        <5>5. QED BY <1>1, <1>10, <4>1, <5>2, <5>4
      <4>2. CASE Src(r) = a
        <5>1. r # p /\ q # p
          BY <2>2, <4>2
        <5>2. r \in At(a)
          BY <1>1, <1>11, <1>12, <4>2, <5>1
        <5>3. q \in At(a)
          BY <1>2, <2>2, <4>2, <5>2 DEF OrderInv
        <5>4. QED BY <1>1, <1>11, <1>12, <4>2, <5>3
      <4>3. CASE Src(r) \in Codecs \ {t, a}
        BY <1>1, <1>2, <1>13, <2>2, <4>3 DEF OrderInv
      <4>4. QED BY <1>4, <4>1, <4>2, <4>3
    <3>2. ASSUME NEW c \in Others(r), r \in At(c)'
          PROVE  q \in At(c)' \/ Owed(q, c)'
      <4>1. c \in Others(q)
        BY <2>2 DEF Others
      <4>2. CASE r = p /\ c = a
        <5>1. Owed(q, a) /\ q # p
          BY <1>3, <1>4, <2>2, <4>2, LaterOwe
        <5>2. QED BY <1>17, <4>1, <4>2, <5>1
      <4>3. CASE ~ (r = p /\ c = a)
        <5>1. r \in At(c)
          BY <1>15, <3>2, <4>3
        <5>2. q \in At(c) \/ Owed(q, c)
          BY <1>2, <2>2, <5>1 DEF OrderInv
        <5>3. CASE q = p /\ c = a
          <6>1. a \notin Visits(t) => FALSE
            <7>1. c \in Visits(Src(r))
              BY <1>2, <5>1 DEF PlaceInv
            <7>2. QED BY <2>2, <5>3, <7>1
          <6>2. QED BY <1>15, <4>1, <5>3, <6>1
        <5>4. CASE ~ (q = p /\ c = a)
          BY <1>15, <1>17, <4>1, <5>2, <5>4
        <5>5. QED BY <5>3, <5>4
      <4>4. QED BY <4>2, <4>3
    <3>3. QED BY <3>1, <3>2
  <2>3. QED BY <1>1, <2>1, <2>2 DEF OrderInv, Others
<1>23. AudioInv'
  <2> SUFFICES ASSUME NEW q \in Going
               PROVE  /\ \A c \in Others(q) : q \in At(c)' => audio[q] = "levelled"
                      /\ /\ Does(Src(q), q)'
                         /\ Hear("levelled") \notin Todo(Src(q))'
                         => audio[q] = "levelled"
    BY <1>1 DEF AudioInv, Others
  <2>1. \A c \in Others(q) : q \in At(c)' => audio[q] = "levelled"
    BY <1>2, <1>6, <1>15 DEF AudioInv
  <2>2. CASE q = p
    BY <1>6, <2>1, <2>2
  <2>3. CASE q # p
    BY <1>1, <1>2, <1>4, <1>10, <1>13, <2>1, <2>3 DEF AudioInv
  <2>4. QED BY <2>2, <2>3
<1>24. LookInv'
  <2> SUFFICES ASSUME NEW q \in Going, ToBeSent(q)', Src(q) # "m17"
               PROVE  \E u \in Codecs :
                        Does(u, q)' /\ script'[u] \in {<<Check>>, <<Send>>}
    BY <1>1 DEF LookInv
  <2>1. a \notin Visits(t) => t = "m17"
    BY DEF Visits
  <2>2. isSet'[q] = isSet[q]
    BY <1>14, <2>1
  <2>3. ToBeSent(q)
    BY <2>2 DEF ToBeSent, AllCodecsAreSet
  <2>4. PICK u \in Codecs : Does(u, q) /\ script[u] \in {<<Check>>, <<Send>>}
    BY <1>2, <2>3 DEF LookInv
  <2>5. u # t
    <3>1. step # Check /\ step # Send
      BY <1>5, Ranks
    <3>2. script[t] \notin {<<Check>>, <<Send>>}
      BY <3>1 DEF step
    <3>3. QED BY <2>4, <3>2
  <2>6. QED BY <1>13, <2>4, <2>5
<1>25. QED BY <1>19, <1>20, <1>21, <1>22, <1>23, <1>24 DEF Rest

(* A source works on the packet's audio or on its own data, before the     *)
(* first job: the packet is nowhere else yet.                              *)
LEMMA Prepared ==
  ASSUME Safe, UNCHANGED <<codecIn, isSet, notSent>>,
         NEW t \in Codecs, script[t] # <<>>, NEW p, p = current[t], Src(p) = t,
         Head(script[t]) \notin Jobs(t),
         script'[t] = Tail(script[t]), current'[t] = p,
         \A c \in Codecs : Line(c)' = Line(c),
         \A u \in Codecs \ {t} :
           script'[u] = script[u] /\ current'[u] = current[u],
         \A q \in Going : q # p => audio'[q] = audio[q],
         Hear("levelled") \notin Todo(t)' => audio'[p] = "levelled"
  PROVE  InLine' /\ Rest'
<1> DEFINE step == Head(script[t])
           left == {Tail(script[t])[i] : i \in DOMAIN Tail(script[t])}
<1>1. /\ \A q : Src(q)' = Src(q)
      /\ \A q : Others(q)' = Others(q)
      /\ Arrived' = Arrived /\ Going' = Going
  BY SameCodecs
<1>2. InLine /\ ScriptInv /\ PlaceInv /\ OrderInv /\ AudioInv /\ LookInv
  BY Parts DEF Safe, Rest
<1>3. p \in At(t) /\ p \in Going /\ \A q : Does(t, q) <=> q = p
  BY DoesGoing
<1>4. \A q \in Going : Src(q) \in Codecs /\ q \in Packets
  BY GoingHasSource DEF Safe
<1>5. /\ Todo(t) = {step} \cup left /\ Jobs(t) \subseteq left
      /\ SourceScript(t, Tail(script[t])) /\ Tail(script[t]) # <<>>
      /\ step \in {Hear("raw"), Hear("levelled"), Set(t)}
  BY AtSource
<1>6. Todo(t)' = left
  BY DEF Todo
<1>7. /\ \A c \in Codecs : At(c)' = At(c)
      /\ \A c \in Codecs : \A q : Does(c, q)' <=> Does(c, q)
      /\ \A c \in Codecs \ {t} : Todo(c)' = Todo(c)
      /\ \A q : ToBeSent(q)' <=> ToBeSent(q)
  <2>1. \A q : Does(t, q)' <=> Does(t, q)
    BY <1>5 DEF Does
  <2>2. QED BY <2>1 DEF At, Does, Todo, ToBeSent, AllCodecsAreSet
<1> HIDE DEF step, left
<1>8. \A c \in Others(p) : Job(t, c) \in Todo(t) /\ Job(t, c) \in Todo(t)'
  <2>1. \A c \in Others(p) : Job(t, c) \in Jobs(t)
    BY DEF Jobs, Others
  <2>2. QED BY <1>5, <1>6, <2>1
<1>9. ASSUME NEW q \in Going, NEW c \in Others(q)
      PROVE  Owed(q, c)' <=> Owed(q, c)
  <2>1. CASE Src(q) # t
    BY <1>1, <1>4, <1>7, <2>1 DEF Owed
  <2>2. CASE q = p
    BY <1>1, <1>3, <1>7, <1>8, <2>2 DEF Owed
  <2>3. CASE q # p /\ Src(q) = t
    BY <1>1, <1>3, <1>7, <2>3 DEF Owed
  <2>4. QED BY <2>1, <2>2, <2>3
<1>10. \A c \in Others(p) : p \notin At(c)
  <2>1. \A c \in Others(p) : Owed(p, c)
    BY <1>3, <1>8 DEF Owed
  <2>2. QED BY <1>2, <1>3, <2>1 DEF PlaceInv
<1>11. InLine'
  BY <1>1, <1>2, <1>7 DEF InLine
<1>12. ScriptInv'
  BY <1>1, <1>2, <1>5 DEF ScriptInv
<1>13. PlaceInv'
  <2> SUFFICES ASSUME NEW q \in Going
               PROVE  /\ Src(q) \in isSet[q]
                      /\ \A c \in Others(q) :
                           /\ Owed(q, c) => q \notin At(c) /\ c \notin isSet[q]
                           /\ q \in At(c) =>
                                /\ c \in Visits(Src(q))
                                /\ c \in isSet[q] <=>
                                     Does(c, q)' /\ Set(c) \notin Todo(c)'
                           /\ ~ Owed(q, c) /\ q \notin At(c) => c \in isSet[q]
    BY <1>1, <1>7, <1>9 DEF PlaceInv, Others
  <2>1. ASSUME NEW c \in Others(q), q \in At(c)
        PROVE  c \in isSet[q] <=> Does(c, q)' /\ Set(c) \notin Todo(c)'
    <3>1. c \in Codecs
      BY DEF Others
    <3>2. CASE c # t
      BY <1>2, <1>7, <2>1, <3>1, <3>2 DEF PlaceInv
    <3>3. CASE c = t
      <4>1. q # p
        BY <3>3 DEF Others
      <4>2. QED BY <1>2, <1>3, <1>7, <2>1, <3>3, <4>1 DEF PlaceInv
    <3>4. QED BY <3>2, <3>3
  <2>2. QED BY <1>2, <2>1 DEF PlaceInv
<1>14. OrderInv'
  BY <1>1, <1>2, <1>4, <1>7, <1>9 DEF OrderInv, Others
<1>15. AudioInv'
  <2> SUFFICES ASSUME NEW q \in Going
               PROVE  /\ \A c \in Others(q) : q \in At(c) => audio'[q] = "levelled"
                      /\ /\ Does(Src(q), q)'
                         /\ Hear("levelled") \notin Todo(Src(q))'
                         => audio'[q] = "levelled"
    BY <1>1, <1>7 DEF AudioInv, Others
  <2>1. CASE q = p
    BY <1>1, <1>10, <2>1
  <2>2. CASE q # p
    <3>1. audio'[q] = audio[q]
      BY <2>2
    <3>2. Src(q) = t => ~ Does(t, q)'
      BY <1>3, <1>7, <2>2
    <3>3. QED BY <1>1, <1>2, <1>4, <1>7, <3>1, <3>2 DEF AudioInv
  <2>3. QED BY <2>1, <2>2
<1>16. LookInv'
  <2> SUFFICES ASSUME NEW q \in Going, ToBeSent(q), Src(q) # "m17"
               PROVE  \E u \in Codecs :
                        Does(u, q)' /\ script'[u] \in {<<Check>>, <<Send>>}
    BY <1>1, <1>7 DEF LookInv
  <2>1. PICK u \in Codecs : Does(u, q) /\ script[u] \in {<<Check>>, <<Send>>}
    BY <1>2 DEF LookInv
  <2>2. u # t
    <3>1. step # Check /\ step # Send
      BY <1>5, StepsDiffer
    <3>2. script[t] \notin {<<Check>>, <<Send>>}
      BY <3>1 DEF step
    <3>3. QED BY <2>1, <3>2
  <2>3. QED BY <1>7, <2>1, <2>2
<1>17. QED BY <1>11, <1>12, <1>13, <1>14, <1>15, <1>16 DEF Rest

(* Elsewhere: the flag is set and the look is next, or the look finds the  *)
(* packet complete and the send is next.                                   *)
LEMMA Encoded ==
  ASSUME Safe, UNCHANGED <<codecIn, notSent, audio>>,
         NEW t \in Codecs, script[t] # <<>>, NEW p, p = current[t], Src(p) # t,
         current'[t] = p, \A c \in Codecs : Line(c)' = Line(c),
         \A u \in Codecs \ {t} :
           script'[u] = script[u] /\ current'[u] = current[u],
         \/ /\ script[t] = <<Set(t), Check>> /\ script'[t] = <<Check>>
            /\ isSet' = [isSet EXCEPT ![p] = @ \cup {t}]
         \/ /\ script[t] = <<Check>> /\ script'[t] = <<Send>>
            /\ isSet' = isSet
  PROVE  InLine' /\ Rest'
<1>1. /\ \A q : Src(q)' = Src(q)
      /\ \A q : Others(q)' = Others(q)
      /\ Arrived' = Arrived /\ Going' = Going
  BY SameCodecs
<1>2. InLine /\ ScriptInv /\ PlaceInv /\ OrderInv /\ AudioInv /\ LookInv
  BY Parts DEF Safe, Rest
<1>3. p \in At(t) /\ p \in Going /\ \A q : Does(t, q) <=> q = p
  BY DoesGoing
<1>4. \A q \in Going : Src(q) \in Codecs /\ q \in Packets
  BY GoingHasSource DEF Safe
<1>5. script'[t] \in {<<Check>>, <<Send>>} /\ Set(t) \notin Todo(t)'
  <2>1. script'[t] \in {<<Check>>, <<Send>>}
    OBVIOUS
  <2>2. script'[t] = <<Check>> => Todo(t)' = {Check}
    BY DEF Todo
  <2>3. script'[t] = <<Send>> => Todo(t)' = {Send}
    BY DEF Todo
  <2>4. QED BY <2>1, <2>2, <2>3, StepsDiffer
<1>6. /\ \A c \in Codecs : At(c)' = At(c)
      /\ \A c \in Codecs : \A q : Does(c, q)' <=> Does(c, q)
      /\ \A c \in Codecs \ {t} : Todo(c)' = Todo(c)
  <2>1. \A q : Does(t, q)' <=> Does(t, q)
    BY <1>5 DEF Does
  <2>2. QED BY <2>1 DEF At, Does, Todo
<1>7. t \in isSet'[p] /\ t \in Others(p)
  <2>1. t \in Others(p)
    BY DEF Others
  <2>2. CASE script[t] = <<Set(t), Check>>
    <3>1. script[t] # <<Check>>
      BY <2>2
    <3>2. isSet \in [Packets -> SUBSET Codecs] /\ p \in Packets
      BY <1>3, <1>4 DEF Safe, TypeOK
    <3>3. QED BY <2>1, <3>1, <3>2
  <2>3. CASE script[t] = <<Check>> /\ isSet' = isSet
    <3>1. Set(t) \notin Todo(t)
      BY <2>3, StepsDiffer DEF Todo
    <3>2. QED BY <1>2, <1>3, <2>1, <2>3, <3>1 DEF PlaceInv
  <2>4. QED BY <2>2, <2>3
<1>8. /\ \A q \in Going : \A c \in Codecs :
           c \in isSet'[q] <=> c \in isSet[q] \/ (q = p /\ c = t)
      /\ \A q \in Going : q # p => isSet'[q] = isSet[q]
  <2>1. isSet \in [Packets -> SUBSET Codecs]
    BY DEF Safe, TypeOK
  <2>2. CASE isSet' = [isSet EXCEPT ![p] = @ \cup {t}]
    BY <1>3, <1>4, <2>1, <2>2
  <2>3. CASE isSet' = isSet
    BY <1>7, <2>3
  <2>4. QED BY <2>2, <2>3
<1>9. ASSUME NEW q \in Going, NEW c \in Others(q)
      PROVE  Owed(q, c)' <=> Owed(q, c)
  <2>1. CASE Src(q) # t
    BY <1>1, <1>4, <1>6, <2>1 DEF Owed
  <2>2. CASE Src(q) = t
    BY <1>1, <1>3, <1>6, <2>2 DEF Owed
  <2>3. QED BY <2>1, <2>2
<1>10. InLine'
  BY <1>1, <1>2, <1>6 DEF InLine
<1>11. ScriptInv'
  BY <1>1, <1>2, <1>5 DEF ScriptInv
<1>12. PlaceInv'
  <2> SUFFICES ASSUME NEW q \in Going
               PROVE  /\ Src(q) \in isSet'[q]
                      /\ \A c \in Others(q) :
                           /\ Owed(q, c) => q \notin At(c) /\ c \notin isSet'[q]
                           /\ q \in At(c) =>
                                /\ c \in Visits(Src(q))
                                /\ c \in isSet'[q] <=>
                                     Does(c, q)' /\ Set(c) \notin Todo(c)'
                           /\ ~ Owed(q, c) /\ q \notin At(c) => c \in isSet'[q]
    BY <1>1, <1>6, <1>9 DEF PlaceInv, Others
  <2>1. Src(q) \in isSet'[q]
    BY <1>2, <1>4, <1>8 DEF PlaceInv
  <2>2. ASSUME NEW c \in Others(q)
        PROVE  /\ Owed(q, c) => q \notin At(c) /\ c \notin isSet'[q]
               /\ ~ Owed(q, c) /\ q \notin At(c) => c \in isSet'[q]
    <3>1. c \in Codecs
      BY DEF Others
    <3>2. QED BY <1>2, <1>3, <1>8, <3>1 DEF PlaceInv
  <2>3. ASSUME NEW c \in Others(q), q \in At(c)
        PROVE  /\ c \in Visits(Src(q))
               /\ c \in isSet'[q] <=> Does(c, q)' /\ Set(c) \notin Todo(c)'
    <3>1. c \in Codecs
      BY DEF Others
    <3>2. c \in Visits(Src(q))
      BY <1>2, <2>3 DEF PlaceInv
    <3>3. CASE c # t
      BY <1>2, <1>6, <1>8, <2>3, <3>1, <3>2, <3>3 DEF PlaceInv
    <3>4. CASE c = t /\ q = p
      BY <1>3, <1>5, <1>6, <1>7, <3>2, <3>4
    <3>5. CASE c = t /\ q # p
      BY <1>2, <1>3, <1>6, <1>8, <2>3, <3>2, <3>5 DEF PlaceInv
    <3>6. QED BY <3>3, <3>4, <3>5
  <2>4. QED BY <2>1, <2>2, <2>3
<1>13. OrderInv'
  BY <1>1, <1>2, <1>4, <1>6, <1>9 DEF OrderInv, Others
<1>14. AudioInv'
  <2> SUFFICES ASSUME NEW q \in Going
               PROVE  /\ \A c \in Others(q) : q \in At(c) => audio[q] = "levelled"
                      /\ /\ Does(Src(q), q)'
                         /\ Hear("levelled") \notin Todo(Src(q))'
                         => audio[q] = "levelled"
    BY <1>1, <1>6 DEF AudioInv, Others
  <2>1. Does(Src(q), q)' => Src(q) # t /\ Src(q)' \in Codecs
    BY <1>1, <1>3, <1>4, <1>6
  <2>2. QED BY <1>1, <1>2, <1>4, <1>6, <2>1 DEF AudioInv
<1>15. LookInv'
  <2> SUFFICES ASSUME NEW q \in Going, ToBeSent(q)', Src(q) # "m17"
               PROVE  \E u \in Codecs :
                        Does(u, q)' /\ script'[u] \in {<<Check>>, <<Send>>}
    BY <1>1 DEF LookInv
  <2>1. CASE q = p
    BY <1>3, <1>5, <1>6, <2>1
  <2>2. CASE q # p
    <3>1. ToBeSent(q)
      BY <1>8, <2>2 DEF ToBeSent, AllCodecsAreSet
    <3>2. PICK u \in Codecs : Does(u, q) /\ script[u] \in {<<Check>>, <<Send>>}
      BY <1>2, <3>1 DEF LookInv
    <3>3. u # t
      BY <1>3, <2>2, <3>2
    <3>4. QED BY <1>6, <3>2, <3>3
  <2>3. QED BY <2>1, <2>2
<1>16. QED BY <1>10, <1>11, <1>12, <1>13, <1>14, <1>15 DEF Rest

(* A packet arrives, or is dumped. *)
LEMMA ComesLast ==
  ASSUME Safe, NEW p \in Packets, NextPacket(p)
  PROVE  /\ p \notin Arrived /\ p \notin Going /\ p \in Nat
         /\ \A q \in Arrived : q < p
         /\ \A q \in Packets : q < p => q \in Arrived
         /\ \A c \in Codecs : p \notin At(c) /\ ~ Does(c, p)
<1>1. p \notin Arrived /\ p \in Nat
  BY DEF NextPacket, Arrived, Packets
<1>2. \A q \in Packets : q < p => q \in Arrived
  BY DEF NextPacket, Arrived
<1>3. OrderInv /\ InLine
  BY Parts DEF Safe, Rest
<1>4. \A q \in Arrived : q < p
  <2> SUFFICES ASSUME NEW q \in Arrived, ~ (q < p) PROVE FALSE
    OBVIOUS
  <2>1. q \in Packets /\ q \in Nat /\ p < q
    BY <1>1 DEF Arrived, Packets
  <2>2. QED BY <1>1, <1>3, <2>1 DEF OrderInv
<1>5. \A c \in Codecs : p \notin At(c) /\ ~ Does(c, p)
  BY <1>1, <1>3, DoesIsAt DEF InLine, Going, Safe
<1>6. QED BY <1>1, <1>2, <1>4, <1>5 DEF Going

LEMMA Received ==
  ASSUME Safe, NEW p \in Packets, NEW c \in CodecsIn, Receive(p, c)
  PROVE  InLine' /\ Rest'
<1> DEFINE s == Source(c)
<1>1. InLine /\ ScriptInv /\ PlaceInv /\ OrderInv /\ AudioInv /\ LookInv
  BY Parts DEF Safe, Rest
<1>2. s \in Codecs /\ c # None /\ c # "none"
  BY SourceIsCodec, TranscoderAssumption DEF Receive
<1>3. /\ codecIn \in [Packets -> ECodecType \cup {None}]
      /\ isSet \in [Packets -> SUBSET Codecs] /\ queue \in [Codecs -> Seq(Packets)]
  BY DEF Safe, TypeOK
<1>4. /\ p \notin Arrived /\ p \notin Going /\ p \in Nat
      /\ \A q \in Arrived : q < p
      /\ \A q \in Packets : q < p => q \in Arrived
      /\ \A u \in Codecs : p \notin At(u) /\ ~ Does(u, p)
  BY ComesLast DEF Receive
<1>5. /\ \A q \in Packets : q # p => /\ codecIn'[q] = codecIn[q]
                                     /\ isSet'[q] = isSet[q]
      /\ codecIn'[p] = c /\ isSet'[p] = {s}
  BY <1>3 DEF Receive
<1>6. /\ \A q \in Going : /\ q \in Packets /\ q # p /\ Src(q) \in Codecs /\ q \in Nat
                          /\ Src(q)' = Src(q) /\ Others(q)' = Others(q)
                          /\ Source(codecIn'[q]) = Src(q)
      /\ Src(p)' = s /\ Others(p)' = Codecs \ {s}
  <2>1. \A q \in Going : q \in Packets /\ q # p /\ Src(q) \in Codecs /\ q \in Nat
    BY <1>4, GoingHasSource DEF Safe, Packets
  <2>2. \A q \in Going : Src(q)' = Src(q)
    BY <1>5, <2>1 DEF Src
  <2>3. Src(p)' = s
    BY <1>5 DEF Src
  <2>4. \A q \in Going : Source(codecIn'[q]) = Src(q)
    BY <1>5, <2>1 DEF Src
  <2>5. QED BY <2>1, <2>2, <2>3, <2>4 DEF Others
<1>7. Arrived' = Arrived \cup {p} /\ Going' = Going \cup {p}
  <2>1. Arrived' = Arrived \cup {p}
    BY <1>2, <1>5 DEF Arrived
  <2>2. QED BY <1>2, <1>4, <1>5, <2>1 DEF Going, Arrived
<1>8. /\ Line(s)' = Append(Line(s), p) /\ Line(s) \in Seq(Packets)
      /\ \A u \in Codecs \ {s} : Line(u)' = Line(u)
  <2>1. queue'[s] = Append(queue[s], p)
    BY <1>2, <1>3 DEF Receive
  <2>2. \A u \in Codecs \ {s} : queue'[u] = queue[u]
    BY <1>3 DEF Receive
  <2>3. \A u \in Codecs \ {s} : Line(u)' = Line(u)
    BY <2>2 DEF Line, Receive, threadVars
  <2>4. QED BY <1>2, <2>1, <2>3, PushLine DEF Safe, Receive, threadVars
<1>9. At(s)' = At(s) \cup {p} /\ \A u \in Codecs \ {s} : At(u)' = At(u)
  BY <1>8, AppendAt DEF At
<1>10. /\ \A u : Todo(u)' = Todo(u)
       /\ \A u, q : Does(u, q)' <=> Does(u, q)
  BY DEF Receive, threadVars, Todo, Does
<1> HIDE DEF s
<1>11. \A q \in Going : \A u \in Codecs : q \in At(u)' <=> q \in At(u)
  BY <1>6, <1>9
<1>12. \A u \in Codecs : p \in At(u)' <=> u = s
  BY <1>4, <1>9
<1>13. /\ \A q \in Going : \A u : Owed(q, u)' <=> Owed(q, u)
       /\ \A u : Owed(p, u)'
  <2>1. \A q \in Going : \A u : Owed(q, u)' <=> Owed(q, u)
    BY <1>6, <1>10, <1>11 DEF Owed
  <2>2. \A u : Owed(p, u)'
    BY <1>2, <1>4, <1>6, <1>10, <1>12 DEF Owed
  <2>3. QED BY <2>1, <2>2
<1>14. InLine'
  <2>1. \A u \in Codecs : At(u)' \subseteq Going'
    BY <1>1, <1>7, <1>9 DEF InLine
  <2>2. ASSUME NEW u \in Codecs,
               NEW i \in DOMAIN Line(u)', NEW j \in DOMAIN Line(u)',
               i < j,
               Source(codecIn'[Line(u)'[i]]) = Source(codecIn'[Line(u)'[j]])
        PROVE  Line(u)'[i] < Line(u)'[j]
    <3>1. \A k \in DOMAIN Line(u) : Line(u)[k] \in Going
      BY <1>1 DEF InLine, At
    <3>2. CASE u # s
      <4>1. Line(u)' = Line(u)
        BY <1>8, <3>2
      <4>2. Src(Line(u)[i]) = Src(Line(u)[j])
        BY <1>6, <2>2, <3>1, <4>1
      <4>3. QED BY <1>1, <2>2, <4>1, <4>2 DEF InLine
    <3>3. CASE u = s
      <4>1. /\ DOMAIN Line(s)' = 1..(Len(Line(s)) + 1)
            /\ DOMAIN Line(s) = 1..Len(Line(s)) /\ Len(Line(s)) \in Nat
            /\ \A k \in 1..Len(Line(s)) : Line(s)'[k] = Line(s)[k]
            /\ Line(s)'[Len(Line(s)) + 1] = p
        BY <1>8
      <4>2. i \in DOMAIN Line(s) /\ Line(s)'[i] = Line(s)[i]
        BY <2>2, <3>3, <4>1
      <4>3. CASE j \in DOMAIN Line(s)
        <5>1. Line(s)'[j] = Line(s)[j]
          BY <4>1, <4>3
        <5>2. Src(Line(s)[i]) = Src(Line(s)[j])
          BY <1>6, <2>2, <3>1, <3>3, <4>2, <4>3, <5>1
        <5>3. QED BY <1>1, <2>2, <3>3, <4>2, <4>3, <5>1, <5>2 DEF InLine
      <4>4. CASE j \notin DOMAIN Line(s)
        <5>1. Line(s)'[j] = p /\ Line(s)[i] \in Going
          BY <2>2, <3>1, <3>3, <4>1, <4>2, <4>4
        <5>2. QED BY <1>4, <3>3, <4>2, <5>1 DEF Going
      <4>5. QED BY <4>3, <4>4
    <3>4. QED BY <3>2, <3>3
  <2>3. QED BY <2>1, <2>2 DEF InLine, Src
<1>15. ScriptInv'
  <2>1. \A u \in Codecs : script[u] # <<>> => current[u] \in Going
    BY DoesGoing
  <2>2. QED BY <1>1, <1>6, <2>1 DEF ScriptInv, Receive, threadVars
<1>16. PlaceInv'
  <2>1. ASSUME NEW q \in Going
        PROVE  /\ Src(q) \in isSet'[q]
               /\ \A u \in Others(q) :
                    /\ Owed(q, u)' => q \notin At(u)' /\ u \notin isSet'[q]
                    /\ q \in At(u)' =>
                         /\ u \in Visits(Src(q))
                         /\ u \in isSet'[q] <=>
                              Does(u, q)' /\ Set(u) \notin Todo(u)'
                    /\ ~ Owed(q, u)' /\ q \notin At(u)' => u \in isSet'[q]
    <3>1. isSet'[q] = isSet[q]
      BY <1>5, <1>6
    <3>2. \A u \in Others(q) : u \in Codecs
      BY DEF Others
    <3>3. QED BY <1>1, <1>10, <1>11, <1>13, <3>1, <3>2 DEF PlaceInv
  <2>2. /\ s \in isSet'[p]
        /\ \A u \in Codecs \ {s} :
             p \notin At(u)' /\ u \notin isSet'[p] /\ Owed(p, u)'
    BY <1>5, <1>12, <1>13 DEF s
  <2>3. QED BY <1>6, <1>7, <2>1, <2>2 DEF PlaceInv
<1>17. OrderInv'
  <2>1. \A r, q \in Packets : q < r /\ r \in Arrived' => q \in Arrived'
    BY <1>1, <1>4, <1>7 DEF OrderInv
  <2>2. ASSUME NEW r \in Going', NEW q \in Going', r < q, Src(r)' = Src(q)'
        PROVE  /\ r \in At(Src(r))' => q \in At(Src(q))'
               /\ \A u \in Others(r)' :
                    r \in At(u)' => q \in At(u)' \/ Owed(q, u)'
    <3>1. r \in Going
      <4> SUFFICES ASSUME r = p PROVE FALSE
        BY <1>7
      <4>1. q \in Arrived'
        BY <2>2 DEF Going
      <4>2. q < p
        BY <1>4, <1>7, <2>2, <4>1
      <4>3. q \in Nat
        BY <1>4, <1>6, <1>7
      <4>4. QED BY <1>4, <2>2, <4>2, <4>3
    <3>2. CASE q = p
      <4>1. p \in At(Src(p))'
        BY <1>2, <1>6, <1>12
      <4>2. QED BY <1>13, <3>2, <4>1
    <3>3. CASE q \in Going
      <4>1. Src(r) = Src(q) /\ Src(r) \in Codecs
        BY <1>6, <2>2, <3>1, <3>3
      <4>2. r \in At(Src(r)) => q \in At(Src(q))
        BY <1>1, <2>2, <3>1, <3>3, <4>1 DEF OrderInv
      <4>3. r \in At(Src(r))' => q \in At(Src(q))'
        BY <1>6, <1>11, <3>1, <3>3, <4>1, <4>2
      <4>4. \A u \in Others(r) : r \in At(u)' => q \in At(u)' \/ Owed(q, u)'
        BY <1>1, <1>11, <1>13, <2>2, <3>1, <3>3, <4>1 DEF OrderInv, Others
      <4>5. QED BY <1>6, <3>1, <4>3, <4>4
    <3>4. QED BY <1>7, <3>2, <3>3
  <2>3. QED BY <2>1, <2>2 DEF OrderInv
<1>18. AudioInv'
  <2>1. audio' = audio
    BY DEF Receive
  <2>2. ASSUME NEW q \in Going
        PROVE  /\ \A u \in Others(q) : q \in At(u)' => audio[q] = "levelled"
               /\ /\ Does(Src(q), q)'
                  /\ Hear("levelled") \notin Todo(Src(q))'
                  => audio[q] = "levelled"
    BY <1>1, <1>6, <1>10, <1>11 DEF AudioInv, Others
  <2>3. /\ \A u \in Codecs \ {s} : p \notin At(u)'
        /\ ~ Does(Src(p), p)'
    BY <1>2, <1>4, <1>6, <1>10, <1>12
  <2>4. QED BY <1>6, <1>7, <2>1, <2>2, <2>3 DEF AudioInv
<1>19. LookInv'
  <2>1. ~ ToBeSent(p)'
    BY <1>5 DEF ToBeSent, AllCodecsAreSet, Codecs
  <2>2. \A q \in Going : ToBeSent(q)' => ToBeSent(q)
    BY <1>5, <1>6 DEF ToBeSent, AllCodecsAreSet, Receive
  <2>3. script' = script
    BY DEF Receive, threadVars
  <2>4. QED BY <1>1, <1>6, <1>7, <1>10, <2>1, <2>2, <2>3 DEF LookInv
<1>20. QED BY <1>14, <1>15, <1>16, <1>17, <1>18, <1>19 DEF Rest

LEMMA Dumped ==
  ASSUME Safe, NEW p \in Packets, Dump(p)
  PROVE  InLine' /\ Rest'
<1> USE DEF Dump, stationVars, threadVars
<1>1. InLine /\ ScriptInv /\ PlaceInv /\ OrderInv /\ AudioInv /\ LookInv
  BY Parts DEF Safe, Rest
<1>2. /\ p \notin Arrived /\ p \notin Going
      /\ \A q \in Arrived : q < p
      /\ \A q \in Packets : q < p => q \in Arrived
  BY ComesLast
<1>3. codecIn' = [codecIn EXCEPT ![p] = "none"] /\ "none" # None
  BY TranscoderAssumption DEF ECodecType
<1>4. codecIn \in [Packets -> ECodecType \cup {None}]
  BY DEF Safe, TypeOK
<1>5. Arrived' = Arrived \cup {p} /\ Going' = Going
  <2>1. Arrived' = Arrived \cup {p}
    BY <1>3, <1>4 DEF Arrived
  <2>2. QED BY <1>2, <1>3, <1>4, <2>1 DEF Going, Arrived
<1>6. \A q \in Going : /\ Src(q) \in Codecs
                       /\ Src(q)' = Src(q) /\ Others(q)' = Others(q)
  <2>1. \A q \in Going : Src(q) \in Codecs /\ q \in Packets /\ q # p
    BY <1>2, GoingHasSource DEF Safe
  <2>2. \A q \in Going : Src(q)' = Src(q)
    BY <1>3, <1>4, <2>1 DEF Src
  <2>3. QED BY <2>1, <2>2 DEF Others
<1>7. /\ \A c \in Codecs : Line(c)' = Line(c) /\ At(c)' = At(c)
      /\ \A u : Todo(u)' = Todo(u)
      /\ \A u, q : Does(u, q)' <=> Does(u, q)
      /\ \A q : ToBeSent(q)' <=> ToBeSent(q)
  BY DEF Line, At, Todo, Does, ToBeSent, AllCodecsAreSet
<1>8. \A q \in Going : \A c : Owed(q, c)' <=> Owed(q, c)
  BY <1>6, <1>7 DEF Owed
<1>9. InLine'
  <2>1. \A c \in Codecs : At(c)' \subseteq Going'
    BY <1>1, <1>5, <1>7 DEF InLine
  <2>2. \A c \in Codecs : \A k \in DOMAIN Line(c) : Line(c)[k] \in Going
    BY <1>1 DEF InLine, At
  <2>3. ASSUME NEW c \in Codecs,
               NEW i \in DOMAIN Line(c), NEW j \in DOMAIN Line(c),
               i < j, Src(Line(c)[i])' = Src(Line(c)[j])'
        PROVE  Line(c)[i] < Line(c)[j]
    <3>1. Line(c)[i] \in Going /\ Line(c)[j] \in Going /\ Line(c)' = Line(c)
      BY <1>7, <2>2
    <3>2. Src(Line(c)[i]) = Src(Line(c)[j])
      BY <1>6, <2>3, <3>1
    <3>3. QED BY <1>1, <2>3, <3>2 DEF InLine
  <2>4. QED BY <1>7, <2>1, <2>3 DEF InLine
<1>10. ScriptInv'
  <2>1. \A u \in Codecs : script[u] # <<>> => current[u] \in Going
    BY DoesGoing
  <2>2. QED BY <1>1, <1>6, <2>1 DEF ScriptInv
<1>11. PlaceInv'
  BY <1>1, <1>5, <1>6, <1>7, <1>8 DEF PlaceInv, Others
<1>12. OrderInv'
  <2>1. \A r, q \in Packets : q < r /\ r \in Arrived' => q \in Arrived'
    BY <1>1, <1>2, <1>5 DEF OrderInv
  <2>2. QED BY <1>1, <1>5, <1>6, <1>7, <1>8, <2>1 DEF OrderInv, Others
<1>13. AudioInv'
  BY <1>1, <1>5, <1>6, <1>7 DEF AudioInv, Others
<1>14. LookInv'
  BY <1>1, <1>5, <1>6, <1>7 DEF LookInv
<1>15. QED BY <1>9, <1>10, <1>11, <1>12, <1>13, <1>14 DEF Rest

(* The requests in a chip, while packets arrive, when a packet is fed to   *)
(* it and when its answer is read.                                         *)
LEMMA RequestsKept ==
  ASSUME Safe, NEW p, p \notin Arrived, UNCHANGED <<waiting, chip>>,
         \A q \in Packets : q # p => codecIn'[q] = codecIn[q]
  PROVE  Requested'
<1>1. Requested
  BY Parts DEF Safe
<1>2. ASSUME NEW d \in Devices, NEW i \in DOMAIN chip[d]
      PROVE  Src(waiting[d][i])' = Src(waiting[d][i])
  <2>1. i \in DOMAIN waiting[d] /\ waiting[d] \in Seq(Arrived)
    <3>1. /\ waiting[d] \in Seq(Arrived) /\ Len(waiting[d]) = Len(chip[d])
          /\ chip[d] \in Seq({"decode", "encode"})
      BY DEF Safe, TypeOK, FlowInv
    <3>2. QED BY <1>2, <3>1, LenProperties
  <2>2. waiting[d][i] \in Arrived
    BY <2>1, LenProperties, ElementOfSeq
  <2>3. waiting'[d][i] = waiting[d][i] /\ waiting[d][i] # p
    BY <2>2
  <2>4. QED BY <2>2, <2>3 DEF Src, Arrived
<1>3. ASSUME NEW d \in Devices, NEW i \in DOMAIN chip'[d]
      PROVE  chip'[d][i] = IF Src(waiting[d][i])' = d THEN "decode" ELSE "encode"
  <2>1. chip'[d] = chip[d]
    OBVIOUS
  <2>2. QED BY <1>1, <1>2, <1>3, <2>1 DEF Requested
<1>4. QED BY <1>3 DEF Requested, Src

LEMMA RequestFed ==
  ASSUME Safe, NEW d \in Codecs, FeedDevice(d)
  PROVE  Requested'
<1> DEFINE p == Head(queue[d])
<1>1. Requested /\ InLine /\ PlaceInv
  BY Parts DEF Safe, Rest
<1>2. /\ d \in Devices /\ queue[d] # <<>> /\ queue[d] \in Seq(Arrived)
      /\ waiting[d] \in Seq(Arrived) /\ Len(waiting[d]) = Len(chip[d])
      /\ chip[d] \in Seq({"decode", "encode"})
      /\ waiting \in [Devices -> Seq(Packets)]
      /\ chip \in [Devices -> Seq({"decode", "encode"})]
  BY DEF FeedDevice, Safe, TypeOK, FlowInv
<1>3. p \in Arrived /\ p = queue[d][1] /\ 1 \in DOMAIN queue[d]
  BY <1>2, HeadTailProperties, EmptySeq, LenProperties
<1>4. /\ waiting'[d] = Append(waiting[d], p)
      /\ chip'[d] = Append(chip[d], Request(d, p))
      /\ \A e \in Devices \ {d} : waiting'[e] = waiting[e] /\ chip'[e] = chip[e]
  BY <1>2 DEF FeedDevice
<1>5. p \in At(d) /\ ~ Does(d, p)
  <2> DEFINE front == Held(d) \o InChip(d)
             n == Len(front) + 1
  <2>1. front \in Seq(Arrived) /\ Line(d) = front \o queue[d]
    <3>1. Held(d) \in Seq(Arrived) /\ InChip(d) \in Seq(Arrived)
      BY LineParts DEF Safe
    <3>2. QED BY <3>1, ConcatProperties DEF Line, Held, InChip
  <2>2. Len(front) \in Nat
    BY <2>1, LenProperties
  <2>3. n \in DOMAIN Line(d) /\ Line(d)[n] = queue[d][1]
    BY <1>2, <2>1, FirstBehind
  <2> HIDE DEF front
  <2>4. n \in DOMAIN Line(d) /\ Line(d)[n] = p
    BY <1>3, <2>3
  <2>5. Does(d, p) => 1 < n
    <3> SUFFICES ASSUME Does(d, p) PROVE front # <<>>
      BY <2>1, <2>2, EmptySeq
    <3>1. Held(d) # <<>> /\ Held(d) \in Seq(Arrived) /\ InChip(d) \in Seq(Arrived)
      BY LineParts DEF Does, Held, Safe
    <3>2. QED BY <3>1, ConcatEqualIffEmpty DEF front
  <2>6. ~ Does(d, p)
    <3> SUFFICES ASSUME Does(d, p) PROVE FALSE
      OBVIOUS
    <3>1. Line(d)[1] = p /\ 1 \in DOMAIN Line(d)
      BY DoesGoing DEF Does
    <3>2. p < p
      BY <1>1, <2>4, <2>5, <3>1 DEF InLine
    <3>3. p \in Nat
      BY <1>3 DEF Arrived, Packets
    <3>4. QED BY <3>2, <3>3
  <2>7. QED BY <2>4, <2>6 DEF At
<1>6. Request(d, p) = IF Src(p) = d THEN "decode" ELSE "encode"
  <2>1. p \in Going
    BY <1>1, <1>5 DEF InLine
  <2>2. d \in isSet[p] <=> Src(p) = d
    BY <1>1, <1>5, <2>1 DEF PlaceInv, Others
  <2>3. QED BY <2>2 DEF Request
<1>7. \A q : Src(q)' = Src(q)
  BY SameCodecs DEF FeedDevice, packetVars
<1> HIDE DEF p
<1>8. ASSUME NEW e \in Devices, NEW i \in DOMAIN chip'[e]
      PROVE  chip'[e][i] = IF Src(waiting'[e][i]) = e THEN "decode" ELSE "encode"
  <2>1. CASE e # d
    BY <1>1, <1>4, <1>8, <2>1 DEF Requested
  <2>2. CASE e = d
    <3>1. Request(d, p) \in {"decode", "encode"}
      BY DEF Request
    <3>2. /\ DOMAIN chip'[d] = 1..(Len(chip[d]) + 1) /\ Len(chip[d]) \in Nat
          /\ DOMAIN chip[d] = 1..Len(chip[d])
          /\ \A k \in 1..Len(chip[d]) : chip'[d][k] = chip[d][k]
          /\ chip'[d][Len(chip[d]) + 1] = Request(d, p)
      BY <1>2, <1>4, <3>1
    <3>3. /\ \A k \in 1..Len(chip[d]) : waiting'[d][k] = waiting[d][k]
          /\ waiting'[d][Len(chip[d]) + 1] = p
      BY <1>2, <1>3, <1>4
    <3>4. CASE i \in DOMAIN chip[d]
      BY <1>1, <1>2, <2>2, <3>2, <3>3, <3>4 DEF Requested
    <3>5. CASE i \notin DOMAIN chip[d]
      BY <1>6, <1>8, <2>2, <3>2, <3>3, <3>5
    <3>6. QED BY <3>4, <3>5
  <2>3. QED BY <2>1, <2>2
<1>9. codecIn' = codecIn
  BY DEF FeedDevice, packetVars
<1>10. QED BY <1>8, <1>9 DEF Requested, Src

LEMMA RequestRead ==
  ASSUME Safe, NEW d \in Codecs, ReadDevice(d)
  PROVE  /\ Requested'
         /\ Head(chip[d]) = IF Src(Head(waiting[d])) = d
                              THEN "decode" ELSE "encode"
<1>1. Requested
  BY Parts DEF Safe
<1>2. /\ d \in Devices /\ chip[d] # <<>>
      /\ waiting[d] \in Seq(Arrived) /\ Len(waiting[d]) = Len(chip[d])
      /\ chip[d] \in Seq({"decode", "encode"})
      /\ waiting \in [Devices -> Seq(Packets)]
      /\ chip \in [Devices -> Seq({"decode", "encode"})]
  BY DEF ReadDevice, Safe, TypeOK, FlowInv
<1>3. waiting[d] # <<>>
  BY ReadLine DEF Safe
<1>4. /\ waiting'[d] = Tail(waiting[d]) /\ chip'[d] = Tail(chip[d])
      /\ \A e \in Devices \ {d} : waiting'[e] = waiting[e] /\ chip'[e] = chip[e]
  BY <1>2 DEF ReadDevice
<1>5. /\ DOMAIN chip'[d] = 1..(Len(chip[d]) - 1) /\ Len(chip[d]) \in Nat \ {0}
      /\ DOMAIN chip[d] = 1..Len(chip[d])
      /\ \A k \in 1..(Len(chip[d]) - 1) : /\ chip'[d][k] = chip[d][k + 1]
                                          /\ waiting'[d][k] = waiting[d][k + 1]
      /\ Head(chip[d]) = chip[d][1] /\ Head(waiting[d]) = waiting[d][1]
  BY <1>2, <1>3, <1>4, EmptySeq
<1>6. Head(chip[d]) = IF Src(Head(waiting[d])) = d THEN "decode" ELSE "encode"
  <2>1. 1 \in DOMAIN chip[d]
    BY <1>5
  <2>2. QED BY <1>1, <1>2, <1>5, <2>1 DEF Requested
<1>7. ASSUME NEW e \in Devices, NEW i \in DOMAIN chip'[e]
      PROVE  chip'[e][i] = IF Src(waiting'[e][i]) = e THEN "decode" ELSE "encode"
  <2>1. CASE e # d
    BY <1>1, <1>4, <1>7, <2>1 DEF Requested
  <2>2. CASE e = d
    <3>1. i + 1 \in DOMAIN chip[d]
      BY <1>5, <1>7, <2>2
    <3>2. QED BY <1>1, <1>2, <1>5, <1>7, <2>2, <3>1 DEF Requested
  <2>3. QED BY <2>1, <2>2
<1>8. codecIn' = codecIn
  BY DEF ReadDevice, packetVars
<1>9. QED BY <1>6, <1>7, <1>8 DEF Requested, Src

-----------------------------------------------------------------------------
(* The whole: every step of the pipeline keeps TravelInv.                  *)

LEMMA TravelInit == Init => TravelInv
<1> SUFFICES ASSUME Init PROVE TravelInv
  OBVIOUS
<1> USE DEF Init
<1>1. Arrived = {} /\ Going = {}
  BY DEF Arrived, Going
<1>2. \A c \in Codecs : Line(c) = <<>> /\ At(c) = {}
  <2> SUFFICES ASSUME NEW c \in Codecs PROVE Line(c) = <<>> /\ At(c) = {}
    OBVIOUS
  <2>1. Line(c) = (<<>> \o <<>>) \o <<>>
    BY DEF Line
  <2>2. Line(c) = <<>>
    BY <2>1
  <2>3. QED BY <2>2 DEF At
<1>3. \A t \in Codecs : script[t] = <<>>
  OBVIOUS
<1>4. \A d \in Devices : chip[d] = <<>>
  OBVIOUS
<1>5. LineInv
  BY <1>1, <1>2, <1>4 DEF LineInv
<1>6. ScriptInv /\ PlaceInv /\ AudioInv /\ LookInv
  BY <1>1, <1>3 DEF ScriptInv, PlaceInv, AudioInv, LookInv
<1>7. OrderInv
  BY <1>1 DEF OrderInv
<1>8. QED BY <1>5, <1>6, <1>7 DEF TravelInv

(* A thread that goes on to its next step. *)
LEMMA GoesOn ==
  ASSUME Safe, NEW t \in Codecs, NEW op, AtStep(t, op), Advance(t),
         UNCHANGED waiting, queue'[t] = queue[t]
  PROVE  /\ script[t] # <<>> /\ script'[t] = Tail(script[t])
         /\ script'[t] = <<>> => Line(t)' = Tail(Line(t))
         /\ script'[t] # <<>> =>
              Line(t)' = Line(t) /\ current'[t] = current[t]
         /\ \A u \in Codecs \ {t} :
              /\ script'[u] = script[u] /\ current'[u] = current[u]
              /\ queue'[u] = queue[u] => Line(u)' = Line(u)
<1>1. /\ script[t] # <<>> /\ script'[t] = Tail(script[t])
      /\ script'[t] = <<>> => Line(t)' = Tail(Line(t))
      /\ script'[t] # <<>> =>
           Line(t)' = Line(t) /\ current'[t] = current[t]
      /\ \A u \in Codecs \ {t} : script'[u] = script[u] /\ current'[u] = current[u]
  BY AdvanceLine DEF Safe, AtStep
<1>2. QED BY <1>1 DEF Line

LEMMA TravelStep ==
  Safe /\ [Next]_vars => TravelInv'
<1> SUFFICES ASSUME Safe, [Next]_vars PROVE InLine' /\ Requested' /\ Rest'
  BY DEF TravelInv, LineInv, InLine, Requested, Rest
<1> USE StationsAreCodecs
<1>0. /\ TypeOK /\ FlowInv /\ SendInv /\ Requested
  BY Parts DEF Safe
<1>1. ASSUME NEW p \in Packets, NEW c \in CodecsIn, Receive(p, c)
      PROVE  InLine' /\ Requested' /\ Rest'
  <2>1. p \notin Arrived /\ \A q \in Packets : q # p => codecIn'[q] = codecIn[q]
    BY <1>1, <1>0, ComesLast DEF Receive, TypeOK
  <2>2. Requested'
    BY <1>1, <2>1, RequestsKept DEF Receive
  <2>3. QED BY <1>1, <2>2, Received
<1>2. ASSUME NEW p \in Packets, Dump(p)
      PROVE  InLine' /\ Requested' /\ Rest'
  <2>1. p \notin Arrived /\ \A q \in Packets : q # p => codecIn'[q] = codecIn[q]
    BY <1>2, <1>0, ComesLast DEF Dump, TypeOK
  <2>2. Requested'
    BY <1>2, <2>1, RequestsKept DEF Dump, stationVars
  <2>3. QED BY <1>2, <2>2, Dumped
<1>3. ASSUME NEW t \in Codecs, Pop(t)
      PROVE  InLine' /\ Requested' /\ Rest'
  <2> DEFINE p == Head(queue[t])
             handler == Handler(t, codecIn[p])
  <2>1. p \in At(t) /\ \A c \in Codecs : Line(c)' = Line(c)
    BY <1>0, <1>3, PopLine
  <2>2. /\ script[t] = <<>> /\ script'[t] = handler /\ current'[t] = p
        /\ \A u \in Codecs \ {t} : /\ script'[u] = script[u]
                                   /\ current'[u] = current[u]
    BY <1>0, <1>3 DEF Pop, Begin, TypeOK
  <2>3. p \in Going /\ t \in Workers /\ codecIn[p] \in ECodecType \ {"none"}
    BY <1>3, <2>1, GoingHasSource DEF Safe, TravelInv, LineInv, Pop
  <2>4. /\ Src(p) = t => Whole(t, handler)
        /\ Src(p) # t => handler = <<Set(t), Check>>
    BY <2>3, HandlerScript DEF Src
  <2> HIDE DEF p, handler
  <2>5. InLine' /\ Rest'
    BY <1>3, <2>1, <2>2, <2>4, Taken DEF Pop
  <2>6. QED BY <1>0, <1>3, <2>5, SameRequests DEF Pop, packetVars
<1>4. ASSUME NEW d \in Codecs, FeedDevice(d)
      PROVE  InLine' /\ Requested' /\ Rest'
  BY <1>0, <1>4, FeedLine, SameView, RequestFed DEF FeedDevice
<1>5. ASSUME NEW d \in Codecs, ReadDevice(d)
      PROVE  InLine' /\ Requested' /\ Rest'
  <2> DEFINE p == Head(waiting[d])
  <2> PICK rewrite \in BOOLEAN :
             Begin(d, p, Response(d, codecIn[p], Head(chip[d]), rewrite))
    BY <1>5 DEF ReadDevice
  <2> DEFINE handler == Response(d, codecIn[p], Head(chip[d]), rewrite)
  <2>1. p \in At(d) /\ \A c \in Codecs : Line(c)' = Line(c)
    BY <1>0, <1>5, ReadLine
  <2>2. /\ script[d] = <<>> /\ script'[d] = handler /\ current'[d] = p
        /\ \A u \in Codecs \ {d} : /\ script'[u] = script[u]
                                   /\ current'[u] = current[u]
    BY <1>0 DEF Begin, TypeOK
  <2>3. p \in Going /\ d \in Devices /\ codecIn[p] \in ECodecType \ {"none"}
    BY <1>5, <2>1, GoingHasSource DEF Safe, TravelInv, LineInv, ReadDevice
  <2>4. /\ Requested'
        /\ Head(chip[d]) = IF Src(p) = d THEN "decode" ELSE "encode"
    BY <1>5, RequestRead
  <2>5. /\ Src(p) = d => Whole(d, handler)
        /\ Src(p) # d => handler = <<Set(d), Check>>
    BY <2>3, <2>4, ResponseScript DEF Src
  <2> HIDE DEF p, handler
  <2>6. InLine' /\ Rest'
    BY <1>5, <2>1, <2>2, <2>5, Taken DEF ReadDevice
  <2>7. QED BY <2>4, <2>6
<1>6. ASSUME NEW t \in Codecs, SetAudioSamples(t)
      PROVE  InLine' /\ Requested' /\ Rest'
  <2> PICK p : p = current[t]
    OBVIOUS
  <2>1. /\ UNCHANGED <<codecIn, isSet, notSent, queue, waiting, chip>>
        /\ AtStep(t, "hear") /\ Advance(t)
        /\ audio' = [audio EXCEPT ![p] = Arg(t)]
    BY <1>6 DEF SetAudioSamples, stationVars
  <2>2. /\ script[t] # <<>> /\ Head(script[t]) = Hear(Arg(t)) /\ Src(p) = t
        /\ Arg(t) \in {"raw", "levelled"}
    BY <2>1, StepIs
  <2>3. p \in Packets /\ p \in Going
    BY <2>2, DoesGoing
  <2>4. Head(script[t]) \notin Jobs(t)
    BY <2>2, Ranks
  <2>5. /\ Tail(script[t]) # <<>>
        /\ Hear(Arg(t)) = Hear("raw") =>
             Hear("levelled") \in {Tail(script[t])[i] : i \in DOMAIN Tail(script[t])}
    BY <2>2, <2>4, AtSource
  <2>6. /\ script'[t] = Tail(script[t]) /\ current'[t] = p
        /\ \A c \in Codecs : Line(c)' = Line(c)
        /\ \A u \in Codecs \ {t} : script'[u] = script[u] /\ current'[u] = current[u]
    BY <2>1, <2>5, GoesOn
  <2>7. /\ \A q \in Going : q # p => audio'[q] = audio[q]
        /\ audio'[p] = Arg(t)
    BY <1>0, <2>1, <2>3, GoingHasSource DEF TypeOK
  <2>8. Hear("levelled") \notin Todo(t)' => audio'[p] = "levelled"
    BY <2>2, <2>5, <2>6, <2>7 DEF Todo
  <2>9. InLine' /\ Rest'
    BY <2>1, <2>2, <2>4, <2>6, <2>7, <2>8, Prepared
  <2>10. QED BY <1>0, <2>1, <2>9, SameRequests
<1>7. ASSUME NEW t \in Codecs, SetData(t)
      PROVE  InLine' /\ Requested' /\ Rest'
  <2> PICK p, a : p = current[t] /\ a = Arg(t)
    OBVIOUS
  <2>1. /\ UNCHANGED <<codecIn, notSent, audio, queue, waiting, chip>>
        /\ AtStep(t, "set") /\ Advance(t)
        /\ isSet' = [isSet EXCEPT ![p] = @ \cup {a}]
    BY <1>7 DEF SetData, stationVars
  <2>2. script[t] # <<>> /\ Head(script[t]) = Set(a) /\ a \in Codecs
    BY <2>1, StepIs
  <2>3. p \in Packets /\ p \in Going
    BY <2>2, DoesGoing
  <2>4. /\ script'[t] = Tail(script[t])
        /\ script'[t] = <<>> => Line(t)' = Tail(Line(t))
        /\ script'[t] # <<>> => Line(t)' = Line(t) /\ current'[t] = p
        /\ \A u \in Codecs \ {t} : /\ script'[u] = script[u]
                                   /\ current'[u] = current[u]
                                   /\ Line(u)' = Line(u)
    BY <2>1, GoesOn
  <2>5. Requested'
    BY <1>0, <2>1, SameRequests
  <2>6. CASE Src(p) # t
    <3>1. script[t] = <<Set(t), Check>> /\ Tail(script[t]) = <<Check>>
      BY <2>2, <2>6, Elsewhere, StepsDiffer
    <3>2. a = t
      BY <2>2, <3>1, StepsDiffer
    <3>3. /\ script'[t] = <<Check>> /\ current'[t] = p
          /\ \A c \in Codecs : Line(c)' = Line(c)
      BY <2>4, <3>1
    <3>4. isSet' = [isSet EXCEPT ![p] = @ \cup {t}]
      BY <2>1, <3>2
    <3>5. \A u \in Codecs \ {t} :
            script'[u] = script[u] /\ current'[u] = current[u]
      BY <2>4
    <3>6. InLine' /\ Rest'
      BY <2>1, <2>2, <2>6, <3>1, <3>3, <3>4, <3>5, Encoded
    <3>7. QED BY <2>5, <3>6
  <2>7. CASE Src(p) = t /\ Head(script[t]) \notin Jobs(t)
    <3>1. /\ Head(script[t]) \in {Hear("raw"), Hear("levelled"), Set(t)}
          /\ Tail(script[t]) # <<>>
          /\ Todo(t) = {Head(script[t])} \cup
               {Tail(script[t])[i] : i \in DOMAIN Tail(script[t])}
      BY <2>2, <2>7, AtSource
    <3>2. a = t /\ Set(t) # Hear("levelled")
      BY <2>2, <3>1, StepsDiffer
    <3>3. isSet' = isSet
      <4>1. t \in isSet[p] /\ isSet \in [Packets -> SUBSET Codecs]
        BY <1>0, <2>3, <2>7 DEF Safe, TravelInv, PlaceInv, TypeOK
      <4>2. QED BY <2>1, <2>3, <3>2, <4>1
    <3>4. Hear("levelled") \notin Todo(t)' => audio'[p] = "levelled"
      <4>1. Hear("levelled") \notin Todo(t)' => Hear("levelled") \notin Todo(t)
        BY <2>2, <2>4, <3>1, <3>2 DEF Todo
      <4>2. Does(t, p)
        BY <2>2 DEF Does
      <4>3. QED BY <2>1, <2>3, <2>7, <4>1, <4>2 DEF Safe, TravelInv, AudioInv
    <3>5. \A c \in Codecs : Line(c)' = Line(c)
      BY <2>4, <3>1
    <3>6. InLine' /\ Rest'
      BY <2>1, <2>2, <2>4, <2>7, <3>1, <3>3, <3>4, <3>5, Prepared
    <3>7. QED BY <2>5, <3>6
  <2>8. CASE Src(p) = t /\ Head(script[t]) \in Jobs(t)
    <3>1. PICK c \in Codecs \ {t} : Head(script[t]) = Job(t, c)
      BY <2>8 DEF Jobs
    <3>2. c = a /\ a \notin Visits(t)
      BY <2>2, <3>1, JobFacts
    <3>3. InLine' /\ Rest'
      BY <2>1, <2>2, <2>4, <2>8, <3>1, <3>2, JobDone
    <3>4. QED BY <2>5, <3>3
  <2>9. QED BY <2>6, <2>7, <2>8
<1>8. ASSUME NEW t \in Codecs, HandOver(t)
      PROVE  InLine' /\ Requested' /\ Rest'
  <2> PICK p, a : p = current[t] /\ a = Arg(t)
    OBVIOUS
  <2>1. /\ UNCHANGED <<codecIn, isSet, notSent, audio, waiting, chip>>
        /\ AtStep(t, "push") /\ Advance(t)
        /\ queue' = [queue EXCEPT ![a] = Append(@, p)]
    BY <1>8 DEF HandOver, packetVars
  <2>2. /\ script[t] # <<>> /\ Head(script[t]) = Job(t, a) /\ Src(p) = t
        /\ a \in Visits(t) /\ a \in Codecs \ {t}
    BY <2>1, StepIs
  <2>3. p \in Packets
    BY <2>2, DoesGoing
  <2>4. /\ queue'[a] = Append(queue[a], p)
        /\ \A u \in Codecs \ {a} : queue'[u] = queue[u]
    BY <1>0, <2>1, <2>2 DEF TypeOK
  <2>5. /\ script'[t] = Tail(script[t])
        /\ script'[t] = <<>> => Line(t)' = Tail(Line(t))
        /\ script'[t] # <<>> => Line(t)' = Line(t) /\ current'[t] = p
        /\ \A u \in Codecs \ {t} : script'[u] = script[u] /\ current'[u] = current[u]
        /\ \A u \in Codecs \ {t, a} : Line(u)' = Line(u)
    BY <2>1, <2>2, <2>4, GoesOn
  <2>6. Line(a)' = Append(Line(a), p)
    BY <1>0, <2>1, <2>2, <2>3, <2>4, <2>5, PushLine
  <2>7. InLine' /\ Rest'
    BY <2>1, <2>2, <2>5, <2>6, JobDone
  <2>8. QED BY <1>0, <2>1, <2>7, SameRequests
<1>9. ASSUME NEW t \in Codecs, CheckDone(t)
      PROVE  InLine' /\ Requested' /\ Rest'
  <2> PICK p : p = current[t]
    OBVIOUS
  <2>1. /\ UNCHANGED <<codecIn, isSet, notSent, audio, queue, waiting, chip>>
        /\ AtStep(t, "check") /\ Advance(t) /\ ~ ToBeSent(p)
    BY <1>9 DEF CheckDone, packetVars, stationVars
  <2>2. script[t] = <<Check>> /\ Src(p) # t /\ Tail(script[t]) = <<>>
    <3>1. script[t] = <<Check>> /\ Src(p) # t
      BY <2>1, StepIs
    <3>2. QED BY <3>1
  <2>3. /\ script'[t] = <<>> /\ Line(t)' = Tail(Line(t))
        /\ \A u \in Codecs \ {t} : /\ script'[u] = script[u]
                                   /\ current'[u] = current[u]
                                   /\ Line(u)' = Line(u)
    BY <2>1, <2>2, GoesOn
  <2>4. ~ ToBeSent(p)'
    BY <2>1 DEF ToBeSent, AllCodecsAreSet
  <2>5. InLine' /\ Rest'
    BY <2>1, <2>2, <2>3, <2>4, Left
  <2>6. QED BY <1>0, <2>1, <2>5, SameRequests
<1>10. ASSUME NEW t \in Codecs, StartSend(t)
       PROVE  InLine' /\ Requested' /\ Rest'
  <2> PICK p : p = current[t]
    OBVIOUS
  <2>1. /\ UNCHANGED <<codecIn, isSet, notSent, audio, queue, waiting, chip>>
        /\ UNCHANGED current
        /\ AtStep(t, "check") /\ script' = [script EXCEPT ![t] = <<Send>>]
    BY <1>10 DEF StartSend, packetVars, stationVars
  <2>2. script[t] = <<Check>> /\ script[t] # <<>> /\ Src(p) # t
    BY <2>1, StepIs
  <2>3. /\ script'[t] = <<Send>>
        /\ \A u \in Codecs \ {t} : script'[u] = script[u] /\ current'[u] = current[u]
    BY <1>0, <2>1 DEF TypeOK
  <2>4. \A c \in Codecs : Line(c)' = Line(c)
    <3>1. Line(t)' = Line(t)
      <4>1. script'[t] # <<>>
        BY <2>3
      <4>2. QED BY <2>1, <2>2, <4>1 DEF Line
    <3>2. \A c \in Codecs \ {t} : Line(c)' = Line(c)
      BY <2>1, <2>3 DEF Line
    <3>3. QED BY <3>1, <3>2
  <2>5. InLine' /\ Rest'
    BY <2>1, <2>2, <2>3, <2>4, Encoded
  <2>6. QED BY <1>0, <2>1, <2>5, SameRequests
<1>11. ASSUME NEW t \in Codecs, AtStep(t, "send"), EndSend(t)
       PROVE  InLine' /\ Requested' /\ Rest'
  <2> PICK p : p = current[t]
    OBVIOUS
  <2>1. /\ UNCHANGED <<codecIn, isSet, audio, queue, waiting, chip>>
        /\ AtStep(t, "send") /\ Advance(t)
        /\ notSent' = [notSent EXCEPT ![p] = FALSE]
    BY <1>11 DEF EndSend, stationVars
  <2>2. /\ script[t] = <<Send>> /\ Src(p) # t /\ Tail(script[t]) = <<>>
        /\ script[t] # <<>>
    <3>1. script[t] = <<Send>> /\ Src(p) # t
      BY <2>1, StepIs
    <3>2. QED BY <3>1
  <2>3. /\ script'[t] = <<>> /\ Line(t)' = Tail(Line(t))
        /\ \A u \in Codecs \ {t} : /\ script'[u] = script[u]
                                   /\ current'[u] = current[u]
                                   /\ Line(u)' = Line(u)
    BY <2>1, <2>2, GoesOn
  <2>4. p \in Packets
    BY <2>2, DoesGoing
  <2>5. /\ \A q \in Packets : notSent'[q] => notSent[q]
        /\ ~ notSent'[p]
    BY <1>0, <2>1, <2>4 DEF TypeOK
  <2>6. ~ ToBeSent(p)'
    BY <2>5 DEF ToBeSent
  <2>7. InLine' /\ Rest'
    BY <2>1, <2>2, <2>3, <2>5, <2>6, Left
  <2>8. QED BY <1>0, <2>1, <2>7, SameRequests
<1>12. CASE UNCHANGED <<packetVars, stationVars, threadVars>>
  <2>1. \A c \in Codecs : Line(c)' = Line(c)
    BY <1>12 DEF Line, stationVars, threadVars
  <2>2. InLine' /\ Rest'
    BY <1>12, <2>1, SameView
  <2>3. QED BY <1>0, <1>12, <2>2, SameRequests DEF packetVars, stationVars
<1>13. ASSUME NEW t \in Codecs, SendFails(t)
       PROVE  InLine' /\ Requested' /\ Rest'
  BY <1>12, <1>13 DEF SendFails
<1>14. CASE UNCHANGED vars
  BY <1>12, <1>14 DEF vars
<1>15. QED
  BY <1>1, <1>2, <1>3, <1>4, <1>5, <1>6, <1>7, <1>8, <1>9, <1>10, <1>11,
     <1>13, <1>14
     DEF Next, ReflectorStep, ThreadStep, SendStep, SendSucceeds, GiveUp

-----------------------------------------------------------------------------
(* What follows for a packet.                                              *)

(* At its source a packet owes what is still among the steps to do, and so *)
(* before the first of these no other codec has been produced.             *)
LEMMA NotYetProduced ==
  ASSUME Safe, NEW t \in Codecs, script[t] # <<>>, Src(current[t]) = t,
         NEW c \in Codecs \ {t}, Job(t, c) \in Todo(t)
  PROVE  c \notin isSet[current[t]]
<1>1. current[t] \in Going /\ current[t] \in At(t) /\ c \in Others(current[t])
  BY DoesGoing DEF Others
<1>2. Owed(current[t], c)
  BY <1>1 DEF Owed
<1>3. QED BY <1>1, <1>2 DEF Safe, TravelInv, PlaceInv

LEMMA EncodesOnce == Safe => EncodedOnce
<1> SUFFICES ASSUME Safe, NEW t \in Codecs, AtStep(t, "set")
             PROVE  \/ Arg(t) \notin isSet[current[t]]
                    \/ isSet[current[t]] = {Arg(t)}
  BY DEF EncodedOnce
<1> DEFINE p == current[t]
           a == Arg(t)
<1>1. script[t] # <<>> /\ Head(script[t]) = Set(a) /\ a \in Codecs
  BY StepIs
<1>2. /\ p \in Going /\ p \in At(t) /\ p \in Packets /\ Does(t, p)
      /\ isSet[p] \subseteq Codecs /\ PlaceInv
  BY <1>1, DoesGoing DEF Safe, TypeOK, TravelInv
<1>3. CASE Src(p) # t
  <2>1. a = t /\ Set(t) \in Todo(t)
    BY <1>1, <1>3, Elsewhere, StepsDiffer
  <2>2. t \in Others(p)
    BY <1>3 DEF Others
  <2>3. QED BY <1>2, <2>1, <2>2 DEF PlaceInv
<1>4. CASE Src(p) = t /\ Set(a) \notin Jobs(t)
  <2>1. a = t /\ Jobs(t) \subseteq Todo(t)
    BY <1>1, <1>4, AtSource, StepsDiffer
  <2>2. \A c \in Codecs \ {t} : Job(t, c) \in Todo(t)
    BY <2>1 DEF Jobs
  <2>3. \A c \in Codecs \ {t} : c \notin isSet[p]
    BY <1>1, <1>4, <2>2, NotYetProduced
  <2>4. t \in isSet[p]
    BY <1>2, <1>4 DEF PlaceInv
  <2>5. QED BY <1>2, <2>1, <2>3, <2>4
<1>5. CASE Src(p) = t /\ Set(a) \in Jobs(t)
  <2>1. PICK c \in Codecs \ {t} : Set(a) = Job(t, c)
    BY <1>5 DEF Jobs
  <2>2. c = a
    BY <1>1, <2>1, JobFacts
  <2>3. Job(t, c) \in Todo(t)
    BY <1>1, <1>5, <2>1, AtSource
  <2>4. QED BY <1>1, <1>5, <2>2, <2>3, NotYetProduced
<1>6. QED BY <1>3, <1>4, <1>5

LEMMA LevelsBeforeEncode == Safe => LevelledBeforeEncode
<1> SUFFICES ASSUME Safe, NEW c \in Codecs, NEW i \in DOMAIN queue[c],
                    c # Source(codecIn[queue[c][i]])
             PROVE  audio[queue[c][i]] = "levelled"
  BY DEF LevelledBeforeEncode
<1> DEFINE p == queue[c][i]
<1>1. p \in At(c)
  <2> DEFINE front == Held(c) \o InChip(c)
  <2>1. /\ front \in Seq(Arrived) /\ queue[c] \in Seq(Arrived)
        /\ Line(c) = front \o queue[c]
    BY LineParts, ThreeParts DEF Safe, Line, Held, InChip
  <2> HIDE DEF front
  <2>2. Len(front) + i \in DOMAIN Line(c) /\ Line(c)[Len(front) + i] = p
    BY <2>1, InLastPart
  <2>3. QED BY <2>2 DEF At
<1>2. p \in Going
  BY <1>1 DEF Safe, TravelInv, LineInv
<1>3. c \in Others(p)
  BY DEF Others, Src
<1>4. QED BY <1>1, <1>2, <1>3 DEF Safe, TravelInv, AudioInv

LEMMA StrandsNothing == Safe => NothingStranded
<1> SUFFICES ASSUME Safe, Quiet, NEW p \in Packets,
                    codecIn[p] \notin {None, "none"},
                    Source(codecIn[p]) # "m17", notSent[p]
             PROVE  FALSE
  BY DEF NothingStranded, Safe, TypeOK
<1>1. p \in Going /\ Src(p) # "m17" /\ Src(p) \in Codecs
  BY GoingHasSource DEF Safe, Going, Arrived, Src
<1>2. \A c \in Codecs : p \notin At(c)
  <2> SUFFICES ASSUME NEW c \in Codecs PROVE p \notin At(c)
    OBVIOUS
  <2>1. script[c] = <<>> /\ queue[c] = <<>> /\ Held(c) = <<>>
    BY DEF Quiet, Held
  <2>2. InChip(c) = <<>>
    <3>1. ASSUME c \in Devices PROVE waiting[c] = <<>>
      <4>1. /\ chip[c] = <<>> /\ Len(waiting[c]) = Len(chip[c])
            /\ waiting[c] \in Seq(Arrived)
        BY <3>1 DEF Quiet, Safe, FlowInv
      <4>2. Len(chip[c]) = 0
        BY <4>1
      <4>3. QED BY <4>1, <4>2, EmptySeq
    <3>2. QED BY <3>1 DEF InChip
  <2>3. Line(c) = <<>> \o (<<>> \o <<>>)
    BY <2>1, <2>2, LineParts DEF Safe
  <2>4. Line(c) = <<>>
    BY <2>3
  <2>5. QED BY <2>4 DEF At
<1>3. isSet[p] = Codecs
  <2>1. \A c \in Others(p) : c \in isSet[p]
    BY <1>1, <1>2 DEF Safe, TravelInv, PlaceInv, Owed, Others
  <2>2. Src(p) \in isSet[p] /\ isSet[p] \subseteq Codecs
    BY <1>1 DEF Safe, TravelInv, PlaceInv, TypeOK
  <2>3. QED BY <2>1, <2>2 DEF Others
<1>4. PICK t \in Codecs : script[t] \in {<<Check>>, <<Send>>}
  BY <1>1, <1>3 DEF Safe, TravelInv, LookInv, ToBeSent, AllCodecsAreSet
<1>5. <<Check>> # <<>> /\ <<Send>> # <<>>
  OBVIOUS
<1>6. QED BY <1>4, <1>5 DEF Quiet

(* Whoever sends a packet finds those of its codec that are complete to be *)
(* earlier ones: a later one cannot have been through the sender's station.*)
LEMMA CompleteAreEarlier ==
  ASSUME Safe, NEW t \in Codecs, AtStep(t, "send"),
         NEW q \in Packets, AllCodecsAreSet(q), q # current[t],
         codecIn[q] = codecIn[current[t]]
  PROVE  q < current[t]
<1> DEFINE p == current[t]
<1>1. script[t] # <<>> /\ Src(p) # t
  BY StepIs
<1>2. /\ p \in Going /\ p \in At(t) /\ Line(t)[1] = p /\ 1 \in DOMAIN Line(t)
      /\ \A r : Does(t, r) <=> r = p
  BY <1>1, DoesGoing
<1>3. q \in Going /\ Src(q) = Src(p) /\ t \in Others(p) /\ t \in Others(q)
  BY <1>1, <1>2 DEF Going, Arrived, Src, Others
<1>4. ~ Owed(q, t) /\ q \notin At(t)
  <2>1. t \in isSet[q] /\ ~ Does(t, q)
    BY <1>2 DEF AllCodecsAreSet
  <2>2. QED BY <1>3, <2>1 DEF Safe, TravelInv, PlaceInv
<1>5. ~ (p < q)
  BY <1>2, <1>3, <1>4 DEF Safe, TravelInv, OrderInv
<1>6. p \in Nat /\ q \in Nat
  BY <1>2, GoingHasSource DEF Safe, Packets
<1>7. QED BY <1>5, <1>6

-----------------------------------------------------------------------------
(* Of every packet the invariant holds that says where it is, what it is   *)
(* still owed and what has been done with it: the stations are first come, *)
(* first served, and nobody works on a packet out of its turn.             *)
THEOREM TravelsRight == Spec => []TravelInv
<1>1. (TypeOK /\ FlowInv) /\ (SendInv /\ SentOnce) /\ TravelInv /\ [Next]_vars
        => TravelInv'
  BY TravelStep DEF Safe
<1>2. QED BY <1>1, TravelInit, TypeCorrect, SendOnce, PTL DEF Spec

LEMMA SafeAlways == Spec => [](Safe /\ SentOnce)
<1>1. (TypeOK /\ FlowInv) /\ (SendInv /\ SentOnce) /\ TravelInv
        => Safe /\ SentOnce
  BY DEF Safe
<1>2. QED BY <1>1, TravelsRight, TypeCorrect, SendOnce, PTL

(* No codec of a packet is produced twice, and nothing is written into a   *)
(* packet that somebody has found complete.                                *)
THEOREM EncodeOnce == Spec => []EncodedOnce
<1>1. QED BY EncodesOnce, SafeAlways, PTL

(* Nobody encodes samples that are not there yet or that the AGC has not   *)
(* levelled.                                                               *)
THEOREM LevelFirst == Spec => []LevelledBeforeEncode
<1>1. QED BY LevelsBeforeEncode, SafeAlways, PTL

(* When every thread, queue and chip is empty, all packets but M17's have  *)
(* left: the flag set last is always set before somebody's last look.      *)
THEOREM StrandNothing == Spec => []NothingStranded
<1>1. QED BY StrandsNothing, SafeAlways, PTL

(* All four promises for a packet together, as the run with the md380      *)
(* vocoder checks them.                                                    *)
THEOREM PacketsRight == Spec => []PacketInv
<1>1. Safe /\ SentOnce => PacketInv
  BY EncodesOnce, LevelsBeforeEncode, StrandsNothing DEF PacketInv
<1>2. QED BY <1>1, SafeAlways, PTL

-----------------------------------------------------------------------------
(* The order in which packets leave, and what the service promises.        *)

(* A packet that left stays what it was. *)
LEMMA CodecsStay ==
  ASSUME Safe, SentOnce, [Next]_vars
  PROVE  \A p \in Delivered : p \in Packets /\ codecIn'[p] = codecIn[p]
<1>1. \A p \in Delivered : p \in Packets /\ codecIn[p] # None
  <2>1. \A p \in Delivered : p \in Packets /\ isSet[p] = Codecs
    BY DEF Delivered, Safe, TypeOK, SentOnce, AllCodecsAreSet
  <2>2. "dstar" \in Codecs
    BY DEF Codecs
  <2>3. QED BY <2>1, <2>2 DEF Safe, FlowInv
<1>2. ASSUME NEW p \in Packets, NextPacket(p), NEW c,
             codecIn' = [codecIn EXCEPT ![p] = c]
      PROVE  \A q \in Delivered : codecIn'[q] = codecIn[q]
  BY <1>1, <1>2 DEF NextPacket, Safe, TypeOK
<1>3. CASE UNCHANGED codecIn
  BY <1>1, <1>3
<1>4. CASE ReflectorStep
  BY <1>1, <1>2, <1>4 DEF ReflectorStep, Receive, Dump
<1>5. CASE \E t \in Codecs : FeedDevice(t) \/ ThreadStep(t)
  BY <1>3, <1>5
     DEF FeedDevice, ThreadStep, Pop, ReadDevice, SetAudioSamples, SetData,
         HandOver, CheckDone, StartSend, SendStep, SendSucceeds, SendFails,
         GiveUp, EndSend, packetVars
<1>6. CASE UNCHANGED vars
  BY <1>3, <1>6 DEF vars, packetVars
<1>7. QED BY <1>1, <1>4, <1>5, <1>6 DEF Next

(* Only SendSucceeds delivers. *)
LEMMA WhoDelivers ==
  ASSUME [Next]_vars
  PROVE  UNCHANGED delivered \/ \E t \in Codecs : SendSucceeds(t)
BY DEF Next, ReflectorStep, Receive, Dump, FeedDevice, ThreadStep, Pop,
       ReadDevice, SetAudioSamples, SetData, HandOver, CheckDone, StartSend,
       SendStep, SendFails, GiveUp, vars, sendVars

LEMMA SendsInOrder ==
  ASSUME Safe, SentOnce, NEW t \in Codecs, SendSucceeds(t)
  PROVE  /\ current[t] \in Packets /\ current[t] \in Arrived
         /\ current[t] \notin Delivered \cup dropped
         /\ \A q \in Delivered :
              codecIn[q] = codecIn[current[t]] => q < current[t]
<1>1. AtStep(t, "send")
  BY DEF SendSucceeds
<1>2. current[t] \in Packets /\ current[t] \in Arrived /\ ToBeSent(current[t])
  BY <1>1, Sending, StepOfThread DEF Safe
<1>3. current[t] \notin Delivered \cup dropped
  BY <1>2 DEF Safe, SendInv, ToBeSent
<1>4. \A q \in Delivered : q \in Packets /\ AllCodecsAreSet(q)
  BY DEF Delivered, SentOnce, Safe, TypeOK
<1>5. \A q \in Delivered : codecIn[q] = codecIn[current[t]] => q < current[t]
  BY <1>1, <1>3, <1>4, CompleteAreEarlier
<1>6. QED BY <1>2, <1>3, <1>5

LEMMA OrderStep ==
  Safe /\ SentOnce /\ DeliveredInOrder /\ [Next]_vars => DeliveredInOrder'
<1> SUFFICES ASSUME Safe, SentOnce, DeliveredInOrder, [Next]_vars,
                    NEW i \in DOMAIN delivered', NEW j \in DOMAIN delivered',
                    i < j, codecIn'[delivered'[i]] = codecIn'[delivered'[j]]
             PROVE  delivered'[i] < delivered'[j]
  BY DEF DeliveredInOrder
<1>1. CASE UNCHANGED delivered
  <2>1. delivered[i] \in Delivered /\ delivered[j] \in Delivered
    BY <1>1 DEF Delivered
  <2>2. codecIn[delivered[i]] = codecIn[delivered[j]]
    BY <1>1, <2>1, CodecsStay
  <2>3. QED BY <1>1, <2>2 DEF DeliveredInOrder
<1>2. ASSUME NEW t \in Codecs, SendSucceeds(t)
      PROVE  delivered'[i] < delivered'[j]
  <2>1. UNCHANGED codecIn /\ delivered' = Append(delivered, current[t])
    BY <1>2 DEF SendSucceeds, EndSend
  <2>2. /\ delivered \in Seq(Packets) /\ current[t] \in Packets
        /\ \A q \in Delivered :
             codecIn[q] = codecIn[current[t]] => q < current[t]
    BY <1>2, SendsInOrder DEF Safe, TypeOK
  <2>3. /\ Len(delivered) \in Nat /\ DOMAIN delivered = 1..Len(delivered)
        /\ DOMAIN delivered' = 1..(Len(delivered) + 1)
        /\ \A n \in 1..Len(delivered) : delivered'[n] = delivered[n]
        /\ delivered'[Len(delivered) + 1] = current[t]
    BY <2>1, <2>2
  <2>4. i \in DOMAIN delivered /\ delivered'[i] = delivered[i]
    BY <2>3
  <2>5. CASE j = Len(delivered) + 1
    <3>1. delivered[i] \in Delivered
      BY <2>4 DEF Delivered
    <3>2. QED BY <2>1, <2>2, <2>3, <2>4, <2>5, <3>1
  <2>6. CASE j # Len(delivered) + 1
    <3>1. j \in DOMAIN delivered /\ delivered'[j] = delivered[j]
      BY <2>3, <2>6
    <3>2. QED BY <2>1, <2>4, <3>1 DEF DeliveredInOrder
  <2>7. QED BY <2>5, <2>6
<1>3. QED BY <1>1, <1>2, WhoDelivers

(* Packets that came in with the same codec leave in the order they came,  *)
(* whatever their encoders take: a later one would have to be through the  *)
(* station of the thread that sends the earlier one.                       *)
THEOREM LeaveInOrder == Spec => []DeliveredInOrder
<1>1. Init => DeliveredInOrder
  BY DEF Init, DeliveredInOrder
<1>2. QED BY <1>1, OrderStep, SafeAlways, PTL DEF Spec

LEMMA ServiceStep ==
  Safe /\ SentOnce /\ [Next]_vars => [Service!Next]_(Service!vars)
<1> SUFFICES ASSUME Safe, SentOnce, [Next]_vars
             PROVE  [Service!Next]_(Service!vars)
  OBVIOUS
<1>0. /\ Service!Packets = Packets /\ Service!Arrived = Arrived
      /\ Service!Delivered = Delivered
  BY DEF Service!Packets, Packets, Service!Arrived, Arrived,
         Service!Delivered, Delivered
<1>1. ASSUME NEW p \in Packets, NEW c \in CodecsIn, NextPacket(p),
             codecIn' = [codecIn EXCEPT ![p] = c], UNCHANGED sendVars
      PROVE  Service!Next
  <2>1. Service!Accept(p, c)
    BY <1>0, <1>1 DEF NextPacket, sendVars, Service!Accept
  <2>2. QED BY <1>0, <2>1 DEF Service!Next
<1>2. ASSUME NEW t \in Codecs, SendSucceeds(t)
      PROVE  Service!Next
  <2>1. /\ UNCHANGED <<codecIn, dropped>>
        /\ delivered' = Append(delivered, current[t])
    BY <1>2 DEF SendSucceeds, EndSend
  <2>2. Service!Deliver(current[t]) /\ current[t] \in Packets
    BY <1>0, <1>2, <2>1, SendsInOrder DEF Service!Deliver, Service!Inside
  <2>3. QED BY <1>0, <2>2 DEF Service!Next, Service!Leave
<1>3. ASSUME NEW t \in Codecs, GiveUp(t)
      PROVE  Service!Next
  <2>1. /\ AtStep(t, "send") /\ UNCHANGED <<codecIn, delivered>>
        /\ dropped' = dropped \cup {current[t]}
    BY <1>3 DEF GiveUp, EndSend
  <2>2. /\ current[t] \in Packets /\ current[t] \in Arrived
        /\ ToBeSent(current[t])
    BY <2>1, Sending, StepOfThread DEF Safe
  <2>3. current[t] \notin Delivered \cup dropped
    BY <2>2 DEF Safe, SendInv, ToBeSent
  <2>4. Service!Drop(current[t])
    BY <1>0, <2>1, <2>2, <2>3 DEF Service!Drop, Service!Inside
  <2>5. QED BY <1>0, <2>2, <2>4 DEF Service!Next, Service!Leave
<1>4. CASE UNCHANGED <<codecIn, delivered, dropped>>
  BY <1>4 DEF Service!vars
<1>5. CASE ReflectorStep
  BY <1>1, <1>5 DEF ReflectorStep, Receive, Dump
<1>6. CASE \E t \in Codecs : FeedDevice(t) \/ ThreadStep(t)
  BY <1>2, <1>3, <1>4, <1>6
     DEF FeedDevice, ThreadStep, Pop, ReadDevice, SetAudioSamples, SetData,
         HandOver, CheckDone, StartSend, SendStep, SendFails, packetVars,
         sendVars
<1>7. CASE UNCHANGED vars
  BY <1>4, <1>7 DEF vars, packetVars, sendVars
<1>8. QED BY <1>5, <1>6, <1>7 DEF Next

(* The pipeline does nothing the service does not allow: it takes packets  *)
(* in, gives each back at most once and those of one codec in order, or    *)
(* gives it up.  (That it does go on is the liveness the runs check.)      *)
THEOREM ServesSafely ==
  Spec => Service!Init /\ [][Service!Next]_(Service!vars)
<1>1. Init => Service!Init
  BY DEF Init, Service!Init, Packets, Service!Packets
<1>2. QED BY <1>1, ServiceStep, SafeAlways, PTL DEF Spec
=============================================================================
