----------------------------- MODULE Transcoder -----------------------------
(***************************************************************************)
(* The transcoding pipeline of CController: the reflector thread turns     *)
(* every STCPacket into one shared CTranscoderPacket; the thread of the    *)
(* packet's own codec decodes it and hands it to the other codecs; every   *)
(* codec's thread encodes, sets its flag in the packet and looks whether   *)
(* the packet is complete; whoever finds it complete and unsent sends it.  *)
(*                                                                         *)
(* Each codec has one station.  A software station is a queue and a worker *)
(* thread (ProcessC2Thread, ProcessIMBEThread, ProcessUSRPThread,          *)
(* ProcessSWAMBE2Thread); a hardware station is a CDVDevice with its input *)
(* queue, its queue of packets waiting for the chip, and its two threads.  *)
(* The chip here answers every request once and in order; DVSIDevice has   *)
(* the buffer depth, the time-outs and the chip that does not.             *)
(*                                                                         *)
(* A thread runs one handler at a time, as the sequence of those of its    *)
(* steps that another thread can see: every push and every flag is a step. *)
(***************************************************************************)
EXTENDS Naturals, Sequences

CONSTANTS
  MaxPackets,   \* bound: packets that arrive in one behaviour
  CodecsIn,     \* the codec_in values the reflector sends
  HasDmrsf,     \* is there a second DVSI device (dmrsf_device), or md380?
  MaxRetries,   \* max_retries of SendToReflector
  None          \* no packet, no thread, no codec

Codecs == {"dstar", "dmr", "p25", "m17", "usrp"}

(* ECodecType: "none" stands for any value the switches do not name. *)
ECodecType ==
  {"dstar", "dmr", "p25", "usrp", "svx", "c2_1600", "c2_3200", "none"}

ASSUME TranscoderAssumption ==
  /\ MaxPackets \in Nat
  /\ CodecsIn \subseteq ECodecType
  /\ HasDmrsf \in BOOLEAN
  /\ MaxRetries \in Nat \ {0}
  /\ None \notin ECodecType
  /\ None \notin Codecs
  /\ None \notin Nat

Packets == 1..MaxPackets

(* The codec whose flag the constructor sets and whose thread decodes.     *)
Source(c) ==
  CASE c = "svx" -> "usrp"
    [] c \in {"c2_1600", "c2_3200"} -> "m17"
    [] OTHER -> c

Devices == IF HasDmrsf THEN {"dstar", "dmr"} ELSE {"dstar"}
Workers == Codecs \ Devices

-----------------------------------------------------------------------------
(* The steps of the handlers.                                              *)

Steps ==
  [op : {"hear"}, arg : {"raw", "levelled"}]
    \cup [op : {"push", "set"}, arg : Codecs]
    \cup [op : {"check", "send"}, arg : {"reflector"}]

Hear(sound) == [op |-> "hear", arg |-> sound]   \* SetAudioSamples
Push(c) == [op |-> "push", arg |-> c]           \* queue.push / AddPacket
Set(c) == [op |-> "set", arg |-> c]             \* SetXData after an encode
Check == [op |-> "check", arg |-> "reflector"]  \* "we might be all done..."
Send == [op |-> "send", arg |-> "reflector"]    \* inside SendToReflector

(* Decoding: the audio is levelled by the AGC before anybody is given it   *)
(* (a disabled AGC changes nothing, and counts as levelling here).         *)
MutantCodec2toAudio ==   \* P25 both encoded here and handed to the IMBE thread
  <<Hear("levelled"), Push("dstar"), Push("p25"),
    IF HasDmrsf THEN Push("dmr") ELSE Set("dmr"), Set("p25"), Set("usrp")>>
Codec2toAudio ==
  <<Hear("levelled"), Push("dstar"),
    IF HasDmrsf THEN Push("dmr") ELSE Set("dmr"), Set("p25"), Set("usrp")>>
IMBEtoAudio ==
  <<Hear("levelled"), Push("dstar"), Push("m17"), Push("dmr"), Push("usrp")>>
MutantUSRPtoAudio ==   \* hands on to D-Star before the audio is set
  <<Push("dstar"), Hear("levelled"), Push("m17"), Push("dmr"), Push("p25")>>
USRPtoAudio ==
  <<Hear("levelled"), Push("dstar"), Push("m17"), Push("dmr"), Push("p25")>>
SvxToAudio ==
  <<Hear("levelled"), Push("dstar"), Push("m17"), Push("dmr"), Push("p25")>>
SWAMBE2toAudio ==
  <<Hear("levelled"), Push("dstar"), Push("m17"), Push("p25"), Push("usrp")>>

(* Encoding: set the flag, then see whether the packet is complete.        *)
AudiotoCodec2 == <<Set("m17"), Check>>
AudiotoIMBE == <<Set("p25"), Check>>
MutantAudiotoUSRP == <<Check, Set("usrp")>>   \* looks before it sets its flag
AudiotoUSRP == <<Set("usrp"), Check>>
AudiotoSWAMBE2 == <<Set("dmr"), Check>>

(* What the read thread of a device does with an answer for a packet: the  *)
(* answer to a decode request is audio, to an encode request data.  Where  *)
(* it goes from there depends on codec_in alone.  With an output gain for  *)
(* DMR (re-encoded by md380, or a change of gain in the AMBE frame), which *)
(* can be set at any time, the DMR data of a DMR packet is rewritten.      *)
MutantDstResponse(c, answer) ==   \* hands on before the AGC
  IF c = "dstar"
    THEN <<answer, Push("m17"), Hear("levelled"),
           Push("p25"), Push("usrp"), Push("dmr")>>
    ELSE <<answer, Check>>
DstResponse(c, answer) ==
  IF c = "dstar"
    THEN <<answer, Hear("levelled"),
           Push("m17"), Push("p25"), Push("usrp"), Push("dmr")>>
    ELSE <<answer, Check>>
DmrResponse(c, answer, rewrite) ==
  IF c # "dmr" THEN <<answer, Check>>
  ELSE IF rewrite THEN <<answer, Hear("levelled"), Set("dmr"),
                         Push("m17"), Push("p25"), Push("usrp"), Push("dstar")>>
  ELSE <<answer, Hear("levelled"),
         Push("m17"), Push("p25"), Push("usrp"), Push("dstar")>>

Answer(d, request) == IF request = "decode" THEN Hear("raw") ELSE Set(d)

(* The handler of device d for an answer. *)
Response(d, c, request, rewrite) ==
  IF d = "dstar" THEN DstResponse(c, Answer(d, request))
                 ELSE DmrResponse(c, Answer(d, request), rewrite)

(* The switch of each worker thread. *)
Handler(t, c) ==
  CASE t = "m17" -> IF Source(c) = "m17" THEN Codec2toAudio ELSE AudiotoCodec2
    [] t = "p25" -> IF c = "p25" THEN IMBEtoAudio ELSE AudiotoIMBE
    [] t = "usrp" -> IF c = "usrp" THEN USRPtoAudio
                     ELSE IF c = "svx" THEN SvxToAudio ELSE AudiotoUSRP
    [] OTHER -> IF c = "dmr" THEN SWAMBE2toAudio ELSE AudiotoSWAMBE2
-----------------------------------------------------------------------------
VARIABLES
  codecIn,      \* codec_in of every packet, None before it arrives
  isSet,        \* the X_set flags of every packet
  notSent,      \* the not_sent flag of every packet
  audio,        \* the packet's samples: "unset", "raw" or "levelled"
  queue,        \* the input queue of every station
  waiting,      \* waiting_packet of every device
  chip,         \* the requests in every device's chip, oldest first
  script,       \* the steps every thread still has to do
  current,      \* the packet it does them for
  sendMux,      \* the thread that holds send_mux over a send, or None
  attempt,      \* every thread's attempt in SendToReflector
  delivered,    \* history: the packets sent, in order
  dropped       \* history: the packets given up after the last retry

packetVars == <<codecIn, isSet, notSent, audio>>
stationVars == <<queue, waiting, chip>>
threadVars == <<script, current>>
sendVars == <<sendMux, attempt, delivered, dropped>>
vars == <<packetVars, stationVars, threadVars, sendVars>>

AllCodecsAreSet(p) == isSet[p] = Codecs

Init ==
  /\ codecIn = [p \in Packets |-> None]
  /\ isSet = [p \in Packets |-> {}]
  /\ notSent = [p \in Packets |-> TRUE]
  /\ audio = [p \in Packets |-> "unset"]
  /\ queue = [c \in Codecs |-> <<>>]
  /\ waiting = [d \in Devices |-> <<>>]
  /\ chip = [d \in Devices |-> <<>>]
  /\ script = [t \in Codecs |-> <<>>]
  /\ current = [t \in Codecs |-> None]
  /\ sendMux = None
  /\ attempt = [t \in Codecs |-> 0]
  /\ delivered = <<>>
  /\ dropped = {}

-----------------------------------------------------------------------------
(* ReadReflectorThread: a packet is made and goes to its own codec.        *)

NextPacket(p) ==
  codecIn[p] = None /\ \A q \in Packets : q < p => codecIn[q] # None

Receive(p, c) ==
  /\ NextPacket(p)
  /\ c # "none"
  /\ codecIn' = [codecIn EXCEPT ![p] = c]
  /\ isSet' = [isSet EXCEPT ![p] = {Source(c)}]
  /\ queue' = [queue EXCEPT ![Source(c)] = Append(@, p)]
  /\ UNCHANGED <<notSent, audio, waiting, chip, threadVars, sendVars>>

(* An unknown codec: the packet is printed and forgotten. *)
Dump(p) ==
  /\ NextPacket(p)
  /\ "none" \in CodecsIn
  /\ codecIn' = [codecIn EXCEPT ![p] = "none"]
  /\ UNCHANGED <<isSet, notSent, audio, stationVars, threadVars, sendVars>>

-----------------------------------------------------------------------------
(* A thread takes a packet.                                                *)

Begin(t, p, handler) ==
  /\ script[t] = <<>>
  /\ script' = [script EXCEPT ![t] = handler]
  /\ current' = [current EXCEPT ![t] = p]

(* The top of a worker thread's loop. *)
MutantPop(t) ==   \* a stack instead of a queue
  /\ t \in Workers
  /\ queue[t] # <<>>
  /\ LET p == queue[t][Len(queue[t])] IN Begin(t, p, Handler(t, codecIn[p]))
  /\ queue' = [queue EXCEPT ![t] = SubSeq(@, 1, Len(@) - 1)]
  /\ UNCHANGED <<packetVars, waiting, chip, sendVars>>
Pop(t) ==
  /\ t \in Workers
  /\ queue[t] # <<>>
  /\ LET p == Head(queue[t]) IN Begin(t, p, Handler(t, codecIn[p]))
  /\ queue' = [queue EXCEPT ![t] = Tail(@)]
  /\ UNCHANGED <<packetVars, waiting, chip, sendVars>>

(* FeedDevice: a packet whose own data is already there is to be decoded,  *)
(* any other to be encoded from its audio.                                 *)
Request(d, p) == IF d \in isSet[p] THEN "decode" ELSE "encode"

FeedDevice(d) ==
  /\ d \in Devices
  /\ queue[d] # <<>>
  /\ LET p == Head(queue[d]) IN
       /\ waiting' = [waiting EXCEPT ![d] = Append(@, p)]
       /\ chip' = [chip EXCEPT ![d] = Append(@, Request(d, p))]
  /\ queue' = [queue EXCEPT ![d] = Tail(@)]
  /\ UNCHANGED <<packetVars, threadVars, sendVars>>

(* ReadDevice and the start of ProcessPacket: the next answer of the chip  *)
(* is taken to be for the packet that has waited longest.                  *)
ReadDevice(d) ==
  /\ d \in Devices
  /\ chip[d] # <<>>
  /\ LET p == Head(waiting[d]) IN
       \E rewrite \in BOOLEAN :
         Begin(d, p, Response(d, codecIn[p], Head(chip[d]), rewrite))
  /\ waiting' = [waiting EXCEPT ![d] = Tail(@)]
  /\ chip' = [chip EXCEPT ![d] = Tail(@)]
  /\ UNCHANGED <<packetVars, queue, sendVars>>

-----------------------------------------------------------------------------
(* A thread does the next step of its handler.                             *)

AtStep(t, op) == script[t] # <<>> /\ Head(script[t]).op = op
Arg(t) == Head(script[t]).arg

Advance(t) ==
  /\ script' = [script EXCEPT ![t] = Tail(@)]
  /\ current' = [current EXCEPT ![t] = IF Len(script[t]) = 1 THEN None ELSE @]

SetAudioSamples(t) ==
  /\ AtStep(t, "hear")
  /\ audio' = [audio EXCEPT ![current[t]] = Arg(t)]
  /\ Advance(t)
  /\ UNCHANGED <<codecIn, isSet, notSent, stationVars, sendVars>>

SetData(t) ==
  /\ AtStep(t, "set")
  /\ isSet' = [isSet EXCEPT ![current[t]] = @ \cup {Arg(t)}]
  /\ Advance(t)
  /\ UNCHANGED <<codecIn, notSent, audio, stationVars, sendVars>>

HandOver(t) ==
  /\ AtStep(t, "push")
  /\ queue' = [queue EXCEPT ![Arg(t)] = Append(@, current[t])]
  /\ Advance(t)
  /\ UNCHANGED <<packetVars, waiting, chip, sendVars>>

(* "we might be all done...": under send_mux, send a complete packet that  *)
(* has not been sent.  send_mux is held until the send is over.            *)
ToBeSent(p) == AllCodecsAreSet(p) /\ notSent[p]

CheckDone(t) ==
  /\ AtStep(t, "check")
  /\ sendMux = None
  /\ ~ ToBeSent(current[t])
  /\ Advance(t)
  /\ UNCHANGED <<packetVars, stationVars, sendVars>>

MutantStartSend(t) ==   \* does not take send_mux
  /\ AtStep(t, "check")
  /\ ToBeSent(current[t])
  /\ sendMux' = t
  /\ script' = [script EXCEPT ![t] = <<Send>>]
  /\ attempt' = [attempt EXCEPT ![t] = 0]
  /\ UNCHANGED <<packetVars, stationVars, current, delivered, dropped>>
StartSend(t) ==
  /\ AtStep(t, "check")
  /\ sendMux = None
  /\ ToBeSent(current[t])
  /\ sendMux' = t
  /\ script' = [script EXCEPT ![t] = <<Send>>]
  /\ attempt' = [attempt EXCEPT ![t] = 0]
  /\ UNCHANGED <<packetVars, stationVars, current, delivered, dropped>>

(* SendToReflector: Sent() is recorded both on success and on giving up.   *)
EndSend(t) ==
  /\ notSent' = [notSent EXCEPT ![current[t]] = FALSE]
  /\ sendMux' = None
  /\ Advance(t)
  /\ UNCHANGED <<codecIn, isSet, audio, stationVars, attempt>>

SendSucceeds(t) ==
  /\ AtStep(t, "send")
  /\ delivered' = Append(delivered, current[t])
  /\ EndSend(t)
  /\ UNCHANGED dropped

MutantSendFails(t) ==   \* one attempt too many
  /\ AtStep(t, "send")
  /\ attempt[t] < MaxRetries
  /\ attempt' = [attempt EXCEPT ![t] = @ + 1]
  /\ UNCHANGED <<packetVars, stationVars, threadVars, sendMux, delivered, dropped>>
SendFails(t) ==
  /\ AtStep(t, "send")
  /\ attempt[t] + 1 < MaxRetries
  /\ attempt' = [attempt EXCEPT ![t] = @ + 1]
  /\ UNCHANGED <<packetVars, stationVars, threadVars, sendMux, delivered, dropped>>

MutantGiveUp(t) ==   \* gives up without Sent()
  /\ AtStep(t, "send")
  /\ attempt[t] + 1 = MaxRetries
  /\ sendMux' = None
  /\ Advance(t)
  /\ UNCHANGED <<packetVars, stationVars, attempt, delivered, dropped>>
GiveUp(t) ==
  /\ AtStep(t, "send")
  /\ attempt[t] + 1 = MaxRetries
  /\ dropped' = dropped \cup {current[t]}
  /\ EndSend(t)
  /\ UNCHANGED delivered

-----------------------------------------------------------------------------
SendStep(t) == SendSucceeds(t) \/ SendFails(t) \/ GiveUp(t)

(* The worker thread of t, or the read thread of device t. *)
ThreadStep(t) ==
  \/ Pop(t) \/ ReadDevice(t)
  \/ SetAudioSamples(t) \/ SetData(t) \/ HandOver(t)
  \/ CheckDone(t) \/ StartSend(t) \/ SendStep(t)

ReflectorStep ==
  \E p \in Packets : Dump(p) \/ \E c \in CodecsIn : Receive(p, c)

Next ==
  \/ ReflectorStep
  \/ \E t \in Codecs : FeedDevice(t) \/ ThreadStep(t)

(* Threads and chips go on; the reflector need not send anything.          *)
Fairness ==
  \A t \in Codecs : WF_vars(ThreadStep(t)) /\ WF_vars(FeedDevice(t))

Spec == Init /\ [][Next]_vars
FairSpec == Spec /\ Fairness

-----------------------------------------------------------------------------
(* Properties.                                                             *)

TypeOK ==
  /\ codecIn \in [Packets -> ECodecType \cup {None}]
  /\ isSet \in [Packets -> SUBSET Codecs]
  /\ notSent \in [Packets -> BOOLEAN]
  /\ audio \in [Packets -> {"unset", "raw", "levelled"}]
  /\ queue \in [Codecs -> Seq(Packets)]
  /\ waiting \in [Devices -> Seq(Packets)]
  /\ chip \in [Devices -> Seq({"decode", "encode"})]
  /\ script \in [Codecs -> Seq(Steps)]
  /\ current \in [Codecs -> Packets \cup {None}]
  /\ sendMux \in Codecs \cup {None}
  /\ attempt \in [Codecs -> 0..(MaxRetries - 1)]
  /\ delivered \in Seq(Packets)
  /\ dropped \in SUBSET Packets

Delivered == {delivered[i] : i \in DOMAIN delivered}

(* Every packet leaves at most once, and only complete: several threads    *)
(* may find it complete at the same moment, each on its own "we might be   *)
(* all done", and only send_mux and not_sent keep the others from sending  *)
(* it again, also while a failed send sleeps before its next attempt.      *)
SentOnce ==
  /\ \A i, j \in DOMAIN delivered : delivered[i] = delivered[j] => i = j
  /\ Delivered \cap dropped = {}
  /\ \A p \in Delivered : AllCodecsAreSet(p)

(* Why: a thread inside SendToReflector holds send_mux all along, and the  *)
(* packet it is sending is complete and still unsent, so the others look   *)
(* only when it is through; a packet that left is never unsent again.      *)
SendInv ==
  /\ \A t \in Codecs :
       /\ \A i \in DOMAIN script[t] : script[t][i].op = "send" => sendMux = t
       /\ sendMux = t => script[t] = <<Send>> /\ ToBeSent(current[t])
  /\ \A p \in Packets : notSent[p] => p \notin Delivered \cup dropped

(* What the pipeline holds has arrived, and what has not arrived is blank; *)
(* a device has as many packets waiting as its chip has requests, so that  *)
(* every answer finds a packet.                                            *)
Arrived == {p \in Packets : codecIn[p] # None}

FlowInv ==
  /\ \A p \in Packets : codecIn[p] = None => isSet[p] = {}
  /\ queue \in [Codecs -> Seq(Arrived)]
  /\ waiting \in [Devices -> Seq(Arrived)]
  /\ \A t \in Codecs : script[t] # <<>> => current[t] \in Arrived
  /\ \A d \in Devices : Len(waiting[d]) = Len(chip[d])

(* Packets that came in with the same codec leave in the order they came:  *)
(* a packet completes only when all five threads are through with it, and  *)
(* none of them takes the next one before its check of this one.           *)
DeliveredInOrder ==
  \A i, j \in DOMAIN delivered :
    /\ i < j
    /\ codecIn[delivered[i]] = codecIn[delivered[j]]
    => delivered[i] < delivered[j]

(* No codec of a packet is produced twice: at the moment a thread or chip  *)
(* writes a codec's data, that codec has none yet.  Only the data it came  *)
(* with may be rewritten, and only before any other codec has been         *)
(* produced.  So nothing is written into a packet that another thread has  *)
(* found complete and is sending.                                          *)
EncodedOnce ==
  \A t \in Codecs :
    AtStep(t, "set") =>
      \/ Arg(t) \notin isSet[current[t]]
      \/ isSet[current[t]] = {Arg(t)}

(* Whoever is given a packet to encode finds its audio decoded and         *)
(* levelled by the AGC: the samples of a new packet are not initialised,   *)
(* and those of a device decode are not levelled before the route handler. *)
LevelledBeforeEncode ==
  \A c \in Codecs :
    \A i \in DOMAIN queue[c] :
      c # Source(codecIn[queue[c][i]]) => audio[queue[c][i]] = "levelled"

(* When no thread, queue or chip has anything left to do, every packet     *)
(* whose codec_in is not M17 has left: nobody's flag came after the last   *)
(* look at the flags.  (For M17 this fails: see EveryM17PacketLeaves.)     *)
Quiet ==
  /\ \A t \in Codecs : script[t] = <<>> /\ queue[t] = <<>>
  /\ \A d \in Devices : chip[d] = <<>>

NothingStranded ==
  Quiet => \A p \in Packets :
             \/ codecIn[p] \in {None, "none"}
             \/ Source(codecIn[p]) = "m17"
             \/ ~ notSent[p]

(* Why: what TravelInv says of a packet's way.  A station is one line:     *)
(* first the packet its thread is at, then those in the chip, then those   *)
(* queued.  A packet is served at its source, which owes every other codec *)
(* a job: handing it on to that codec's station, or, for M17, setting the  *)
(* flag itself.                                                            *)
Going == {p \in Arrived : codecIn[p] # "none"}
Src(p) == Source(codecIn[p])
Others(p) == Codecs \ {Src(p)}

Line(c) == (IF script[c] = <<>> THEN <<>> ELSE <<current[c]>>)
             \o (IF c \in Devices THEN waiting[c] ELSE <<>>) \o queue[c]
At(c) == {Line(c)[i] : i \in DOMAIN Line(c)}
Does(t, p) == script[t] # <<>> /\ current[t] = p
Todo(t) == {script[t][i] : i \in DOMAIN script[t]}

Visits(s) == IF s = "m17" THEN Devices ELSE Codecs \ {s}
Job(s, c) == IF c \in Visits(s) THEN Push(c) ELSE Set(c)
Owed(p, c) ==
  p \in At(Src(p)) /\ (Does(Src(p), p) => Job(Src(p), c) \in Todo(Src(p)))

(* Every station is first come, first served, and its chip knows what to   *)
(* do with each packet.                                                    *)
LineInv ==
  /\ \A c \in Codecs : At(c) \subseteq Going
  /\ \A c \in Codecs : \A i, j \in DOMAIN Line(c) :
       i < j /\ Src(Line(c)[i]) = Src(Line(c)[j]) => Line(c)[i] < Line(c)[j]
  /\ \A d \in Devices : \A i \in DOMAIN chip[d] :
       chip[d][i] = IF Src(waiting[d][i]) = d THEN "decode" ELSE "encode"

(* What is left of a handler: at the source first the audio, then its own  *)
(* data, then the jobs; elsewhere the flag, the look, the send.            *)
Rank(s, step) ==
  CASE step = Hear("raw") -> 1
    [] step = Hear("levelled") -> 2
    [] step = Set(s) -> 3
    [] OTHER -> 4

Jobs(s) == {Job(s, c) : c \in Codecs \ {s}}

SourceScript(s, steps) ==
  /\ \A i \in DOMAIN steps :
       /\ steps[i] \in {Hear("raw"), Hear("levelled"), Set(s)} \cup Jobs(s)
       /\ Rank(s, steps[i]) < 4 =>
            \A job \in Jobs(s) : \E j \in DOMAIN steps : steps[j] = job
       /\ steps[i] = Hear("raw") =>
            \E j \in DOMAIN steps : steps[j] = Hear("levelled")
  /\ \A i, j \in DOMAIN steps :
       i < j => /\ Rank(s, steps[i]) <= Rank(s, steps[j])
                /\ steps[i] # steps[j]

ScriptInv ==
  \A t \in Codecs :
    script[t] # <<>> =>
      IF Src(current[t]) = t
        THEN SourceScript(t, script[t])
        ELSE script[t] \in {<<Set(t), Check>>, <<Check>>, <<Send>>}

(* For every codec but its own a packet is owed, at that codec's station,  *)
(* or done with, never two of them; while the thread there is at it, it is *)
(* the flag that tells whether it is to be set yet.                        *)
PlaceInv ==
  \A p \in Going :
    /\ Src(p) \in isSet[p]
    /\ \A c \in Others(p) :
         /\ Owed(p, c) => p \notin At(c) /\ c \notin isSet[p]
         /\ p \in At(c) =>
              /\ c \in Visits(Src(p))
              /\ c \in isSet[p] <=> Does(c, p) /\ Set(c) \notin Todo(c)
         /\ ~ Owed(p, c) /\ p \notin At(c) => c \in isSet[p]

(* Packets arrive in order, and one is at no station, nor on its way       *)
(* there, that a later one of the same source has been through.            *)
OrderInv ==
  /\ \A p, q \in Packets : q < p /\ p \in Arrived => q \in Arrived
  /\ \A p, q \in Going :
       p < q /\ Src(p) = Src(q) =>
         /\ p \in At(Src(p)) => q \in At(Src(q))
         /\ \A c \in Others(p) : p \in At(c) => q \in At(c) \/ Owed(q, c)

AudioInv ==
  \A p \in Going :
    /\ \A c \in Others(p) : p \in At(c) => audio[p] = "levelled"
    /\ Does(Src(p), p) /\ Hear("levelled") \notin Todo(Src(p))
         => audio[p] = "levelled"

(* Somebody is still to look at a packet that is complete and unsent,      *)
(* unless it came in as M17.                                               *)
LookInv ==
  \A p \in Going :
    ToBeSent(p) /\ Src(p) # "m17" =>
      \E t \in Codecs : Does(t, p) /\ script[t] \in {<<Check>>, <<Send>>}

TravelInv ==
  LineInv /\ ScriptInv /\ PlaceInv /\ OrderInv /\ AudioInv /\ LookInv

(* All of that of every packet: it leaves once, encoded once, from audio   *)
(* that is levelled, and does not stay behind.                             *)
PacketInv ==
  SentOnce /\ EncodedOnce /\ LevelledBeforeEncode /\ NothingStranded

(* An M17 packet leaves or is given up as well, as the comments of the     *)
(* encode functions have it ("this might complete the packet.  If so, send *)
(* it back to the reflector").  Codec2toAudio sets P25 and USRP without    *)
(* looking, so the two device threads may have looked too early, and       *)
(* nobody looks again.                                                     *)
EveryM17PacketLeaves ==
  \A p \in Packets : Source(codecIn[p]) = "m17" ~> ~ notSent[p]

(* The pipeline does what the service promises: with fair threads every    *)
(* packet that does not come in as M17 leaves or is given up, once, and    *)
(* those of one codec in the order they came.                              *)
Service == INSTANCE TranscodeService WITH
  Promised <- CodecsIn \ {"none", "c2_1600", "c2_3200"}, Absent <- None

ServiceSpec == Service!Spec
=============================================================================
