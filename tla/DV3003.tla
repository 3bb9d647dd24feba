------------------------------- MODULE DV3003 -------------------------------
(***************************************************************************)
(* A CDV3003 has three vocoder channels.  The controller asks for an       *)
(* encode or decode of a packet with AddPacketToChannel, which notes the   *)
(* channel in target_channel, or with AddPacket, which notes nothing;      *)
(* FeedDevice finds the channel with MapPacketToChannel.  target_channel   *)
(* has one entry per packet, the queue may hold the packet twice.          *)
(*                                                                         *)
(* hardware says in which set-up the device is:                            *)
(*   "mixed"      beside a DV3000: channel 0 is D-Star for the second      *)
(*                module, 1 and 2 are DMR for the first and second module  *)
(*   "onemodule"  beside a DV3000, with one module only: the channels are  *)
(*                as above, but no module is mapped to any, and the        *)
(*                controller is not in mixed mode                          *)
(*   "dstar"      the D-Star device of two DV3003s, or alone with md380    *)
(*   "dmrsf"      the DMR device of two DV3003s                            *)
(***************************************************************************)
EXTENDS Naturals, Sequences

CONSTANTS
  Packets,      \* the packets of one behaviour
  SetUps,       \* the set-ups, of these four
  CodecsIn,     \* the codec_in values that arrive
  Unmapped,     \* the channel 0xFF
  None

Modules == {"first", "second"}
Channels == 0..2
Encodings == {"dstar", "dmrsf"}
Codecs == {"dstar", "dmr", "p25", "m17", "usrp"}

ASSUME DV3003Assumption ==
  /\ SetUps \subseteq {"mixed", "onemodule", "dstar", "dmrsf"}
  /\ CodecsIn \subseteq Codecs
  /\ Unmapped \notin Nat /\ None \notin Nat /\ None # Unmapped
  /\ None \notin Packets \cup Modules \cup Encodings \cup Codecs

VARIABLES
  hardware,     \* the set-up of the device, which InitVocoders chose
  module,       \* every packet's module, None before it arrives
  codecIn,      \* every packet's codec_in
  isSet,        \* which of dstar_set and dmr_set are set
  decoded,      \* has it been decoded to audio?
  todo,         \* the requests the controller has still to make
  adding,       \* is it between target_channel and the queue?
  target,       \* target_channel: a channel, or None for no entry
  inputQueue,   \* input_queue
  feeding,      \* the packet FeedDevice has popped, or None
  waiting,      \* waiting_packet of every channel
  chip,         \* the requests in the chip, by channel
  asked,        \* history: the encodings asked of this device, by packet
  fed           \* history: the channels fed, by packet and in order

packetVars == <<hardware, module, codecIn>>
vars == <<packetVars, isSet, decoded, todo, adding, target, inputQueue, feeding,
          waiting, chip, asked, fed>>

(* InitVocoders: the encoding of the channels, the maps of the modules.    *)
ChannelEnc ==
  [ch \in Channels |->
     IF hardware \in Encodings THEN hardware
     ELSE IF ch = 0 THEN "dstar" ELSE "dmrsf"]

MixedMode == hardware = "mixed"

(* The encoding the controller has the device for, when not in mixed mode. *)
DeviceEnc == IF hardware = "onemodule" THEN "dmrsf" ELSE hardware

ModuleChannel(m, enc) ==   \* dstar_channel_map and dmr_channel_map
  CASE MixedMode /\ enc = "dmrsf" /\ m = "first" -> 1
    [] MixedMode /\ enc = "dmrsf" /\ m = "second" -> 2
    [] MixedMode /\ enc = "dstar" /\ m = "second" -> 0
    [] OTHER -> None

(* The encoding a codec_in is decoded from on a DVSI device. *)
SourceEnc(c) == IF c = "dstar" THEN "dstar"
                ELSE IF c = "dmr" THEN "dmrsf" ELSE None

(* What the controller asks of this device for one encoding of a packet:   *)
(* the channel it names, None when it names none; nothing at all when the  *)
(* request goes to the other device.                                       *)
Request(m, enc) ==
  IF MixedMode
    THEN IF enc = "dstar" THEN (IF m = "second" THEN <<0>> ELSE <<>>)
         ELSE IF m = "first" THEN <<1>> ELSE <<2>>
    ELSE IF enc = DeviceEnc THEN <<None>> ELSE <<>>

(* ReadReflectorThread or the X-toAudio function of the codec: the packet  *)
(* goes to the channel that decodes it, or to D-Star first and then DMR.   *)
FirstRequests(m, c) ==
  IF SourceEnc(c) # None THEN Request(m, SourceEnc(c))
                         ELSE Request(m, "dstar") \o Request(m, "dmrsf")

(* RouteDstPacket and RouteDmrPacket once their codec is decoded.          *)
RouteRequests(m, c) == Request(m, IF c = "dstar" THEN "dmrsf" ELSE "dstar")

Init ==
  /\ hardware \in SetUps
  /\ module = [p \in Packets |-> None]
  /\ codecIn = [p \in Packets |-> None]
  /\ isSet = [p \in Packets |-> {}]
  /\ decoded = [p \in Packets |-> FALSE]
  /\ todo = [p \in Packets |-> <<>>]
  /\ adding = [p \in Packets |-> FALSE]
  /\ target = [p \in Packets |-> None]
  /\ inputQueue = <<>>
  /\ feeding = None
  /\ waiting = [ch \in Channels |-> <<>>]
  /\ chip = [ch \in Channels |-> <<>>]
  /\ asked = [p \in Packets |-> {}]
  /\ fed = [p \in Packets |-> <<>>]

(* The encoding a request is for: of the channel it names, or of the device. *)
Wanted(ch) == IF ch = None THEN DeviceEnc ELSE ChannelEnc[ch]
-----------------------------------------------------------------------------
Arrive(p, m, c) ==
  /\ module[p] = None
  /\ hardware = "onemodule" => m = "first"
  /\ module' = [module EXCEPT ![p] = m]
  /\ UNCHANGED hardware
  /\ codecIn' = [codecIn EXCEPT ![p] = c]
  /\ isSet' = [isSet EXCEPT ![p] = {SourceEnc(c)} \ {None}]
  /\ decoded' = [decoded EXCEPT ![p] = SourceEnc(c) = None]
  /\ todo' = [todo EXCEPT ![p] = FirstRequests(m, c)]
  /\ UNCHANGED <<adding, target, inputQueue, feeding, waiting, chip, asked,
                 fed>>

(* The other device has encoded or decoded the packet.  After a decode the *)
(* route handler asks this device for the other encoding.                  *)
OtherDevice(p) ==
  /\ module[p] # None
  /\ \E enc \in Encodings :
       /\ Request(module[p], enc) = <<>>
       /\ IF enc = SourceEnc(codecIn[p])
            THEN /\ ~ decoded[p]
                 /\ decoded' = [decoded EXCEPT ![p] = TRUE]
                 /\ todo' = [todo EXCEPT ![p] =
                      RouteRequests(module[p], codecIn[p])]
                 /\ UNCHANGED isSet
            ELSE /\ decoded[p] /\ enc \notin isSet[p]
                 /\ enc = "dmrsf" => todo[p] = <<>>   \* D-Star is asked first
                 /\ isSet' = [isSet EXCEPT ![p] = @ \cup {enc}]
                 /\ UNCHANGED <<decoded, todo>>
  /\ UNCHANGED <<packetVars, adding, target, inputQueue, feeding, waiting,
                 chip, asked, fed>>

(* AddPacketToChannel: the target is noted under target_mutex ...          *)
SetTarget(p) ==
  /\ todo[p] # <<>> /\ ~ adding[p]
  /\ adding' = [adding EXCEPT ![p] = TRUE]
  /\ target' = [target EXCEPT ![p] = IF Head(todo[p]) = None THEN @
                                     ELSE Head(todo[p])]
  /\ UNCHANGED <<packetVars, isSet, decoded, todo, inputQueue, feeding,
                 waiting, chip, asked, fed>>

(* ... and the packet queued after the mutex is released.                  *)
AddPacket(p) ==
  /\ adding[p]
  /\ adding' = [adding EXCEPT ![p] = FALSE]
  /\ inputQueue' = Append(inputQueue, p)
  /\ asked' = [asked EXCEPT ![p] = @ \cup {Wanted(Head(todo[p]))}]
  /\ todo' = [todo EXCEPT ![p] = Tail(@)]
  /\ UNCHANGED <<packetVars, isSet, decoded, target, feeding, waiting,
                 chip, fed>>

-----------------------------------------------------------------------------
(* FeedDevice.                                                             *)

FeedPop ==
  /\ feeding = None
  /\ inputQueue # <<>>
  /\ feeding' = Head(inputQueue)
  /\ inputQueue' = Tail(inputQueue)
  /\ UNCHANGED <<packetVars, isSet, decoded, todo, adding, target, waiting,
                 chip, asked, fed>>

FirstChannel(enc) ==
  LET of == {ch \in Channels : ChannelEnc[ch] = enc}
  IN IF of = {} THEN Unmapped ELSE CHOOSE ch \in of : \A o \in of : ch <= o

(* The noted target, or else the channel of the codec that is not yet set. *)
MutantMapPacketToChannel(p) ==   \* the channel of the codec that is set
  LET enc == IF "dstar" \in isSet[p] THEN "dstar" ELSE "dmrsf"
      own == ModuleChannel(module[p], enc)
  IN IF target[p] # None THEN target[p]
     ELSE IF own # None THEN own ELSE FirstChannel(enc)
MapPacketToChannel(p) ==
  LET enc == IF "dstar" \in isSet[p] THEN "dmrsf" ELSE "dstar"
      own == ModuleChannel(module[p], enc)
  IN IF target[p] # None THEN target[p]
     ELSE IF own # None THEN own ELSE FirstChannel(enc)

(* A packet without a channel is reported and gone.                        *)
MutantFeedChannel ==   \* the noted target is not erased
  /\ feeding # None
  /\ LET p == feeding
         ch == MapPacketToChannel(p)
     IN /\ fed' = [fed EXCEPT ![p] = Append(@, ch)]
        /\ IF ch = Unmapped
             THEN UNCHANGED <<waiting, chip>>
             ELSE /\ waiting' = [waiting EXCEPT ![ch] = Append(@, p)]
                  /\ chip' = [chip EXCEPT ![ch] =
                       Append(@, IF ChannelEnc[ch] \in isSet[p]
                                   THEN "decode" ELSE "encode")]
  /\ feeding' = None
  /\ UNCHANGED <<packetVars, isSet, decoded, todo, adding, target, inputQueue,
                 asked>>
FeedChannel ==
  /\ feeding # None
  /\ LET p == feeding
         ch == MapPacketToChannel(p)
     IN /\ target' = [target EXCEPT ![p] = None]
        /\ fed' = [fed EXCEPT ![p] = Append(@, ch)]
        /\ IF ch = Unmapped
             THEN UNCHANGED <<waiting, chip>>
             ELSE /\ waiting' = [waiting EXCEPT ![ch] = Append(@, p)]
                  /\ chip' = [chip EXCEPT ![ch] =
                       Append(@, IF ChannelEnc[ch] \in isSet[p]
                                   THEN "decode" ELSE "encode")]
  /\ feeding' = None
  /\ UNCHANGED <<packetVars, isSet, decoded, todo, adding, inputQueue, asked>>

(* ReadDevice and ProcessPacket: the next answer of a channel goes to the  *)
(* packet that has waited longest on it, and on by the channel's encoding. *)
ProcessPacket(ch) ==
  /\ chip[ch] # <<>>
  /\ LET p == Head(waiting[ch]) IN
       /\ isSet' = IF Head(chip[ch]) = "decode" THEN isSet
                   ELSE [isSet EXCEPT ![p] = @ \cup {ChannelEnc[ch]}]
       /\ IF ChannelEnc[ch] = SourceEnc(codecIn[p])
            THEN /\ decoded' = [decoded EXCEPT ![p] = TRUE]
                 /\ todo' = [todo EXCEPT ![p] =
                      @ \o RouteRequests(module[p], codecIn[p])]
            ELSE UNCHANGED <<decoded, todo>>
  /\ waiting' = [waiting EXCEPT ![ch] = Tail(@)]
  /\ chip' = [chip EXCEPT ![ch] = Tail(@)]
  /\ UNCHANGED <<packetVars, adding, target, inputQueue, feeding, asked, fed>>

-----------------------------------------------------------------------------
Next ==
  \/ \E p \in Packets :
       \/ \E m \in Modules, c \in CodecsIn : Arrive(p, m, c)
       \/ OtherDevice(p) \/ SetTarget(p) \/ AddPacket(p)
  \/ FeedPop \/ FeedChannel
  \/ \E ch \in Channels : ProcessPacket(ch)

Spec == Init /\ [][Next]_vars

-----------------------------------------------------------------------------
(* Properties.                                                             *)

FedTo(p) == {fed[p][i] : i \in DOMAIN fed[p]}

(* A packet is never fed twice to a channel, nor to one of another module: *)
(* though the second request for a packet overwrites the noted target of   *)
(* the first while that is still queued, the fallback gives the first      *)
(* request's channel to the second.                                        *)
FedOncePerChannel ==
  \A p \in Packets :
    /\ \A i, j \in DOMAIN fed[p] : fed[p][i] = fed[p][j] => i = j
    /\ MixedMode => \A ch \in FedTo(p) :
                      Request(module[p], ChannelEnc[ch]) = <<ch>>

(* Nothing is under way. *)
Quiet ==
  /\ inputQueue = <<>> /\ feeding = None
  /\ \A p \in Packets : todo[p] = <<>>
  /\ \A ch \in Channels : chip[ch] = <<>>

EncodingsFed(p) == {ChannelEnc[ch] : ch \in FedTo(p) \cap Channels}

(* Every encoding asked of the device for the packet has been served by a  *)
(* channel of that encoding, and no request was lost.                      *)
Served(p) == Unmapped \notin FedTo(p) /\ EncodingsFed(p) = asked[p]

(* Once nothing is under way, no noted target is left over for whatever    *)
(* packet next has its address; and with two modules in mixed mode, every  *)
(* packet has been served.                                                 *)
ServedInMixedMode ==
  Quiet => \A p \in Packets : target[p] = None /\ (MixedMode => Served(p))

(* "If DStarIsSet: route to D-Star channel for decode; if DMRIsSet but not *)
(* DStarIsSet: route to DMR channel for decode", in every set-up.  Not so: *)
(* a device of one encoding takes a packet it is to decode for one to be   *)
(* encoded to the other and finds no channel, and with one module a DMR    *)
(* packet goes to the D-Star channel, where it is encoded.                 *)
ServedAsAsked == Quiet => \A p \in Packets : Served(p)

(* How far that goes: in mixed mode none is lost; a D-Star device loses    *)
(* what comes in as D-Star, all of it and nothing else; a DMR device all   *)
(* that comes in as DMR, none that comes in as D-Star, and of the others   *)
(* those fed before the other device has encoded them; and with one module *)
(* no DMR packet is ever decoded.                                          *)
WhoIsLost ==
  \A p \in Packets :
    LET lost == Unmapped \in FedTo(p)
    IN /\ MixedMode => ~ lost
       /\ hardware = "dstar" /\ fed[p] # <<>> => (lost <=> codecIn[p] = "dstar")
       /\ hardware = "dmrsf" /\ fed[p] # <<>> =>
            /\ codecIn[p] = "dmr" => lost
            /\ codecIn[p] = "dstar" => ~ lost
       /\ hardware = "onemodule" =>
            ~ lost /\ (codecIn[p] = "dmr" => ~ decoded[p] /\ FedTo(p) \subseteq {0})
=============================================================================
