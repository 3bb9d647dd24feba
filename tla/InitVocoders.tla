---------------------------- MODULE InitVocoders ----------------------------
(***************************************************************************)
(* CController::InitVocoders, the part of the start that may fail: the     *)
(* FTDI devices are listed and chosen from, each is classified by its      *)
(* description, and the devices of the set-up are opened, reset and        *)
(* configured one after the other, before any thread is started:           *)
(*   "mixed"   a DV3000 for D-Star and a DV3003 for the rest               *)
(*   "pair"    two devices of the type of the first, one per encoding      *)
(*   "single"  one device for D-Star, with md380 for DMR                   *)
(* A call to the driver, or an answer of a chip, may fail at every point.  *)
(* Devices are numbered in the order the driver lists them, so that a list *)
(* of them is a set of numbers.                                            *)
(***************************************************************************)
EXTENDS Naturals, Sequences, SequencesExt

CONSTANTS
  MaxDevices,   \* bound: FTDI devices plugged in
  MaxModules,   \* bound: letters of TCMods
  MaxFailed,    \* bound: calls to the driver that fail
  MaxLost,      \* bound: answers that are lost
  None

Roles == {"dstar", "dmrsf"}      \* dstar_device and dmrsf_device, and encodings
Channels == 0..2
SetUps == {"mixed", "pair", "single"}

ASSUME InitVocodersAssumption ==
  /\ MaxDevices \in Nat /\ MaxModules \in Nat \ {0}
  /\ MaxFailed \in Nat /\ MaxLost \in Nat
  /\ None \notin Nat \cup Roles \cup SetUps

(* What a description tells: a name of a DV3000, another name of the known *)
(* ones, a name that is not known.  Only the first is taken for a DV3000.  *)
Descriptions == {"dv3000", "dv3003", "other"}
Edvtype(desc) == IF desc = "dv3000" THEN "dv3000" ELSE "dv3003"
IsAmbeDevice(desc) == desc # "other"

VARIABLES
  hasMd380,     \* is tcd built with md380?
  plugged,      \* the description of every device plugged in
  listed,       \* the devices the DeviceSerial lines name; {} without any lines
  modules,      \* how many letters TCMods has
  bound,        \* the devices ftdi_sio is bound to
  phase,        \* how far InitVocoders is
  deviceset,    \* the devices found
  setup,        \* "mixed", "pair", "single", or None
  device,       \* dstar_device and dmrsf_device: where, and the channels' encodings
  opening,      \* the role whose device is being opened, or None
  made,         \* how many of its calls and requests OpenDevice has made
  asked,        \* has the request after them been written?
  chip,         \* what every channel of every chip is configured for
  rx,           \* the answers of every chip that are not yet read
  moduleMap,    \* the channel of every module and encoding on the DV3003
  stats,        \* g_Stats.devices: the serial numbers
  statsIndex,   \* m_statsIndex of the devices
  failed, lost, \* how many of each fault there have been
  ignored       \* history: devices whose start went on after a failed call

plugVars == <<hasMd380, plugged, listed, modules>>
openVars == <<opening, made, asked>>
chipVars == <<chip, rx>>
faultVars == <<failed, lost, ignored>>
vars == <<plugVars, bound, phase, deviceset, setup, device, openVars,
          chipVars, moduleMap, stats, statsIndex, faultVars>>

(* What OpenDevice does: calls of the driver, and requests to the chip.    *)
Call(f) == [op |-> "call", arg |-> f, ch |-> None]
Ask(request, ch) == [op |-> "ask", arg |-> request, ch |-> ch]

Plugged == DOMAIN plugged

(* A serial number of no device that is plugged in: it matters only in a   *)
(* list of its own.                                                        *)
Elsewhere == 0
NoDevice == [at |-> None, type |-> None, enc |-> <<>>]
Blank == [enc |-> None, gain |-> None, compand |-> TRUE]

Init ==
  /\ hasMd380 \in BOOLEAN
  /\ plugged \in BoundedSeq(Descriptions, MaxDevices)
  /\ listed \in (SUBSET Plugged) \cup {{Elsewhere}}
  /\ modules \in 1..MaxModules
  /\ bound = Plugged
  /\ phase = "discover"
  /\ deviceset = {}
  /\ setup = None
  /\ device = [r \in Roles |-> NoDevice]
  /\ opening = None /\ made = 0 /\ asked = FALSE
  /\ chip = [d \in Plugged |-> [ch \in Channels |-> Blank]]
  /\ rx \in [Plugged -> {<<>>, <<Ask("old", None)>>}]
  /\ moduleMap = [r \in Roles |-> <<>>]
  /\ stats = <<>>
  /\ statsIndex = [r \in Roles |-> None]
  /\ failed = 0 /\ lost = 0 /\ ignored = {}

-----------------------------------------------------------------------------
(* UnbindAllFtdiSio and DiscoverFtdiDevices.                               *)

MutantChosen(d) == IsAmbeDevice(plugged[d])   \* the white list is not looked at
Chosen(d) == IF listed = {} THEN IsAmbeDevice(plugged[d]) ELSE d \in listed

Unbound == IF listed = {} THEN Plugged ELSE listed

Discover ==
  /\ phase = "discover"
  /\ bound' = bound \ Unbound
  /\ deviceset' = {d \in Plugged : Chosen(d)}
  /\ phase' = IF deviceset' = {} THEN "failed" ELSE "classify"
  /\ UNCHANGED <<plugVars, setup, device, openVars, chipVars, moduleMap, stats,
                 statsIndex, faultVars>>

(* The driver's list of devices cannot be made, or not be read. *)
DiscoverFails ==
  /\ phase = "discover"
  /\ failed < MaxFailed
  /\ failed' = failed + 1
  /\ bound' = bound \ Unbound
  /\ phase' = "failed"
  /\ UNCHANGED <<plugVars, deviceset, setup, device, openVars, chipVars,
                 moduleMap, stats, statsIndex, lost, ignored>>

(* dv3000_dev and dv3003_dev: the last device found of each type.          *)
OfType(type) == {d \in deviceset : Edvtype(plugged[d]) = type}
LastOf(type) == IF OfType(type) = {} THEN None ELSE Max(OfType(type))

(* The calls of OpenDevice, in their order: to the driver, for a DV3003 a  *)
(* flush, the four requests of InitDevice, and for every channel           *)
(* ConfigureVocoder, on a DV3003 with a request to switch companding off.  *)
OpenDevice(type) ==
  IF type = "dv3000"
    THEN <<Call("open"), Call("line"), Call("baud"), Call("usb"),
           Ask("reset", None), Ask("parity", None), Ask("prodid", None),
           Ask("version", None), Ask("config", 0)>>
    ELSE <<Call("open"), Call("line"), Call("baud"), Call("usb"), Call("flush"),
           Ask("reset", None), Ask("parity", None), Ask("prodid", None),
           Ask("version", None), Ask("config", 0), Ask("compand", 0),
           Ask("config", 1), Ask("compand", 1), Ask("config", 2), Ask("compand", 2)>>

(* A device for a role; in mixed mode channel 0 of the DV3003 is D-Star's. *)
ChannelEncoding(s, r, ch) ==
  IF s = "mixed" /\ r = "dmrsf" /\ ch = 0 THEN "dstar" ELSE r

Device(s, d, type, r) ==
  [at |-> d, type |-> type,
   enc |-> [ch \in IF type = "dv3000" THEN {0} ELSE Channels |->
              ChannelEncoding(s, r, ch)]]

First == Min(deviceset)
Rest == deviceset \ {First}

SetUp ==
  IF LastOf("dv3000") # None /\ LastOf("dv3003") # None THEN "mixed"
  ELSE IF Rest # {} THEN "pair"
  ELSE IF hasMd380 THEN "single" ELSE None

Second == Min(Rest)

(* The devices of a set-up; both of a pair are taken for the type of the   *)
(* first, which all the devices found then have.                           *)
DevicesOf(s) ==
  LET type == Edvtype(plugged[First])
  IN CASE s = "mixed" ->
            [dstar |-> Device(s, LastOf("dv3000"), "dv3000", "dstar"),
             dmrsf |-> Device(s, LastOf("dv3003"), "dv3003", "dmrsf")]
       [] s = "pair" ->
            [dstar |-> Device(s, First, type, "dstar"),
             dmrsf |-> Device(s, Second, type, "dmrsf")]
       [] s = "single" ->
            [dstar |-> Device(s, First, type, "dstar"), dmrsf |-> NoDevice]

(* The classification and the choice of the set-up. *)
MutantRefuse ==   \* waits for another device
  /\ phase = "classify"
  /\ SetUp = None
  /\ UNCHANGED vars
Refuse ==
  /\ phase = "classify"
  /\ SetUp = None
  /\ phase' = "failed"
  /\ UNCHANGED <<plugVars, bound, deviceset, setup, device, openVars, chipVars,
                 moduleMap, stats, statsIndex, faultVars>>

Classify ==
  /\ phase = "classify"
  /\ SetUp # None
  /\ setup' = SetUp
  /\ device' = DevicesOf(SetUp)
  /\ phase' = "open"
  /\ opening' = "dstar"
  /\ made' = 0
  /\ UNCHANGED <<plugVars, bound, deviceset, asked, chipVars, moduleMap, stats,
                 statsIndex, faultVars>>

-----------------------------------------------------------------------------
(* OpenDevice, InitDevice and ConfigureVocoder.                            *)

Opened == device[opening]
At == Opened.at
Calls == OpenDevice(Opened.type)
Step == Calls[made + 1]
NextIs(op) == phase = "open" /\ made < Len(Calls) /\ Step.op = op
Done == made' = made + 1 /\ asked' = FALSE

(* "return true" anywhere ends the start. *)
Fail ==
  /\ phase' = "failed"
  /\ opening' = None /\ made' = 0 /\ asked' = FALSE

(* Opening and flushing purge what the chip has still to say. *)
CallDriver ==
  /\ NextIs("call")
  /\ rx' = IF Step.arg \in {"open", "flush"} THEN [rx EXCEPT ![At] = <<>>] ELSE rx
  /\ Done
  /\ UNCHANGED <<plugVars, bound, phase, deviceset, setup, device, opening,
                 chip, moduleMap, stats, statsIndex, faultVars>>

(* A failed FT_SetBaudRate returns false, which means success, and leaves  *)
(* out the rest of OpenDevice; what a flush returns is not looked at.      *)
CallFails ==
  /\ NextIs("call")
  /\ failed < MaxFailed
  /\ failed' = failed + 1
  /\ CASE Step.arg = "baud" ->
            /\ made' = Len(Calls) /\ asked' = FALSE
            /\ ignored' = ignored \cup {At}
            /\ UNCHANGED <<phase, opening, rx>>
       [] Step.arg = "flush" ->
            Done /\ UNCHANGED <<phase, opening, rx, ignored>>
       [] OTHER -> Fail /\ UNCHANGED <<rx, ignored>>
  /\ UNCHANGED <<plugVars, bound, deviceset, setup, device, chip, moduleMap,
                 stats, statsIndex, lost>>

(* What a request does to the chip.  A reset switches companding on again. *)
MutantGain(r, ch) == r   \* the gains given for the device, on every channel
Gain(r, ch) == device[r].enc[ch]

After(request, ch) ==
  CASE request = "reset" -> [c \in Channels |-> Blank]
    [] request = "config" ->
         [chip[At] EXCEPT ![ch].enc = Opened.enc[ch], ![ch].gain = Gain(opening, ch)]
    [] request = "compand" -> [chip[At] EXCEPT ![ch].compand = FALSE]
    [] OTHER -> chip[At]

(* A request is written; the chip does it and answers, or the request or   *)
(* the answer is lost.                                                     *)
Write ==
  /\ NextIs("ask")
  /\ ~ asked
  /\ asked' = TRUE
  /\ \/ /\ chip' = [chip EXCEPT ![At] = After(Step.arg, Step.ch)]
        /\ rx' = [rx EXCEPT ![At] = Append(@, Step)]
        /\ UNCHANGED lost
     \/ /\ lost < MaxLost
        /\ lost' = lost + 1
        /\ chip' \in {chip, [chip EXCEPT ![At] = After(Step.arg, Step.ch)]}
        /\ UNCHANGED rx
  /\ UNCHANGED <<plugVars, bound, phase, deviceset, setup, device, opening,
                 made, moduleMap, stats, statsIndex, failed, ignored>>

(* What the write of PKT_COMPAND returns is not looked at. *)
WriteFails ==
  /\ NextIs("ask")
  /\ ~ asked
  /\ failed < MaxFailed
  /\ failed' = failed + 1
  /\ IF Step.arg = "compand"
       THEN /\ asked' = TRUE
            /\ ignored' = ignored \cup {At}
            /\ UNCHANGED <<phase, opening, made>>
       ELSE Fail /\ UNCHANGED ignored
  /\ UNCHANGED <<plugVars, bound, deviceset, setup, device, chipVars, moduleMap,
                 stats, statsIndex, lost>>

(* GetResponse and the check of the response.  FT_Read has no time-out: it *)
(* waits until there is an answer.  That to PKT_COMPAND is not checked.    *)
Expected == Step.arg = "compand" \/ Head(rx[At]) = Step

Read ==
  /\ NextIs("ask")
  /\ asked
  /\ rx[At] # <<>>
  /\ rx' = [rx EXCEPT ![At] = Tail(@)]
  /\ IF Expected THEN Done /\ UNCHANGED <<phase, opening>> ELSE Fail
  /\ UNCHANGED <<plugVars, bound, deviceset, setup, device, chip, moduleMap,
                 stats, statsIndex, faultVars>>

(* FT_Read fails.  After PKT_COMPAND that is no more than a warning, and   *)
(* the answer, if it comes, is left for whoever reads next.                *)
ReadFails ==
  /\ NextIs("ask")
  /\ asked
  /\ failed < MaxFailed
  /\ failed' = failed + 1
  /\ IF Step.arg = "compand"
       THEN Done /\ ignored' = ignored \cup {At} /\ UNCHANGED <<phase, opening>>
       ELSE Fail /\ UNCHANGED ignored
  /\ UNCHANGED <<plugVars, bound, deviceset, setup, device, chipVars, moduleMap,
                 stats, statsIndex, lost>>

Has(r) == device[r].at # None

(* OpenDevice returns false.  InitVocoders opens the second device, or, in *)
(* mixed mode with two modules or more, maps the first two to its channels. *)
OpenNext ==
  /\ phase = "open" /\ made = Len(Calls)
  /\ opening = "dstar" /\ Has("dmrsf")
  /\ opening' = "dmrsf"
  /\ made' = 0
  /\ UNCHANGED <<plugVars, bound, phase, deviceset, setup, device, asked,
                 chipVars, moduleMap, stats, statsIndex, faultVars>>

MutantMapping == [dstar |-> <<None, 0>>, dmrsf |-> <<0, 1>>]   \* from 0
Mapping == [dstar |-> <<None, 0>>, dmrsf |-> <<1, 2>>]

OpenedAll ==
  /\ phase = "open" /\ made = Len(Calls)
  /\ opening = "dmrsf" \/ ~ Has("dmrsf")
  /\ opening' = None
  /\ phase' = "md380"
  /\ moduleMap' = IF setup = "mixed" /\ modules >= 2 THEN Mapping ELSE moduleMap
  /\ UNCHANGED <<plugVars, bound, deviceset, setup, device, made, asked,
                 chipVars, stats, statsIndex, faultVars>>

-----------------------------------------------------------------------------
(* md380_init, which may fail, the start of the threads, the registration. *)

Md380Fails ==
  /\ phase = "md380"
  /\ hasMd380
  /\ failed < MaxFailed
  /\ failed' = failed + 1
  /\ phase' = "failed"
  /\ UNCHANGED <<plugVars, bound, deviceset, setup, device, openVars, chipVars,
                 moduleMap, stats, statsIndex, lost, ignored>>

MutantRegistered ==   \* the other way round
  IF OfType("dv3003") = {} THEN <<LastOf("dv3000")>>
  ELSE IF OfType("dv3000") = {} THEN <<LastOf("dv3003")>>
  ELSE <<LastOf("dv3003"), LastOf("dv3000")>>
Registered ==
  IF OfType("dv3003") = {} THEN <<LastOf("dv3000")>>
  ELSE IF OfType("dv3000") = {} THEN <<LastOf("dv3003")>>
  ELSE <<LastOf("dv3000"), LastOf("dv3003")>>

Register ==
  /\ phase = "md380"
  /\ phase' = "up"
  /\ stats' = Registered
  /\ statsIndex' = [dstar |-> 1, dmrsf |-> IF Len(stats') >= 2 THEN 2 ELSE None]
  /\ UNCHANGED <<plugVars, bound, deviceset, setup, device, openVars, chipVars,
                 moduleMap, faultVars>>

-----------------------------------------------------------------------------
Proceed ==
  \/ Discover \/ Refuse \/ Classify
  \/ CallDriver \/ Write \/ Read \/ OpenNext \/ OpenedAll
  \/ Register

Next ==
  \/ Proceed
  \/ DiscoverFails \/ CallFails \/ WriteFails \/ ReadFails \/ Md380Fails

Spec == Init /\ [][Next]_vars

(* The thread of main goes on unless it waits for an answer. *)
FairSpec == Spec /\ WF_vars(Proceed)

-----------------------------------------------------------------------------
(* Properties.                                                             *)

Used == {r \in Roles : Has(r)}

Configured(dev, c) ==
  \A ch \in DOMAIN dev.enc :
    c[ch] = [enc |-> dev.enc[ch], gain |-> dev.enc[ch],
             compand |-> dev.type = "dv3000"]

Ready(r) == rx[device[r].at] = <<>> /\ Configured(device[r], chip[device[r].at])

(* When the start reports success, every channel of the devices in use     *)
(* runs the codec FeedDevice takes it for, with the gains configured for   *)
(* that codec and, on a DV3003, without companding, and nothing is left    *)
(* unread, which the read thread would take for the answer to its first    *)
(* packet: whatever was left in the line from before, whichever answer was *)
(* lost and whichever call failed.  That leaves out the three calls whose  *)
(* failure is ignored: FT_SetBaudRate, and the write and the answer of     *)
(* PKT_COMPAND.                                                            *)
ReadyWhenUp ==
  phase = "up" => \A r \in Used : device[r].at \notin ignored => Ready(r)

(* Both encodings of every module have a place, and in mixed mode one of   *)
(* their own: no channel is shared by two modules or by both encodings,    *)
(* nor a device by both roles.                                             *)
EveryEncodingServed ==
  phase = "up" =>
    /\ \A e \in Roles :
         \/ e = "dmrsf" /\ setup = "single" /\ hasMd380
         \/ \E r \in Used : \E ch \in DOMAIN device[r].enc : device[r].enc[ch] = e
    /\ Used = Roles => device["dstar"].at # device["dmrsf"].at
    /\ \A e, f \in Roles :
         \A i \in DOMAIN moduleMap[e], j \in DOMAIN moduleMap[f] :
           moduleMap[e][i] # None =>
             /\ device["dmrsf"].enc[moduleMap[e][i]] = e
             /\ moduleMap[e][i] = moduleMap[f][j] => e = f /\ i = j

(* "Other FTDI devices (USB-serial adapters etc.) are left alone": with a  *)
(* white list no other device is unbound from its driver, opened or        *)
(* written to.  Without one only known names are opened, but everything is *)
(* unbound.                                                                *)
OthersLeftAlone ==
  \A d \in Plugged :
    /\ listed # {} /\ d \notin listed =>
         d \in bound /\ d \notin deviceset /\ chip[d] = [ch \in Channels |-> Blank]
    /\ listed = {} /\ ~ IsAmbeDevice(plugged[d]) =>
         \A r \in Used : device[r].at # d

(* The monitor shows every device under its own serial number: what a      *)
(* device counts under its index belongs to the entry of that device.      *)
(* (Not for a pair: only one of two devices of the same type is            *)
(* registered, the last found, and it is the first that counts there.)     *)
RegisteredAsUsed ==
  phase = "up" /\ setup # "pair" =>
    \A r \in Used : stats[statsIndex[r]] = device[r].at

(* Why: the set-up is what the devices found make it, and nothing is       *)
(* undone.  A device whose calls all succeeded so far has, of the requests *)
(* made, done all, and has answered no more than the one asked for.        *)
Requests == {"old", "reset", "parity", "prodid", "version", "config", "compand"}
Answers == [op : {"ask"}, arg : Requests, ch : Channels \cup {None}]

TypeOK ==
  /\ hasMd380 \in BOOLEAN
  /\ plugged \in BoundedSeq(Descriptions, MaxDevices)
  /\ listed \subseteq Plugged \cup {Elsewhere}
  /\ modules \in 1..MaxModules
  /\ phase \in {"discover", "classify", "open", "md380", "up", "failed"}
  /\ deviceset \subseteq Plugged
  /\ setup \in SetUps \cup {None}
  /\ opening \in Roles \cup {None}
  /\ asked \in BOOLEAN
  /\ chip \in [Plugged -> [Channels -> [enc : Roles \cup {None},
                                       gain : Roles \cup {None},
                                       compand : BOOLEAN]]]
  /\ rx \in [Plugged -> Seq(Answers)]
  /\ moduleMap \in {[r \in Roles |-> <<>>], Mapping}
  /\ failed \in 0..MaxFailed /\ lost \in 0..MaxLost
  /\ ignored \subseteq Plugged

FoundInv ==
  /\ phase = "discover" => bound = Plugged /\ deviceset = {}
  /\ phase # "discover" => bound = Plugged \ Unbound
  /\ phase # "discover" /\ deviceset # {} =>
       deviceset = {d \in Plugged : Chosen(d)}

SetUpInv ==
  /\ phase \notin {"discover", "failed"} => deviceset # {}
  /\ IF setup = None THEN device = [r \in Roles |-> NoDevice]
     ELSE deviceset # {} /\ setup = SetUp /\ device = DevicesOf(setup)
  /\ phase \in {"discover", "classify"} => setup = None
  /\ phase \in {"open", "md380", "up"} => setup # None
  /\ phase = "open" <=> opening # None
  /\ opening = "dmrsf" => Has("dmrsf")
  /\ moduleMap = Mapping => setup = "mixed"

(* Untouched are the devices that are none of the set-up's. *)
UntouchedInv ==
  \A d \in Plugged :
    (\A r \in Used : device[r].at # d) => chip[d] = [ch \in Channels |-> Blank]

(* Which of the calls are known to have taken effect: an answer shows that *)
(* its request has.                                                        *)
Answered(i) == i <= made \/ (i = made + 1 /\ asked /\ rx[At] # <<>>)
Effect(call, dev, c) ==
  CASE call.arg = "config" ->
         c[call.ch].enc = dev.enc[call.ch] /\ c[call.ch].gain = dev.enc[call.ch]
    [] call.arg = "compand" -> ~ c[call.ch].compand
    [] call.arg = "reset" -> dev.type = "dv3000" => \A ch \in Channels : c[ch].compand
    [] OTHER -> TRUE

EffectsInv ==
  /\ made > 0 => rx[At] = <<>> \/ (asked /\ rx[At] = <<Step>>)
  /\ \A i \in DOMAIN Calls : Answered(i) => Effect(Calls[i], Opened, chip[At])

OpeningInv ==
  /\ asked => phase = "open"
  /\ phase = "open" =>
       /\ made \in 0..Len(Calls)
       /\ asked => made < Len(Calls) /\ Step.op = "ask"
       /\ At \notin ignored => EffectsInv

ReadyInv ==
  \A r \in Used :
    /\ device[r].at \notin ignored
    /\ \/ phase \in {"md380", "up"}
       \/ phase = "open" /\ opening = "dmrsf" /\ r = "dstar"
    => Ready(r)

RegisterInv ==
  phase = "up" => stats = Registered
    /\ statsIndex = [dstar |-> 1, dmrsf |-> IF Len(stats) >= 2 THEN 2 ELSE None]

VocodersInv ==
  /\ TypeOK /\ FoundInv /\ SetUpInv /\ UntouchedInv
  /\ OpeningInv /\ ReadyInv /\ RegisterInv

(* The start waits for an answer of a chip, for which there is no time-    *)
(* out, only if one was lost, or the answer is that to a PKT_COMPAND that  *)
(* could not be written: no purge, no reading too many and no failure that *)
(* is ignored elsewhere takes away an answer that is still asked for.      *)
Waiting == NextIs("ask") /\ asked /\ rx[At] = <<>>
WaitsForTheLost == Waiting => lost > 0 \/ At \in ignored

(* The start ends, one way or the other, or waits so for ever.             *)
StartEnds ==
  <>(\/ phase \in {"up", "failed"}
     \/ Waiting /\ (lost > 0 \/ At \in ignored))
=============================================================================
