-------------------------- MODULE InitVocoders_proofs --------------------------
(***************************************************************************)
(* What is proved of the start: for any number of devices of any           *)
(* description, any white list, any number of failed calls and lost        *)
(* answers, the devices of a start that succeeds are set up as the threads *)
(* use them.  VocodersInv of InitVocoders is inductive.                    *)
(***************************************************************************)
EXTENDS InitVocoders, TLAPS, WellFoundedInduction

-----------------------------------------------------------------------------
(* The least and the greatest of a set of numbers are in it.               *)

LEMMA MinOf ==
  ASSUME NEW S, S \subseteq Nat, S # {}
  PROVE  Min(S) \in S
<1>1. \E x \in S : \A y \in S : ~ (<<y, x>> \in OpToRel(<, Nat))
  BY NatLessThanWellFounded, WFMin
<1>2. PICK x \in S : \A y \in S : ~ (<<y, x>> \in OpToRel(<, Nat))
  BY <1>1
<1>3. \A y \in S : x <= y
  <2>1. ASSUME NEW y \in S PROVE ~ (y < x)
    BY <1>2 DEF OpToRel
  <2> QED BY <2>1
<1> QED BY <1>3 DEF Min

LEMMA MaxOf ==
  ASSUME NEW n \in Nat, NEW S, S \subseteq 1..n, S # {}
  PROVE  Max(S) \in S
<1> DEFINE Down == {n - d : d \in S}
<1>1. Down \subseteq Nat /\ Down # {}
  <2>1. ASSUME NEW d \in S PROVE n - d \in Nat
    OBVIOUS
  <2>2. PICK d \in S : TRUE
    OBVIOUS
  <2>3. n - d \in Down
    OBVIOUS
  <2> QED BY <2>1, <2>3
<1>2. \E x \in Down : \A y \in Down : ~ (<<y, x>> \in OpToRel(<, Nat))
  BY <1>1, NatLessThanWellFounded, WFMin
<1>3. PICK x \in Down : \A y \in Down : ~ (<<y, x>> \in OpToRel(<, Nat))
  BY <1>2
<1>4. PICK d \in S : x = n - d
  BY <1>3
<1>5. \A e \in S : d >= e
  <2>1. ASSUME NEW e \in S PROVE ~ (n - e < n - d)
    <3>1. n - e \in Down /\ n - e \in Nat /\ n - d \in Nat
      OBVIOUS
    <3>2. ~ (<<n - e, n - d>> \in OpToRel(<, Nat))
      BY <3>1, <1>3, <1>4
    <3> QED BY <3>1, <3>2 DEF OpToRel
  <2> QED BY <2>1
<1> QED BY <1>5 DEF Max

-----------------------------------------------------------------------------
(* The calls of OpenDevice.                                                *)

Types == {"dv3000", "dv3003"}
EncodingsOf(type) == [IF type = "dv3000" THEN {0} ELSE Channels -> Roles]

LEMMA CallsLength ==
  ASSUME NEW type
  PROVE  /\ Len(OpenDevice(type)) = IF type = "dv3000" THEN 9 ELSE 15
         /\ DOMAIN OpenDevice(type) = 1..Len(OpenDevice(type))
<1>1. CASE type = "dv3000"
  BY <1>1 DEF OpenDevice
<1>2. CASE type # "dv3000"
  BY <1>2 DEF OpenDevice
<1> QED BY <1>1, <1>2

LEMMA CallsOrder ==
  ASSUME NEW type \in Types, NEW i \in DOMAIN OpenDevice(type),
         NEW c, c = OpenDevice(type)[i]
  PROVE  /\ c.op \in {"call", "ask"}
         /\ i = 1 => c.op = "call" /\ c.arg = "open"
         /\ c.op = "call" => c.arg \notin {"config", "compand", "reset"}
         /\ c.arg = "config" =>
              c.ch \in (IF type = "dv3000" THEN {0} ELSE Channels)
         /\ c.arg = "compand" => type = "dv3003" /\ c.ch \in Channels
         /\ c.arg \in {"config", "compand"} => i > 6 
         /\ c.arg = "reset" => i <= 6
         /\ c.op = "ask" => c \in Answers
<1>1. CASE type = "dv3000"
  <2>1. i \in 1..9
    BY <1>1, CallsLength
  <2>2. i \in {1, 2, 3, 4, 5, 6, 7, 8, 9}
    BY <2>1
  <2> QED BY <2>2, <1>1 DEF OpenDevice, Call, Ask, Channels, Answers, Requests
<1>2. CASE type = "dv3003"
  <2>1. i \in 1..15
    BY <1>2, CallsLength
  <2>2. i \in {1, 2, 3, 4, 5, 6, 7, 8, 9, 10, 11, 12, 13, 14, 15}
    BY <2>1
  <2> QED BY <2>2, <1>2 DEF OpenDevice, Call, Ask, Channels, Answers, Requests
<1> QED BY <1>1, <1>2 DEF Types

LEMMA CallsComplete ==
  ASSUME NEW type \in Types
  PROVE  /\ \E i \in DOMAIN OpenDevice(type) : OpenDevice(type)[i].arg = "reset"
         /\ \A ch \in IF type = "dv3000" THEN {0} ELSE Channels :
              \E i \in DOMAIN OpenDevice(type) : OpenDevice(type)[i] = Ask("config", ch)
         /\ type = "dv3003" => \A ch \in Channels :
              \E i \in DOMAIN OpenDevice(type) : OpenDevice(type)[i] = Ask("compand", ch)
<1>1. CASE type = "dv3000"
  <2>1. /\ DOMAIN OpenDevice(type) = 1..9
        /\ OpenDevice(type)[5] = Ask("reset", None)
        /\ OpenDevice(type)[9] = Ask("config", 0)
    BY <1>1, CallsLength DEF OpenDevice
  <2> QED BY <2>1, <1>1 DEF Ask
<1>2. CASE type = "dv3003"
  <2>1. /\ DOMAIN OpenDevice(type) = 1..15
        /\ OpenDevice(type)[6] = Ask("reset", None)
    BY <1>2, CallsLength DEF OpenDevice
  <2>2. /\ OpenDevice(type)[10] = Ask("config", 0)
        /\ OpenDevice(type)[12] = Ask("config", 1)
        /\ OpenDevice(type)[14] = Ask("config", 2)
    BY <1>2 DEF OpenDevice
  <2>3. /\ OpenDevice(type)[11] = Ask("compand", 0)
        /\ OpenDevice(type)[13] = Ask("compand", 1)
        /\ OpenDevice(type)[15] = Ask("compand", 2)
    BY <1>2 DEF OpenDevice
  <2>4. \A ch \in Channels :
          /\ \E i \in DOMAIN OpenDevice(type) : OpenDevice(type)[i] = Ask("config", ch)
          /\ \E i \in DOMAIN OpenDevice(type) : OpenDevice(type)[i] = Ask("compand", ch)
    <3> SUFFICES ASSUME NEW ch \in {0, 1, 2}
                 PROVE /\ \E i \in 1..15 : OpenDevice(type)[i] = Ask("config", ch)
                       /\ \E i \in 1..15 : OpenDevice(type)[i] = Ask("compand", ch)
      BY <2>1 DEF Channels
    <3> QED BY <2>2, <2>3
  <2>5. OpenDevice(type)[6].arg = "reset"
    BY <2>1 DEF Ask
  <2> QED BY <2>1, <2>4, <2>5, <1>2
<1> QED BY <1>1, <1>2 DEF Types

-----------------------------------------------------------------------------
(* The choice of the set-up.                                               *)

LEMMA SomeDevices ==
  ASSUME deviceset \subseteq Plugged, plugged \in BoundedSeq(Descriptions, MaxDevices)
  PROVE  /\ deviceset \subseteq Nat
         /\ deviceset # {} => First \in deviceset
         /\ Rest # {} => Second \in Rest
         /\ \A type \in Types :
              /\ OfType(type) # {} => LastOf(type) \in OfType(type)
              /\ LastOf(type) # None <=> OfType(type) # {}
<1>1. PICK n \in 0..MaxDevices : plugged \in [1..n -> Descriptions]
  BY InitVocodersAssumption DEF BoundedSeq, SeqOf
<1>2. deviceset \subseteq 1..n /\ n \in Nat
  BY <1>1, InitVocodersAssumption DEF Plugged
<1>3. deviceset \subseteq Nat
  BY <1>2
<1>4. deviceset # {} => First \in deviceset
  BY <1>3, MinOf DEF First
<1>5. Rest # {} => Second \in Rest
  BY <1>3, MinOf DEF Second, Rest
<1>6. ASSUME NEW type \in Types
      PROVE  /\ OfType(type) # {} => LastOf(type) \in OfType(type)
             /\ LastOf(type) # None <=> OfType(type) # {}
  <2>1. OfType(type) \subseteq 1..n /\ OfType(type) \subseteq Nat
    <3>1. OfType(type) \subseteq deviceset
      BY DEF OfType
    <3> QED BY <3>1, <1>2, <1>3
  <2>2. ASSUME OfType(type) # {} PROVE LastOf(type) \in OfType(type)
    <3>1. n \in Nat
      BY <1>2
    <3>2. Max(OfType(type)) \in OfType(type)
      BY <2>1, <2>2, <3>1, MaxOf
    <3> QED BY <2>2, <3>2 DEF LastOf
  <2>3. None \notin OfType(type)
    BY <2>1, InitVocodersAssumption
  <2> QED BY <2>2, <2>3 DEF LastOf
<1> QED BY <1>3, <1>4, <1>5, <1>6

(* What the devices of a set-up are like: they are of those found, one for *)
(* each role, with an encoding for every channel.                          *)
SoundDevice(r) ==
  /\ device[r].at \in deviceset /\ Has(r)
  /\ device[r].type \in Types
  /\ device[r].enc \in EncodingsOf(device[r].type)

LEMMA DeviceIsSound ==
  ASSUME NEW s \in SetUps, NEW d, NEW type \in Types, NEW r \in Roles
  PROVE  /\ Device(s, d, type, r).at = d
         /\ Device(s, d, type, r).type = type
         /\ Device(s, d, type, r).enc \in EncodingsOf(type)
BY DEF Device, EncodingsOf, ChannelEncoding, Roles, Channels

LEMMA DevicesSound ==
  ASSUME TypeOK, SetUpInv, setup # None
  PROVE  /\ SoundDevice("dstar")
         /\ Has("dmrsf") => SoundDevice("dmrsf")
         /\ ~ Has("dmrsf") => setup = "single" /\ device["dmrsf"] = NoDevice
         /\ Has("dmrsf") => device["dstar"].at # device["dmrsf"].at
<1>1. /\ deviceset # {} /\ setup = SetUp /\ device = DevicesOf(setup)
      /\ deviceset \subseteq Plugged
      /\ plugged \in BoundedSeq(Descriptions, MaxDevices)
  BY DEF TypeOK, SetUpInv
<1>2. /\ None \notin deviceset
      /\ First \in deviceset
      /\ Rest # {} => Second \in deviceset /\ Second # First
      /\ \A type \in Types :
           LastOf(type) # None => LastOf(type) \in OfType(type)
  BY <1>1, SomeDevices, InitVocodersAssumption DEF Rest
<1>3. Edvtype(plugged[First]) \in Types
  BY DEF Edvtype, Types
<1>4. CASE setup = "mixed"
  <2>1. LastOf("dv3000") # None /\ LastOf("dv3003") # None
    BY <1>1, <1>4 DEF SetUp
  <2>2. LastOf("dv3000") \in OfType("dv3000") /\ LastOf("dv3003") \in OfType("dv3003")
    BY <2>1, <1>2 DEF Types
  <2>3. /\ LastOf("dv3000") \in deviceset /\ LastOf("dv3003") \in deviceset
        /\ LastOf("dv3000") # LastOf("dv3003")
    BY <2>2 DEF OfType
  <2>4. /\ device["dstar"] = Device("mixed", LastOf("dv3000"), "dv3000", "dstar")
        /\ device["dmrsf"] = Device("mixed", LastOf("dv3003"), "dv3003", "dmrsf")
    BY <1>1, <1>4 DEF DevicesOf
  <2> QED BY <2>3, <2>4, <1>2, DeviceIsSound DEF SoundDevice, Has, Types, Roles, SetUps
<1>5. CASE setup = "pair"
  <2>1. Rest # {}
    BY <1>1, <1>5, InitVocodersAssumption DEF SetUp, SetUps
  <2>2. /\ device["dstar"] = Device("pair", First, Edvtype(plugged[First]), "dstar")
        /\ device["dmrsf"] = Device("pair", Second, Edvtype(plugged[First]), "dmrsf")
    BY <1>1, <1>5 DEF DevicesOf
  <2> QED BY <2>1, <2>2, <1>2, <1>3, DeviceIsSound DEF SoundDevice, Has, Types, Roles, SetUps
<1>6. CASE setup = "single"
  <2>1. /\ device["dstar"] = Device("single", First, Edvtype(plugged[First]), "dstar")
        /\ device["dmrsf"] = NoDevice
    BY <1>1, <1>6 DEF DevicesOf
  <2> QED BY <2>1, <1>2, <1>3, <1>6, DeviceIsSound DEF SoundDevice, Has, Types, Roles, SetUps, NoDevice
<1> QED BY <1>4, <1>5, <1>6 DEF TypeOK, SetUps

(* The set-up does not change once it is chosen.                           *)
SameSetUp == UNCHANGED <<plugVars, bound, deviceset, setup, device>>

LEMMA ChoiceKept ==
  ASSUME UNCHANGED <<plugVars, deviceset>>
  PROVE  /\ Plugged' = Plugged
         /\ Unbound' = Unbound
         /\ {d \in Plugged : Chosen(d)}' = {d \in Plugged : Chosen(d)}
         /\ First' = First /\ Rest' = Rest /\ Second' = Second
         /\ \A type \in Types : LastOf(type)' = LastOf(type)
         /\ plugged' = plugged
         /\ SetUp' = SetUp
         /\ Registered' = Registered
<1>1. Plugged' = Plugged /\ Unbound' = Unbound
  BY DEF plugVars, Plugged, Unbound
<1>2. {d \in Plugged : Chosen(d)}' = {d \in Plugged : Chosen(d)}
  BY DEF plugVars, Plugged, Chosen
<1>3. /\ First' = First /\ Rest' = Rest /\ Second' = Second
      /\ LastOf("dv3000")' = LastOf("dv3000")
      /\ LastOf("dv3003")' = LastOf("dv3003")
      /\ OfType("dv3000")' = OfType("dv3000")
      /\ OfType("dv3003")' = OfType("dv3003")
      /\ plugged' = plugged /\ hasMd380' = hasMd380
  BY DEF plugVars, First, Rest, Second, LastOf, OfType
<1>4. SetUp' = SetUp /\ Registered' = Registered
  BY <1>3 DEF SetUp, Registered
<1>5. \A type \in Types : LastOf(type)' = LastOf(type)
  BY DEF plugVars, LastOf, OfType
<1> QED BY <1>1, <1>2, <1>3, <1>4, <1>5

LEMMA SetUpKept ==
  ASSUME SameSetUp
  PROVE  /\ Plugged' = Plugged
         /\ Unbound' = Unbound
         /\ {d \in Plugged : Chosen(d)}' = {d \in Plugged : Chosen(d)}
         /\ SetUp' = SetUp
         /\ DevicesOf(setup)' = DevicesOf(setup)
         /\ Registered' = Registered
         /\ Used' = Used
         /\ \A r \in Roles : Has(r)' <=> Has(r)
<1>1. Used' = Used /\ \A r \in Roles : Has(r)' <=> Has(r)
  BY DEF SameSetUp, Used, Has
<1>2. UNCHANGED <<plugVars, deviceset>> /\ setup' = setup
  BY DEF SameSetUp
<1>3. /\ First' = First /\ Second' = Second /\ plugged' = plugged
      /\ LastOf("dv3000")' = LastOf("dv3000")
      /\ LastOf("dv3003")' = LastOf("dv3003")
  BY <1>2, ChoiceKept DEF Types
<1>4. DevicesOf(setup)' = DevicesOf(setup)
  BY <1>2, <1>3 DEF DevicesOf
<1> QED BY <1>1, <1>2, <1>4, ChoiceKept

LEMMA SetUpStays ==
  ASSUME VocodersInv, SameSetUp,
         phase \notin {"discover", "failed"}, phase' # "discover",
         phase' \in {"open", "md380", "up"} => setup # None,
         phase' \in {"discover", "classify"} => setup = None,
         phase' = "open" <=> opening' # None,
         opening' = "dmrsf" => Has("dmrsf"),
         moduleMap' = Mapping => setup = "mixed"
  PROVE  FoundInv' /\ SetUpInv'
<1>1. FoundInv /\ SetUpInv
  BY DEF VocodersInv
<1>2. FoundInv'
  BY <1>1, SetUpKept DEF FoundInv, SameSetUp
<1>3. SetUpInv'
  <2>1. Has("dmrsf")' <=> Has("dmrsf")
    BY SetUpKept DEF Roles
  <2>2. /\ deviceset' = deviceset /\ setup' = setup /\ device' = device
        /\ SetUp' = SetUp /\ DevicesOf(setup)' = DevicesOf(setup)
    BY SetUpKept DEF SameSetUp
  <2>3. (IF setup = None THEN device = [r \in Roles |-> NoDevice]
         ELSE deviceset # {} /\ setup = SetUp /\ device = DevicesOf(setup))'
    BY <1>1, <2>2 DEF SetUpInv
  <2>4. (phase \notin {"discover", "failed"} => deviceset # {})'
    BY <1>1, <2>2 DEF SetUpInv
  <2>5. (moduleMap = Mapping => setup = "mixed")'
    BY <2>2 DEF Mapping
  <2> QED BY <2>1, <2>2, <2>3, <2>4, <2>5 DEF SetUpInv
<1> QED BY <1>2, <1>3

LEMMA UntouchedStays ==
  ASSUME VocodersInv, SameSetUp, chip' = chip
  PROVE  UntouchedInv'
BY SetUpKept DEF VocodersInv, UntouchedInv, SameSetUp

-----------------------------------------------------------------------------
(* A device that is being opened.                                          *)

LEMMA Opening ==
  ASSUME VocodersInv, phase = "open"
  PROVE  /\ opening \in Roles /\ opening \in Used /\ setup # None
         /\ At \in Plugged /\ At \in deviceset
         /\ Opened.type \in Types
         /\ Opened.enc \in EncodingsOf(Opened.type)
         /\ Len(Calls) = IF Opened.type = "dv3000" THEN 9 ELSE 15
         /\ DOMAIN Calls = 1..Len(Calls)
         /\ made \in 0..Len(Calls)
         /\ asked => made < Len(Calls) /\ Step.op = "ask"
<1>1. TypeOK /\ SetUpInv /\ OpeningInv
  BY DEF VocodersInv
<1>2. setup # None /\ opening \in Roles
  BY <1>1 DEF SetUpInv, TypeOK
<1>3. SoundDevice(opening)
  BY <1>1, <1>2, DevicesSound DEF Roles, SetUpInv
<1>4. /\ At \in deviceset /\ deviceset \subseteq Plugged /\ Has(opening)
      /\ Opened.type \in Types /\ Opened.enc \in EncodingsOf(Opened.type)
  BY <1>3, <1>1 DEF SoundDevice, At, Opened, TypeOK
<1>5. /\ Len(Calls) = IF Opened.type = "dv3000" THEN 9 ELSE 15
      /\ DOMAIN Calls = 1..Len(Calls)
  BY <1>4, CallsLength DEF Calls
<1> QED BY <1>1, <1>2, <1>4, <1>5 DEF Used, OpeningInv

LEMMA NextCall ==
  ASSUME VocodersInv, phase = "open", made < Len(Calls)
  PROVE  /\ made + 1 \in DOMAIN Calls /\ made \in Nat
         /\ Step.op \in {"call", "ask"}
         /\ made = 0 => Step.op = "call" /\ Step.arg = "open"
         /\ Step.op = "call" => Step.arg \notin {"config", "compand", "reset"}
         /\ Step.arg = "config" =>
              Step.ch \in (IF Opened.type = "dv3000" THEN {0} ELSE Channels)
         /\ Step.arg = "compand" => Opened.type = "dv3003" /\ Step.ch \in Channels
         /\ Step.op = "ask" => Step \in Answers
         /\ Step.arg = "reset" => \A i \in DOMAIN Calls :
              i <= made => Calls[i].arg \notin {"config", "compand"}
<1>1. /\ made + 1 \in DOMAIN Calls /\ made \in Nat
      /\ Opened.type \in Types
  BY Opening
<1>2. /\ Step.op \in {"call", "ask"}
      /\ made = 0 => Step.op = "call" /\ Step.arg = "open"
      /\ Step.op = "call" => Step.arg \notin {"config", "compand", "reset"}
      /\ Step.arg = "config" =>
           Step.ch \in (IF Opened.type = "dv3000" THEN {0} ELSE Channels)
      /\ Step.arg = "compand" => Opened.type = "dv3003" /\ Step.ch \in Channels
      /\ Step.arg = "reset" => made + 1 <= 6
      /\ Step.op = "ask" => Step \in Answers
  BY <1>1, CallsOrder DEF Step, Calls
<1>3. ASSUME NEW i \in DOMAIN Calls, Calls[i].arg \in {"config", "compand"}
      PROVE  i > 6
  BY <1>1, <1>3, CallsOrder DEF Calls
<1> QED BY <1>1, <1>2, <1>3, Opening

(* What a request leaves in the chip: its own effect, and those before it. *)
LEMMA RequestKeeps ==
  ASSUME VocodersInv, NextIs("ask"),
         NEW i \in DOMAIN Calls, i <= made, Effect(Calls[i], Opened, chip[At])
  PROVE  Effect(Calls[i], Opened, After(Step.arg, Step.ch))
<1> DEFINE c == Calls[i]
<1>1. /\ phase = "open" /\ made < Len(Calls) /\ Opened.type \in Types
      /\ opening \in Roles /\ At \in Plugged
      /\ Opened.enc \in EncodingsOf(Opened.type)
  BY Opening DEF NextIs
<1>2. /\ c.arg = "config" => c.ch \in Channels
      /\ c.arg = "compand" => Opened.type = "dv3003" /\ c.ch \in Channels
  BY <1>1, CallsOrder DEF Calls, Channels
<1>3. chip[At] \in [Channels -> [enc : Roles \cup {None}, gain : Roles \cup {None},
                                compand : BOOLEAN]]
  BY <1>1 DEF VocodersInv, TypeOK
<1>4. CASE Step.arg = "reset"
  <2>1. After(Step.arg, Step.ch) = [ch \in Channels |-> Blank]
    BY <1>4 DEF After
  <2>2. c.arg \notin {"config", "compand"}
    BY <1>1, <1>4, NextCall
  <2> QED BY <2>1, <2>2 DEF Effect, Blank
<1>5. CASE Step.arg = "config"
  <2>1. Step.ch \in Channels
    BY <1>1, <1>5, NextCall DEF Channels
  <2>2. After(Step.arg, Step.ch) =
          [chip[At] EXCEPT ![Step.ch].enc = Opened.enc[Step.ch],
                           ![Step.ch].gain = Opened.enc[Step.ch]]
    BY <1>5 DEF After, Gain, Opened
  <2> QED BY <2>1, <2>2, <1>2, <1>3 DEF Effect
<1>6. CASE Step.arg = "compand"
  <2>1. Step.ch \in Channels /\ Opened.type # "dv3000"
    BY <1>1, <1>6, NextCall
  <2>2. After(Step.arg, Step.ch) = [chip[At] EXCEPT ![Step.ch].compand = FALSE]
    BY <1>6 DEF After
  <2> QED BY <2>1, <2>2, <1>2, <1>3 DEF Effect
<1>7. CASE Step.arg \notin {"reset", "config", "compand"}
  BY <1>7 DEF After
<1> QED BY <1>4, <1>5, <1>6, <1>7

LEMMA RequestTakesEffect ==
  ASSUME VocodersInv, NextIs("ask")
  PROVE  /\ Effect(Step, Opened, After(Step.arg, Step.ch))
         /\ After(Step.arg, Step.ch) \in
              [Channels -> [enc : Roles \cup {None}, gain : Roles \cup {None},
                            compand : BOOLEAN]]
<1>1. /\ phase = "open" /\ made < Len(Calls) /\ Opened.type \in Types
      /\ opening \in Roles /\ At \in Plugged
      /\ Opened.enc \in EncodingsOf(Opened.type)
  BY Opening DEF NextIs
<1>3. chip[At] \in [Channels -> [enc : Roles \cup {None}, gain : Roles \cup {None},
                                compand : BOOLEAN]]
  BY <1>1 DEF VocodersInv, TypeOK
<1>4. CASE Step.arg = "reset"
  <2>1. After(Step.arg, Step.ch) = [ch \in Channels |-> Blank]
    BY <1>4 DEF After
  <2> QED BY <2>1, <1>4 DEF Effect, Blank
<1>5. CASE Step.arg = "config"
  <2>1. Step.ch \in Channels /\ Opened.enc[Step.ch] \in Roles
    BY <1>1, <1>5, NextCall DEF Channels, EncodingsOf
  <2>2. After(Step.arg, Step.ch) =
          [chip[At] EXCEPT ![Step.ch].enc = Opened.enc[Step.ch],
                           ![Step.ch].gain = Opened.enc[Step.ch]]
    BY <1>5 DEF After, Gain, Opened
  <2> QED BY <2>1, <2>2, <1>5, <1>3 DEF Effect
<1>6. CASE Step.arg = "compand"
  <2>1. Step.ch \in Channels /\ Opened.type # "dv3000"
    BY <1>1, <1>6, NextCall
  <2>2. After(Step.arg, Step.ch) = [chip[At] EXCEPT ![Step.ch].compand = FALSE]
    BY <1>6 DEF After
  <2> DEFINE new == [chip[At] EXCEPT ![Step.ch].compand = FALSE]
  <2>3. new \in [Channels -> [enc : Roles \cup {None}, gain : Roles \cup {None},
                             compand : BOOLEAN]]
    BY <2>1, <1>3
  <2>4. new[Step.ch].compand = FALSE
    BY <2>1, <1>3
  <2>5. Effect(Step, Opened, new)
    <3> HIDE DEF new
    <3> QED BY <2>4, <1>6 DEF Effect
  <2> QED BY <2>2, <2>3, <2>5
<1>7. CASE Step.arg \notin {"reset", "config", "compand"}
  BY <1>3, <1>7 DEF After, Effect
<1> QED BY <1>4, <1>5, <1>6, <1>7

(* When all the calls have been made, the device is ready.                 *)
LEMMA ReadyAtEnd ==
  ASSUME VocodersInv, phase = "open", made = Len(Calls), At \notin ignored
  PROVE  Ready(opening)
<1>1. /\ Opened.type \in Types /\ ~ asked /\ made > 0
      /\ Opened.enc \in EncodingsOf(Opened.type)
      /\ At \in Plugged
  BY Opening DEF VocodersInv, TypeOK
<1>2. EffectsInv
  BY DEF VocodersInv, OpeningInv
<1>3. rx[At] = <<>>
  BY <1>1, <1>2 DEF EffectsInv
<1>4. \A i \in DOMAIN Calls : Effect(Calls[i], Opened, chip[At])
  BY <1>2, Opening DEF EffectsInv, Answered
<1>5. chip[At] \in [Channels -> [enc : Roles \cup {None}, gain : Roles \cup {None},
                                compand : BOOLEAN]]
  BY <1>1 DEF VocodersInv, TypeOK
<1>6. /\ \E i \in DOMAIN Calls : Calls[i].arg = "reset"
      /\ \A ch \in IF Opened.type = "dv3000" THEN {0} ELSE Channels :
              \E i \in DOMAIN Calls : Calls[i] = Ask("config", ch)
      /\ Opened.type = "dv3003" => \A ch \in Channels :
              \E i \in DOMAIN Calls : Calls[i] = Ask("compand", ch)
  BY <1>1, CallsComplete DEF Calls
<1>7. ASSUME NEW ch \in DOMAIN Opened.enc
      PROVE  chip[At][ch] = [enc |-> Opened.enc[ch], gain |-> Opened.enc[ch],
                             compand |-> Opened.type = "dv3000"]
  <2>1. ch \in Channels /\ ch \in IF Opened.type = "dv3000" THEN {0} ELSE Channels
    BY <1>1, <1>7 DEF EncodingsOf, Channels
  <2>2. chip[At][ch].enc = Opened.enc[ch] /\ chip[At][ch].gain = Opened.enc[ch]
    <3>1. PICK i \in DOMAIN Calls : Calls[i] = Ask("config", ch)
      BY <2>1, <1>6
    <3>2. Effect(Ask("config", ch), Opened, chip[At])
      BY <3>1, <1>4
    <3> QED BY <3>2 DEF Effect, Ask
  <2>3. chip[At][ch].compand = (Opened.type = "dv3000")
    <3>1. CASE Opened.type = "dv3000"
      <4>1. PICK i \in DOMAIN Calls : Calls[i].arg = "reset"
        BY <1>6
      <4>2. Effect(Calls[i], Opened, chip[At])
        BY <1>4
      <4>3. chip[At][ch].compand
        BY <4>1, <4>2, <3>1, <2>1 DEF Effect
      <4> QED BY <4>3, <3>1, <1>5, <2>1
    <3>2. CASE Opened.type = "dv3003"
      <4>1. PICK i \in DOMAIN Calls : Calls[i] = Ask("compand", ch)
        BY <1>6, <2>1, <3>2
      <4>2. Effect(Ask("compand", ch), Opened, chip[At])
        BY <4>1, <1>4
      <4>3. ~ chip[At][ch].compand
        BY <4>2 DEF Effect, Ask
      <4> QED BY <4>3, <3>2, <1>5, <2>1
    <3> QED BY <3>1, <3>2, <1>1 DEF Types
  <2> QED BY <2>1, <2>2, <2>3, <1>5
<1> QED BY <1>3, <1>7 DEF Ready, Configured, Opened, At

-----------------------------------------------------------------------------
(* The invariant, action by action.                                        *)

LEMMA StartsSound == Init => VocodersInv
<1> SUFFICES ASSUME Init PROVE VocodersInv
  OBVIOUS
<1> USE DEF Init
<1>1. TypeOK
  <2>0. listed \subseteq Plugged \cup {Elsewhere}
    OBVIOUS
  <2>1. chip \in [Plugged -> [Channels -> [enc : Roles \cup {None},
                                          gain : Roles \cup {None},
                                          compand : BOOLEAN]]]
    BY DEF Blank
  <2>2. rx \in [Plugged -> Seq(Answers)]
    <3>1. Ask("old", None) \in Answers
      BY DEF Ask, Answers, Requests
    <3>2. <<>> \in Seq(Answers) /\ <<Ask("old", None)>> \in Seq(Answers)
      BY <3>1
    <3> QED BY <3>2
  <2>3. hasMd380 \in BOOLEAN /\ asked \in BOOLEAN /\ deviceset \subseteq Plugged
    OBVIOUS
  <2>4. failed \in 0..MaxFailed /\ lost \in 0..MaxLost
    BY InitVocodersAssumption
  <2>5. phase \in {"discover", "classify", "open", "md380", "up", "failed"}
    OBVIOUS
  <2>6. /\ setup \in SetUps \cup {None} /\ opening \in Roles \cup {None}
        /\ moduleMap \in {[r \in Roles |-> <<>>], Mapping}
        /\ ignored \subseteq Plugged
    OBVIOUS
  <2>7. plugged \in BoundedSeq(Descriptions, MaxDevices) /\ modules \in 1..MaxModules
    OBVIOUS
  <2> HIDE DEF Init
  <2> QED BY <2>0, <2>1, <2>2, <2>3, <2>4, <2>5, <2>6, <2>7 DEF TypeOK
<1>2. moduleMap # Mapping
  <2>1. moduleMap["dmrsf"] = <<>> /\ Mapping["dmrsf"] = <<1, 2>>
    BY DEF Mapping, Roles
  <2>2. Len(moduleMap["dmrsf"]) = 0 /\ Len(Mapping["dmrsf"]) = 2
    BY <2>1
  <2> HIDE DEF Init
  <2> QED BY <2>2
<1>3. opening = None /\ None # "dmrsf"
  BY InitVocodersAssumption DEF Roles
<1>4. FoundInv /\ SetUpInv
  BY <1>2, <1>3 DEF FoundInv, SetUpInv
<1>5. UntouchedInv
  BY DEF UntouchedInv
<1>6. OpeningInv /\ ReadyInv /\ RegisterInv
  BY DEF OpeningInv, ReadyInv, RegisterInv
<1> QED BY <1>1, <1>4, <1>5, <1>6 DEF VocodersInv

LEMMA DiscoverSound == ASSUME VocodersInv, Discover PROVE VocodersInv'
<1> USE DEF Discover, plugVars, openVars, chipVars, faultVars
<1>1. TypeOK'
  BY DEF VocodersInv, TypeOK, Plugged
<1>2. FoundInv'
  BY DEF VocodersInv, FoundInv, Plugged, Unbound, Chosen
<1>3. SetUpInv'
  <2>1. setup = None
    BY DEF VocodersInv, SetUpInv, FoundInv
  <2>2. device = [r \in Roles |-> NoDevice] /\ opening = None /\ moduleMap # Mapping
    BY <2>1, InitVocodersAssumption DEF VocodersInv, SetUpInv, SetUps
  <2>3. None # "dmrsf"
    BY InitVocodersAssumption DEF Roles
  <2>4. moduleMap' # Mapping'
    BY <2>2 DEF Mapping
  <2> QED BY <2>1, <2>2, <2>3, <2>4 DEF SetUpInv
<1>4. UntouchedInv'
  BY DEF VocodersInv, UntouchedInv, Plugged, Used, Has
<1>5. OpeningInv' /\ ReadyInv' /\ RegisterInv'
  BY DEF VocodersInv, OpeningInv, ReadyInv, RegisterInv
<1> QED BY <1>1, <1>2, <1>3, <1>4, <1>5 DEF VocodersInv

LEMMA DiscoverFailsSound == ASSUME VocodersInv, DiscoverFails PROVE VocodersInv'
<1> USE DEF DiscoverFails, plugVars, openVars, chipVars
<1>1. TypeOK'
  BY InitVocodersAssumption DEF VocodersInv, TypeOK, Plugged, Mapping
<1>2. deviceset = {}
  BY DEF VocodersInv, FoundInv
<1>3. FoundInv'
  BY <1>2 DEF VocodersInv, FoundInv, Plugged, Unbound
<1>4. SetUpInv'
  <2>1. setup = None
    BY DEF VocodersInv, SetUpInv
  <2>2. device = [r \in Roles |-> NoDevice] /\ opening = None /\ moduleMap # Mapping
    BY <2>1, InitVocodersAssumption DEF VocodersInv, SetUpInv, SetUps
  <2>3. None # "dmrsf"
    BY InitVocodersAssumption DEF Roles
  <2>4. moduleMap' # Mapping'
    BY <2>2 DEF Mapping
  <2> QED BY <2>1, <2>2, <2>3, <2>4 DEF SetUpInv
<1>5. UntouchedInv'
  BY DEF VocodersInv, UntouchedInv, Plugged, Used, Has
<1>6. OpeningInv' /\ ReadyInv' /\ RegisterInv'
  BY DEF VocodersInv, OpeningInv, ReadyInv, RegisterInv
<1> QED BY <1>1, <1>3, <1>4, <1>5, <1>6 DEF VocodersInv

LEMMA RefuseSound == ASSUME VocodersInv, Refuse PROVE VocodersInv'
<1> USE DEF Refuse, plugVars, openVars, chipVars, faultVars
<1>1. TypeOK'
  BY DEF VocodersInv, TypeOK, Plugged
<1>2. SameSetUp
  BY DEF SameSetUp
<1>3. FoundInv' /\ SetUpInv'
  BY <1>2, SetUpStays DEF VocodersInv, SetUpInv
<1>4. UntouchedInv'
  BY <1>2, UntouchedStays
<1>5. OpeningInv' /\ ReadyInv' /\ RegisterInv'
  BY DEF VocodersInv, OpeningInv, ReadyInv, RegisterInv
<1> QED BY <1>1, <1>3, <1>4, <1>5 DEF VocodersInv

LEMMA ClassifySound == ASSUME VocodersInv, Classify PROVE VocodersInv'
<1> USE DEF Classify, plugVars, openVars, chipVars, faultVars
<1>1. SetUp \in SetUps
  BY DEF SetUp, SetUps
<1>2. TypeOK'
  BY <1>1 DEF VocodersInv, TypeOK, Plugged, Roles
<1>3. FoundInv'
  BY DEF VocodersInv, FoundInv, Plugged, Unbound, Chosen
<1>4. SetUpInv'
  <2>1. deviceset' # {} /\ moduleMap # Mapping
    BY InitVocodersAssumption DEF VocodersInv, SetUpInv, SetUps
  <2>2. /\ First' = First /\ Second' = Second /\ plugged' = plugged
        /\ LastOf("dv3000")' = LastOf("dv3000")
        /\ LastOf("dv3003")' = LastOf("dv3003")
        /\ SetUp' = SetUp
    BY ChoiceKept DEF Types
  <2>3. (device = DevicesOf(setup))'
    BY <2>2 DEF DevicesOf
  <2>4. setup' # None /\ (setup = SetUp)' /\ moduleMap' # Mapping'
    BY <2>1, <2>2 DEF Mapping
  <2>5. opening' # None /\ opening' # "dmrsf"
    BY InitVocodersAssumption DEF Roles
  <2> QED BY <2>1, <2>3, <2>4, <2>5 DEF SetUpInv
<1>5. UntouchedInv'
  <2>1. device = [r \in Roles |-> NoDevice]
    BY DEF VocodersInv, SetUpInv
  <2>2. \A r \in Used : FALSE
    BY <2>1 DEF Used, Has, NoDevice
  <2> QED BY <2>2 DEF VocodersInv, UntouchedInv, Plugged
<1>6. OpeningInv' /\ ReadyInv' /\ RegisterInv'
  <2>1. 0 <= Len(Calls')
    BY CallsLength DEF Calls
  <2>2. asked' = FALSE /\ made' = 0 /\ opening' # "dmrsf"
    BY DEF VocodersInv, OpeningInv, TypeOK
  <2>3. OpeningInv'
    BY <2>1, <2>2 DEF OpeningInv, EffectsInv, Answered
  <2> QED BY <2>2, <2>3 DEF ReadyInv, RegisterInv
<1> QED BY <1>2, <1>3, <1>4, <1>5, <1>6 DEF VocodersInv

(* What a step of OpenDevice leaves as it is.                              *)
LEMMA TypeStays ==
  ASSUME VocodersInv, SameSetUp,
         phase' \in {"classify", "open", "md380", "up", "failed"},
         opening' \in Roles \cup {None}, asked' \in BOOLEAN,
         chip' \in [Plugged -> [Channels -> [enc : Roles \cup {None},
                                            gain : Roles \cup {None},
                                            compand : BOOLEAN]]],
         rx' \in [Plugged -> Seq(Answers)],
         moduleMap' \in {[r \in Roles |-> <<>>], Mapping},
         failed' \in 0..MaxFailed, lost' \in 0..MaxLost, ignored' \subseteq Plugged
  PROVE  TypeOK'
<1>1. Plugged' = Plugged
  BY SetUpKept
<1> QED BY <1>1 DEF VocodersInv, TypeOK, SameSetUp, plugVars, Mapping

LEMMA OthersStay ==
  ASSUME VocodersInv, SameSetUp, phase = "open", phase' = "open",
         opening' = opening, ignored \subseteq ignored',
         \A d \in Plugged \ {At} : chip'[d] = chip[d] /\ rx'[d] = rx[d]
  PROVE  UntouchedInv' /\ ReadyInv'
<1>1. Used' = Used /\ Plugged' = Plugged /\ device' = device
  BY SetUpKept DEF SameSetUp
<1>2. opening \in Used /\ setup # None
  BY Opening
<1>3. UntouchedInv'
  BY <1>1, <1>2 DEF VocodersInv, UntouchedInv, At, Opened
<1>4. ASSUME opening = "dmrsf", device["dstar"].at \notin ignored'
      PROVE  Ready("dstar")'
  <2>1. TypeOK /\ SetUpInv
    BY DEF VocodersInv
  <2>2. /\ SoundDevice("dstar") /\ Has("dmrsf") 
        /\ device["dstar"].at # device["dmrsf"].at
    BY <1>2, <1>4, <2>1, DevicesSound DEF SetUpInv
  <2>3. device["dstar"].at \in Plugged \ {At}
    BY <2>1, <2>2, <1>4 DEF SoundDevice, TypeOK, At, Opened
  <2>4. "dstar" \in Used
    BY <2>2 DEF SoundDevice, Used, Roles
  <2>5. Ready("dstar")
    BY <1>4, <2>4 DEF VocodersInv, ReadyInv
  <2> QED BY <1>1, <2>3, <2>5 DEF Ready
<1>5. ReadyInv'
  BY <1>1, <1>4 DEF ReadyInv
<1> QED BY <1>3, <1>5

LEMMA SameCalls ==
  ASSUME SameSetUp, opening' = opening
  PROVE  Opened' = Opened /\ At' = At /\ Calls' = Calls
BY DEF SameSetUp, Opened, At, Calls

(* A step of OpenDevice after which it goes on.                            *)
LEMMA GoesOn ==
  ASSUME VocodersInv, SameSetUp, TypeOK', phase = "open", phase' = "open",
         opening' = opening, ignored \subseteq ignored', moduleMap' = moduleMap,
         \A d \in Plugged \ {At} : chip'[d] = chip[d] /\ rx'[d] = rx[d],
         OpeningInv'
  PROVE  VocodersInv'
<1>1. UntouchedInv' /\ ReadyInv'
  BY OthersStay
<1>2. FoundInv' /\ SetUpInv'
  BY SetUpStays DEF VocodersInv, SetUpInv
<1>3. RegisterInv'
  BY DEF RegisterInv
<1> QED BY <1>1, <1>2, <1>3 DEF VocodersInv

(* A step with which the start fails.                                      *)
LEMMA FailsSound ==
  ASSUME VocodersInv, SameSetUp, TypeOK', phase \in {"open", "md380"},
         phase' = "failed", opening' = None, asked' = FALSE,
         chip' = chip, moduleMap' = moduleMap
  PROVE  VocodersInv'
<1>1. None # "dmrsf"
  BY InitVocodersAssumption DEF Roles
<1>2. FoundInv' /\ SetUpInv'
  BY <1>1, SetUpStays DEF VocodersInv, SetUpInv
<1>3. UntouchedInv'
  BY UntouchedStays
<1>4. OpeningInv' /\ ReadyInv' /\ RegisterInv'
  BY DEF OpeningInv, ReadyInv, RegisterInv
<1> QED BY <1>2, <1>3, <1>4 DEF VocodersInv

LEMMA CallDriverSound == ASSUME VocodersInv, CallDriver PROVE VocodersInv'
<1> USE DEF CallDriver, Done
<1>1. SameSetUp /\ phase = "open" /\ phase' = "open" /\ opening' = opening
  BY DEF SameSetUp, NextIs
<1>2. made < Len(Calls) /\ Step.op = "call"
  BY DEF NextIs
<1>3. TypeOK
  BY DEF VocodersInv
<1>4. rx' \in [Plugged -> Seq(Answers)] /\ \A d \in Plugged \ {At} : rx'[d] = rx[d]
  <2>1. <<>> \in Seq(Answers)
    OBVIOUS
  <2> QED BY <1>3, <2>1 DEF TypeOK
<1>5. TypeOK'
  BY <1>1, <1>3, <1>4, TypeStays DEF TypeOK, faultVars
<1>6. OpeningInv'
  <2>1. /\ At \in Plugged /\ DOMAIN Calls = 1..Len(Calls) /\ made \in Nat
        /\ Len(Calls) \in Nat
    BY <1>1, <1>2, Opening, NextCall
  <2>2. Opened' = Opened /\ At' = At /\ Calls' = Calls /\ ignored' = ignored
    BY <1>1, SameCalls DEF faultVars
  <2>3. ASSUME At \notin ignored PROVE EffectsInv'
    <3>1. EffectsInv /\ ~ asked
      BY <1>1, <1>2, <2>3 DEF VocodersInv, OpeningInv, TypeOK
    <3>2. rx'[At] = <<>>
      <4>1. CASE made = 0
        BY <4>1, <1>1, <1>2, <1>3, <2>1, NextCall DEF TypeOK
      <4>2. CASE made > 0
        <5>1. rx[At] = <<>>
          BY <3>1, <4>2 DEF EffectsInv
        <5> QED BY <5>1, <1>3, <2>1 DEF TypeOK
      <4> QED BY <4>1, <4>2, <2>1
    <3>3. ASSUME NEW i \in DOMAIN Calls, i <= made + 1
          PROVE  Effect(Calls[i], Opened, chip[At])
      <4>1. CASE i <= made
        BY <4>1, <3>1 DEF EffectsInv, Answered
      <4>2. CASE i = made + 1
        <5>1. Calls[i].arg \notin {"config", "compand", "reset"}
          BY <4>2, <1>1, <1>2, NextCall DEF Step
        <5> QED BY <5>1 DEF Effect
      <4> QED BY <4>1, <4>2, <3>3, <2>1
    <3> QED BY <2>2, <3>2, <3>3 DEF EffectsInv, Answered
  <2> QED BY <1>1, <1>2, <2>1, <2>2, <2>3 DEF OpeningInv
<1> QED BY <1>1, <1>4, <1>5, <1>6, GoesOn DEF faultVars

LEMMA WriteSound == ASSUME VocodersInv, Write PROVE VocodersInv'
<1> DEFINE chips == [Channels -> [enc : Roles \cup {None}, gain : Roles \cup {None},
                                  compand : BOOLEAN]]
           new == After(Step.arg, Step.ch)
<1>1. SameSetUp /\ phase = "open" /\ phase' = "open" /\ opening' = opening
  BY DEF SameSetUp, NextIs, Write
<1>2. /\ made < Len(Calls) /\ Step.op = "ask" /\ ~ asked /\ asked' = TRUE
      /\ NextIs("ask") /\ made' = made /\ ignored' = ignored /\ failed' = failed
      /\ moduleMap' = moduleMap
  BY DEF NextIs, Write
<1>3. TypeOK
  BY DEF VocodersInv
<1>4. /\ At \in Plugged /\ DOMAIN Calls = 1..Len(Calls) /\ made \in Nat
      /\ Len(Calls) \in Nat /\ Step \in Answers /\ made > 0
  BY <1>1, <1>2, Opening, NextCall
<1>5. /\ chip \in [Plugged -> chips] /\ new \in chips
      /\ rx \in [Plugged -> Seq(Answers)]
  BY <1>2, <1>3, RequestTakesEffect DEF TypeOK
<1>6. \/ /\ chip' = [chip EXCEPT ![At] = new]
         /\ rx' = [rx EXCEPT ![At] = Append(@, Step)]
         /\ lost' = lost
      \/ /\ lost < MaxLost /\ lost' = lost + 1
         /\ chip' \in {chip, [chip EXCEPT ![At] = new]}
         /\ rx' = rx
  BY DEF Write
<1>7. /\ chip' \in [Plugged -> chips]
      /\ rx' \in [Plugged -> Seq(Answers)]
      /\ lost' \in 0..MaxLost
      /\ \A d \in Plugged \ {At} : chip'[d] = chip[d] /\ rx'[d] = rx[d]
  <2> HIDE DEF chips, new
  <2>1. Append(rx[At], Step) \in Seq(Answers)
    BY <1>4, <1>5
  <2>2. lost' \in 0..MaxLost
    BY <1>3, <1>6, InitVocodersAssumption DEF TypeOK
  <2> QED BY <1>4, <1>5, <1>6, <2>1, <2>2
<1>8. TypeOK'
  BY <1>1, <1>2, <1>3, <1>7, TypeStays DEF TypeOK
<1>9. OpeningInv'
  <2>2. Opened' = Opened /\ At' = At /\ Calls' = Calls /\ Step' = Step
    BY <1>1, <1>2, SameCalls DEF Step
  <2>3. ASSUME At \notin ignored PROVE EffectsInv'
    <3>1. EffectsInv
      BY <1>1, <2>3 DEF VocodersInv, OpeningInv
    <3>2. rx[At] = <<>>
      BY <3>1, <1>2, <1>4 DEF EffectsInv
    <3>3. ASSUME NEW i \in DOMAIN Calls, i <= made
          PROVE  Effect(Calls[i], Opened, chip[At]) /\ Effect(Calls[i], Opened, new)
      <4>1. Effect(Calls[i], Opened, chip[At])
        BY <3>1, <3>3 DEF EffectsInv, Answered
      <4> QED BY <4>1, <3>3, <1>2, RequestKeeps
    <3>4. Calls[made + 1] = Step /\ Effect(Step, Opened, new)
      BY <1>2, RequestTakesEffect DEF Step
    <3> HIDE DEF new
    <3>5. CASE rx' = rx
      <4>1. \A i \in DOMAIN Calls : i <= made => Effect(Calls[i], Opened, chip'[At])
        BY <3>3, <1>4, <1>5, <1>6
      <4> QED BY <3>2, <3>5, <4>1, <2>2, <1>2 DEF EffectsInv, Answered
    <3>6. CASE chip' = [chip EXCEPT ![At] = new] /\ rx' = [rx EXCEPT ![At] = Append(@, Step)]
      <4>1. chip'[At] = new /\ rx'[At] = <<Step>>
        BY <3>6, <3>2, <1>4, <1>5
      <4>2. \A i \in DOMAIN Calls : i <= made + 1 => Effect(Calls[i], Opened, new)
        BY <3>3, <3>4, <1>4
      <4>3. EffectsInv'
        BY <4>1, <4>2, <2>2, <1>2, <1>4 DEF EffectsInv, Answered
      <4> QED BY <4>3
    <3> QED BY <3>5, <3>6, <1>6
  <2> QED BY <1>1, <1>2, <1>4, <2>2, <2>3 DEF OpeningInv
<1> QED BY <1>1, <1>2, <1>7, <1>8, <1>9, GoesOn

LEMMA ReadSound == ASSUME VocodersInv, Read PROVE VocodersInv'
<1>1. /\ SameSetUp /\ phase = "open" /\ made < Len(Calls) /\ Step.op = "ask" /\ asked
      /\ rx[At] # <<>> /\ rx' = [rx EXCEPT ![At] = Tail(@)]
      /\ chip' = chip /\ moduleMap' = moduleMap
      /\ failed' = failed /\ lost' = lost /\ ignored' = ignored
  BY DEF SameSetUp, NextIs, Read, faultVars
<1>2. TypeOK
  BY DEF VocodersInv
<1>3. /\ At \in Plugged /\ DOMAIN Calls = 1..Len(Calls) /\ made \in Nat
      /\ Len(Calls) \in Nat /\ opening \in Roles
  BY <1>1, Opening, NextCall
<1>4. /\ rx' \in [Plugged -> Seq(Answers)] /\ rx'[At] = Tail(rx[At])
      /\ \A d \in Plugged \ {At} : rx'[d] = rx[d]
  <2>1. rx \in [Plugged -> Seq(Answers)] /\ rx[At] \in Seq(Answers)
    BY <1>2, <1>3 DEF TypeOK
  <2>2. Tail(rx[At]) \in Seq(Answers)
    BY <2>1, <1>1
  <2> QED BY <2>1, <2>2, <1>1, <1>3
<1>5. CASE Expected
  <2>1. /\ phase' = "open" /\ opening' = opening
        /\ made' = made + 1 /\ asked' = FALSE
    BY <1>1, <1>5 DEF Read, Done
  <2>2. TypeOK'
    BY <1>1, <1>2, <1>3, <1>4, <2>1, TypeStays DEF TypeOK
  <2>3. Opened' = Opened /\ At' = At /\ Calls' = Calls
    BY <1>1, <2>1, SameCalls
  <2>4. ASSUME At \notin ignored PROVE EffectsInv'
    <3>1. EffectsInv
      BY <1>1, <2>4 DEF VocodersInv, OpeningInv
    <3>2. rx[At] = <<Step>>
      <4>1. made > 0
        BY <1>1, <1>3, NextCall
      <4> QED BY <1>1, <3>1, <4>1 DEF EffectsInv
    <3>3. rx'[At] = <<>>
      BY <3>2, <1>4
    <3>4. \A i \in DOMAIN Calls : i <= made + 1 => Effect(Calls[i], Opened, chip[At])
      BY <3>1, <1>1, <1>3 DEF EffectsInv, Answered
    <3> QED BY <2>1, <2>3, <3>3, <3>4, <1>1 DEF EffectsInv, Answered
  <2>5. OpeningInv'
    BY <1>1, <1>3, <2>1, <2>3, <2>4 DEF OpeningInv
  <2> QED BY <1>1, <1>4, <2>1, <2>2, <2>5, GoesOn
<1>6. CASE ~ Expected
  <2>1. phase' = "failed" /\ opening' = None /\ asked' = FALSE
    BY <1>6 DEF Read, Fail
  <2>2. TypeOK'
    BY <1>1, <1>2, <1>3, <1>4, <2>1, TypeStays DEF TypeOK
  <2> QED BY <1>1, <2>1, <2>2, FailsSound
<1> QED BY <1>5, <1>6

LEMMA OpenNextSound == ASSUME VocodersInv, OpenNext PROVE VocodersInv'
<1> USE DEF OpenNext, chipVars, faultVars
<1>1. /\ SameSetUp /\ phase = "open" /\ phase' = "open" /\ made = Len(Calls)
      /\ opening = "dstar" /\ Has("dmrsf") /\ opening' = "dmrsf" /\ made' = 0
  BY DEF SameSetUp
<1>2. TypeOK /\ ~ asked /\ asked' = FALSE
  BY <1>1, Opening DEF VocodersInv, TypeOK
<1>3. TypeOK'
  BY <1>1, <1>2, TypeStays DEF TypeOK, Roles
<1>4. FoundInv' /\ SetUpInv'
  <2>1. opening' # None
    BY <1>1, InitVocodersAssumption DEF Roles
  <2> QED BY <1>1, <2>1, SetUpStays DEF VocodersInv, SetUpInv
<1>5. UntouchedInv'
  BY <1>1, UntouchedStays
<1>6. OpeningInv'
  <2>1. 0 <= Len(Calls') /\ Len(Calls') \in Nat
    BY CallsLength DEF Calls
  <2> QED BY <1>1, <1>2, <2>1 DEF OpeningInv, EffectsInv, Answered
<1>7. ReadyInv'
  <2>1. ASSUME device["dstar"].at \notin ignored PROVE Ready("dstar")
    BY <1>1, <2>1, ReadyAtEnd DEF At, Opened
  <2>2. ASSUME device["dstar"].at \notin ignored PROVE Ready("dstar")'
    BY <1>1, <2>1, <2>2 DEF Ready
  <2> QED BY <1>1, <2>2 DEF ReadyInv, SameSetUp
<1>8. RegisterInv'
  BY <1>1 DEF RegisterInv
<1> QED BY <1>3, <1>4, <1>5, <1>6, <1>7, <1>8 DEF VocodersInv

LEMMA OpenedAllSound == ASSUME VocodersInv, OpenedAll PROVE VocodersInv'
<1> USE DEF OpenedAll, chipVars, faultVars
<1>1. /\ SameSetUp /\ phase = "open" /\ phase' = "md380" /\ made = Len(Calls)
      /\ opening = "dmrsf" \/ ~ Has("dmrsf")
      /\ moduleMap' = IF setup = "mixed" /\ modules >= 2 THEN Mapping ELSE moduleMap
      /\ opening' = None
  BY DEF SameSetUp
<1>2. TypeOK /\ ~ asked /\ asked' = FALSE
  BY <1>1, Opening DEF VocodersInv, TypeOK
<1>3. TypeOK'
  BY <1>1, <1>2, TypeStays DEF TypeOK
<1>4. FoundInv' /\ SetUpInv'
  <2>1. None # "dmrsf" /\ setup # None
    BY <1>1, Opening, InitVocodersAssumption DEF Roles
  <2> QED BY <1>1, <2>1, SetUpStays DEF VocodersInv, SetUpInv
<1>5. UntouchedInv'
  BY <1>1, UntouchedStays
<1>6. OpeningInv' /\ RegisterInv'
  BY <1>1, <1>2 DEF OpeningInv, RegisterInv
<1>7. ReadyInv'
  <2>1. ASSUME NEW r \in Used, device[r].at \notin ignored PROVE Ready(r)
    <3>1. CASE r = opening
      BY <1>1, <2>1, <3>1, ReadyAtEnd DEF At, Opened
    <3>2. CASE r # opening
      <4>1. opening = "dmrsf" /\ r = "dstar"
        BY <1>1, <3>2, Opening DEF Used, Roles
      <4> QED BY <1>1, <2>1, <4>1 DEF VocodersInv, ReadyInv
    <3> QED BY <3>1, <3>2
  <2>2. ASSUME NEW r \in Used, device[r].at \notin ignored PROVE Ready(r)'
    BY <1>1, <2>1, <2>2 DEF Ready
  <2>3. Used' = Used
    BY <1>1, SetUpKept
  <2> QED BY <1>1, <2>2, <2>3 DEF ReadyInv, SameSetUp
<1> QED BY <1>3, <1>4, <1>5, <1>6, <1>7 DEF VocodersInv

LEMMA RegisterSound == ASSUME VocodersInv, Register PROVE VocodersInv'
<1> USE DEF Register, openVars, chipVars, faultVars
<1>1. SameSetUp /\ phase = "md380" /\ phase' = "up"
  BY DEF SameSetUp
<1>2. TypeOK'
  BY <1>1, TypeStays DEF VocodersInv, TypeOK
<1>3. FoundInv' /\ SetUpInv'
  BY <1>1, SetUpStays DEF VocodersInv, SetUpInv, Has, Roles
<1>4. UntouchedInv'
  BY <1>1, UntouchedStays
<1>5. OpeningInv'
  BY <1>1 DEF VocodersInv, OpeningInv
<1>6. ReadyInv'
  <2>1. Used' = Used
    BY <1>1, SetUpKept
  <2>2. \A r \in Used : Ready(r)' <=> Ready(r)
    BY <1>1 DEF Ready, SameSetUp
  <2> QED BY <1>1, <2>1, <2>2 DEF VocodersInv, ReadyInv, SameSetUp
<1>7. RegisterInv'
  BY <1>1, SetUpKept DEF RegisterInv
<1> QED BY <1>2, <1>3, <1>4, <1>5, <1>6, <1>7 DEF VocodersInv

LEMMA CallFailsSound == ASSUME VocodersInv, CallFails PROVE VocodersInv'
<1>1. /\ SameSetUp /\ phase = "open" /\ made < Len(Calls) /\ Step.op = "call"
      /\ chip' = chip /\ moduleMap' = moduleMap /\ lost' = lost
      /\ failed < MaxFailed /\ failed' = failed + 1
  BY DEF SameSetUp, NextIs, CallFails
<1>2. TypeOK /\ failed' \in 0..MaxFailed
  BY <1>1, InitVocodersAssumption DEF VocodersInv, TypeOK
<1>3. /\ At \in Plugged /\ DOMAIN Calls = 1..Len(Calls) /\ made \in Nat
      /\ Len(Calls) \in Nat /\ opening \in Roles /\ ~ asked
  BY <1>1, <1>2, Opening, NextCall DEF TypeOK
<1>4. CASE Step.arg = "baud"
  <2>1. /\ made' = Len(Calls) /\ asked' = FALSE /\ ignored' = ignored \cup {At}
        /\ phase' = phase /\ opening' = opening /\ rx' = rx
    BY <1>4 DEF CallFails
  <2>2. TypeOK'
    BY <1>1, <1>2, <1>3, <2>1, TypeStays DEF TypeOK
  <2>3. Opened' = Opened /\ At' = At /\ Calls' = Calls
    BY <1>1, <2>1, SameCalls
  <2>4. OpeningInv'
    BY <1>1, <1>3, <2>1, <2>3 DEF OpeningInv
  <2> QED BY <1>1, <2>1, <2>2, <2>4, GoesOn
<1>5. CASE Step.arg = "flush"
  <2>1. /\ made' = made + 1 /\ asked' = FALSE /\ ignored' = ignored
        /\ phase' = phase /\ opening' = opening /\ rx' = rx
    BY <1>5 DEF CallFails, Done
  <2>2. TypeOK'
    BY <1>1, <1>2, <1>3, <2>1, TypeStays DEF TypeOK
  <2>3. Opened' = Opened /\ At' = At /\ Calls' = Calls
    BY <1>1, <2>1, SameCalls
  <2>4. ASSUME At \notin ignored PROVE EffectsInv'
    <3>1. EffectsInv
      BY <1>1, <2>4 DEF VocodersInv, OpeningInv
    <3>2. rx[At] = <<>>
      <4>1. made > 0
        BY <1>1, <1>3, <1>5, NextCall
      <4> QED BY <1>3, <3>1, <4>1 DEF EffectsInv
    <3>3. ASSUME NEW i \in DOMAIN Calls, i <= made + 1
          PROVE  Effect(Calls[i], Opened, chip[At])
      <4>1. CASE i <= made
        BY <4>1, <3>1 DEF EffectsInv, Answered
      <4>2. CASE i = made + 1
        BY <4>2, <1>5 DEF Step, Effect
      <4> QED BY <4>1, <4>2, <3>3, <1>3
    <3> QED BY <1>1, <2>1, <2>3, <3>2, <3>3 DEF EffectsInv, Answered
  <2>5. OpeningInv'
    BY <1>1, <1>3, <2>1, <2>3, <2>4 DEF OpeningInv
  <2> QED BY <1>1, <2>1, <2>2, <2>5, GoesOn
<1>6. CASE Step.arg \notin {"baud", "flush"}
  <2>1. /\ phase' = "failed" /\ opening' = None /\ asked' = FALSE
        /\ rx' = rx /\ ignored' = ignored
    BY <1>6 DEF CallFails, Fail
  <2>2. TypeOK'
    BY <1>1, <1>2, <1>3, <2>1, TypeStays DEF TypeOK
  <2> QED BY <1>1, <2>1, <2>2, FailsSound
<1> QED BY <1>4, <1>5, <1>6

LEMMA WriteFailsSound == ASSUME VocodersInv, WriteFails PROVE VocodersInv'
<1>1. /\ SameSetUp /\ phase = "open" /\ made < Len(Calls) /\ Step.op = "ask"
      /\ chip' = chip /\ rx' = rx /\ moduleMap' = moduleMap /\ lost' = lost
      /\ failed < MaxFailed /\ failed' = failed + 1
  BY DEF SameSetUp, NextIs, WriteFails, chipVars
<1>2. TypeOK /\ failed' \in 0..MaxFailed
  BY <1>1, InitVocodersAssumption DEF VocodersInv, TypeOK
<1>3. /\ At \in Plugged /\ made \in Nat /\ Len(Calls) \in Nat /\ opening \in Roles
  BY <1>1, Opening, NextCall
<1>4. CASE Step.arg = "compand"
  <2>1. /\ made' = made /\ asked' = TRUE /\ ignored' = ignored \cup {At}
        /\ phase' = phase /\ opening' = opening
    BY <1>4 DEF WriteFails
  <2>2. TypeOK'
    BY <1>1, <1>2, <1>3, <2>1, TypeStays DEF TypeOK
  <2>3. Opened' = Opened /\ At' = At /\ Calls' = Calls
    BY <1>1, <2>1, SameCalls
  <2>4. OpeningInv'
    BY <1>1, <1>3, <2>1, <2>3 DEF OpeningInv, Step
  <2> QED BY <1>1, <2>1, <2>2, <2>4, GoesOn
<1>5. CASE Step.arg # "compand"
  <2>1. /\ phase' = "failed" /\ opening' = None /\ asked' = FALSE /\ ignored' = ignored
    BY <1>5 DEF WriteFails, Fail
  <2>2. TypeOK'
    BY <1>1, <1>2, <2>1, TypeStays DEF TypeOK
  <2> QED BY <1>1, <2>1, <2>2, FailsSound
<1> QED BY <1>4, <1>5

LEMMA ReadFailsSound == ASSUME VocodersInv, ReadFails PROVE VocodersInv'
<1>1. /\ SameSetUp /\ phase = "open" /\ made < Len(Calls) /\ Step.op = "ask"
      /\ chip' = chip /\ rx' = rx /\ moduleMap' = moduleMap /\ lost' = lost
      /\ failed < MaxFailed /\ failed' = failed + 1
  BY DEF SameSetUp, NextIs, ReadFails, chipVars
<1>2. TypeOK /\ failed' \in 0..MaxFailed
  BY <1>1, InitVocodersAssumption DEF VocodersInv, TypeOK
<1>3. /\ At \in Plugged /\ made \in Nat /\ Len(Calls) \in Nat /\ opening \in Roles
  BY <1>1, Opening, NextCall
<1>4. CASE Step.arg = "compand"
  <2>1. /\ made' = made + 1 /\ asked' = FALSE /\ ignored' = ignored \cup {At}
        /\ phase' = phase /\ opening' = opening
    BY <1>4 DEF ReadFails, Done
  <2>2. TypeOK'
    BY <1>1, <1>2, <1>3, <2>1, TypeStays DEF TypeOK
  <2>3. Opened' = Opened /\ At' = At /\ Calls' = Calls
    BY <1>1, <2>1, SameCalls
  <2>4. OpeningInv'
    BY <1>1, <1>3, <2>1, <2>3 DEF OpeningInv
  <2> QED BY <1>1, <2>1, <2>2, <2>4, GoesOn
<1>5. CASE Step.arg # "compand"
  <2>1. /\ phase' = "failed" /\ opening' = None /\ asked' = FALSE /\ ignored' = ignored
    BY <1>5 DEF ReadFails, Fail
  <2>2. TypeOK'
    BY <1>1, <1>2, <2>1, TypeStays DEF TypeOK
  <2> QED BY <1>1, <2>1, <2>2, FailsSound
<1> QED BY <1>4, <1>5

LEMMA Md380FailsSound == ASSUME VocodersInv, Md380Fails PROVE VocodersInv'
<1> USE DEF Md380Fails, openVars, chipVars
<1>1. SameSetUp /\ phase = "md380" /\ phase' = "failed"
  BY DEF SameSetUp
<1>2. opening' = None /\ asked' = FALSE
  BY <1>1 DEF VocodersInv, SetUpInv, OpeningInv, TypeOK
<1>3. TypeOK'
  BY <1>1, <1>2, TypeStays, InitVocodersAssumption DEF VocodersInv, TypeOK
<1> QED BY <1>1, <1>2, <1>3, FailsSound

LEMMA StuttersSound == ASSUME VocodersInv, UNCHANGED vars PROVE VocodersInv'
<1> USE DEF vars, plugVars, openVars, chipVars, faultVars
<1>1. SameSetUp
  BY DEF SameSetUp
<1>2. TypeOK'
  BY DEF VocodersInv, TypeOK, Plugged, Mapping
<1>3. FoundInv' /\ SetUpInv'
  <2>1. Has("dmrsf")' <=> Has("dmrsf")
    BY DEF Has
  <2>2. /\ SetUp' = SetUp /\ DevicesOf(setup)' = DevicesOf(setup)
        /\ Plugged' = Plugged /\ Unbound' = Unbound
        /\ {d \in Plugged : Chosen(d)}' = {d \in Plugged : Chosen(d)}
    BY <1>1, SetUpKept
  <2>3. FoundInv'
    BY <2>2 DEF VocodersInv, FoundInv
  <2> QED BY <2>1, <2>2, <2>3 DEF VocodersInv, SetUpInv, Mapping
<1>4. UntouchedInv'
  BY <1>1, UntouchedStays
<1>5. OpeningInv'
  <2>1. Opened' = Opened /\ At' = At /\ Calls' = Calls /\ Step' = Step
    BY <1>1, SameCalls DEF Step
  <2> QED BY <2>1 DEF VocodersInv, OpeningInv, EffectsInv, Answered
<1>6. ReadyInv' /\ RegisterInv'
  <2>1. Used' = Used /\ Registered' = Registered
    BY <1>1, SetUpKept
  <2>2. \A r \in Used : Ready(r)' <=> Ready(r)
    BY DEF Ready
  <2> QED BY <2>1, <2>2 DEF VocodersInv, ReadyInv, RegisterInv
<1> QED BY <1>2, <1>3, <1>4, <1>5, <1>6 DEF VocodersInv

-----------------------------------------------------------------------------
(* The theorems.                                                           *)

(* Whatever fails in InitVocoders, the set-up is the one the devices found *)
(* make it, devices of no role are untouched, and of what OpenDevice has   *)
(* asked of a chip everything that has been answered is in effect.         *)
THEOREM VocodersSound == Spec => []VocodersInv
<1>1. Init => VocodersInv
  BY StartsSound
<1>2. VocodersInv /\ [Next]_vars => VocodersInv'
  BY DiscoverSound, DiscoverFailsSound, RefuseSound, ClassifySound,
     CallDriverSound, WriteSound, ReadSound, OpenNextSound, OpenedAllSound, RegisterSound, CallFailsSound,
     WriteFailsSound, ReadFailsSound, Md380FailsSound, StuttersSound
     DEF Next, Proceed
<1> QED BY <1>1, <1>2, PTL DEF Spec

(* When InitVocoders reports success, every channel of every device in use *)
(* has the codec, gains and companding the threads take it to have, and no *)
(* answer is left in the line, unless a failure on that device was ignored. *)
THEOREM ReadyToServe == Spec => []ReadyWhenUp
<1>1. VocodersInv => ReadyWhenUp
  BY DEF VocodersInv, ReadyInv, ReadyWhenUp
<1> QED BY <1>1, VocodersSound, PTL

(* In each of the three set-ups of InitVocoders both encodings have a      *)
(* device or md380, no device has both roles, and the channel maps of the  *)
(* mixed set-up give every module and encoding a channel of its own.       *)
THEOREM EverythingServed == Spec => []EveryEncodingServed
<1>1. ASSUME VocodersInv, phase = "up" PROVE EveryEncodingServed
  <2>1. /\ TypeOK /\ SetUpInv /\ setup # None
        /\ setup = SetUp /\ device = DevicesOf(setup)
    BY <1>1 DEF VocodersInv, SetUpInv
  <2>2. /\ SoundDevice("dstar")
        /\ Has("dmrsf") => SoundDevice("dmrsf")
        /\ ~ Has("dmrsf") => setup = "single"
        /\ Has("dmrsf") => device["dstar"].at # device["dmrsf"].at
    BY <2>1, DevicesSound
  <2>3. setup = "single" => hasMd380
    BY <2>1 DEF SetUp, TypeOK
  <2>4. \A r \in Roles : Has(r) =>
          /\ \A ch \in DOMAIN device[r].enc :
               device[r].enc[ch] = ChannelEncoding(setup, r, ch)
          /\ DOMAIN device[r].enc = IF device[r].type = "dv3000" THEN {0} ELSE Channels
          /\ setup = "mixed" /\ r = "dmrsf" => device[r].type = "dv3003"
    <3>1. \A s \in SetUps, r \in Roles, d \in Nat, type \in Types :
            /\ Device(s, d, type, r).type = type
            /\ DOMAIN Device(s, d, type, r).enc =
                 IF type = "dv3000" THEN {0} ELSE Channels
            /\ \A ch \in DOMAIN Device(s, d, type, r).enc :
                 Device(s, d, type, r).enc[ch] = ChannelEncoding(s, r, ch)
      BY DEF Device
    <3>2. ASSUME NEW r \in Roles, Has(r)
          PROVE  \E d \in Nat, type \in Types :
                   /\ device[r] = Device(setup, d, type, r)
                   /\ setup = "mixed" /\ r = "dmrsf" => type = "dv3003"
      <4>1. device[r].at \in Nat
        BY <2>1, <2>2, <3>2, SomeDevices DEF SoundDevice, Roles, TypeOK
      <4>2. Edvtype(plugged[First]) \in Types /\ "dv3000" \in Types /\ "dv3003" \in Types
        BY DEF Edvtype, Types
      <4>3. \E d : \E type \in Types :
              /\ device[r] = Device(setup, d, type, r)
              /\ setup = "mixed" /\ r = "dmrsf" => type = "dv3003"
        <5>1. CASE setup = "mixed"
          <6>1. /\ device["dstar"] = Device(setup, LastOf("dv3000"), "dv3000", "dstar")
                /\ device["dmrsf"] = Device(setup, LastOf("dv3003"), "dv3003", "dmrsf")
            BY <2>1, <5>1 DEF DevicesOf
          <6>2. CASE r = "dstar"
            BY <4>2, <6>1, <6>2
          <6>3. CASE r = "dmrsf"
            BY <4>2, <6>1, <6>3
          <6> QED BY <6>2, <6>3 DEF Roles
        <5>2. CASE setup = "pair"
          <6> DEFINE type == Edvtype(plugged[First])
          <6>1. /\ device["dstar"] = Device(setup, First, type, "dstar")
                /\ device["dmrsf"] = Device(setup, Second, type, "dmrsf")
            BY <2>1, <5>2 DEF DevicesOf
          <6>2. type \in Types
            BY <4>2
          <6> HIDE DEF type
          <6>3. CASE r = "dstar"
            BY <5>2, <6>1, <6>2, <6>3
          <6>4. CASE r = "dmrsf"
            BY <5>2, <6>1, <6>2, <6>4
          <6> QED BY <6>3, <6>4 DEF Roles
        <5>3. CASE setup = "single"
          <6> DEFINE type == Edvtype(plugged[First])
          <6>1. /\ device["dstar"] = Device(setup, First, type, "dstar")
                /\ device["dmrsf"] = NoDevice
            BY <2>1, <5>3 DEF DevicesOf
          <6>2. r = "dstar"
            BY <3>2, <6>1 DEF Has, NoDevice, Roles
          <6>3. type \in Types
            BY <4>2
          <6> HIDE DEF type
          <6> QED BY <5>3, <6>1, <6>2, <6>3
        <5> QED BY <5>1, <5>2, <5>3, <2>1 DEF TypeOK, SetUps
      <4>4. \A d, type : Device(setup, d, type, r).at = d
        BY DEF Device
      <4> QED BY <4>1, <4>2, <4>3, <4>4
    <3> QED BY <2>1, <3>1, <3>2 DEF TypeOK
  <2>5. /\ "dstar" \in Used /\ 0 \in DOMAIN device["dstar"].enc
        /\ device["dstar"].enc[0] = "dstar"
    BY <2>2, <2>4 DEF SoundDevice, Used, Roles, Channels, ChannelEncoding
  <2>6. ASSUME Has("dmrsf")
        PROVE  "dmrsf" \in Used /\ \E ch \in DOMAIN device["dmrsf"].enc :
                                    device["dmrsf"].enc[ch] = "dmrsf"
    <3>1. "dmrsf" \in Used
      BY <2>6 DEF Used, Roles
    <3>2. CASE setup = "mixed"
      <4>1. 1 \in DOMAIN device["dmrsf"].enc
        BY <2>4, <2>6, <3>2 DEF Roles, Channels
      <4> QED BY <2>4, <2>6, <3>1, <4>1 DEF Roles, ChannelEncoding
    <3>3. CASE setup # "mixed"
      <4>1. 0 \in DOMAIN device["dmrsf"].enc
        BY <2>4, <2>6 DEF Roles, Channels
      <4> QED BY <2>4, <2>6, <3>1, <3>3, <4>1 DEF Roles, ChannelEncoding
    <3> QED BY <3>2, <3>3
  <2>7. \A e \in Roles :
          \/ e = "dmrsf" /\ setup = "single" /\ hasMd380
          \/ \E r \in Used : \E ch \in DOMAIN device[r].enc : device[r].enc[ch] = e
    BY <2>2, <2>3, <2>5, <2>6 DEF Roles
  <2>8. Used = Roles => device["dstar"].at # device["dmrsf"].at
    BY <2>2 DEF Used, Roles
  <2>9. ASSUME NEW e \in Roles, NEW f \in Roles,
               NEW i \in DOMAIN moduleMap[e], NEW j \in DOMAIN moduleMap[f],
               moduleMap[e][i] # None
        PROVE  /\ device["dmrsf"].enc[moduleMap[e][i]] = e
               /\ moduleMap[e][i] = moduleMap[f][j] => e = f /\ i = j
    <3>1. moduleMap # [r \in Roles |-> <<>>]
      BY <2>9
    <3>2. moduleMap = Mapping /\ setup = "mixed"
      BY <2>1, <3>1 DEF TypeOK, SetUpInv
    <3>3. Has("dmrsf")
      BY <2>2, <3>2
    <3>4. /\ device["dmrsf"].enc[0] = "dstar"
          /\ device["dmrsf"].enc[1] = "dmrsf"
          /\ device["dmrsf"].enc[2] = "dmrsf"
      BY <2>4, <3>2, <3>3 DEF Roles, Channels, ChannelEncoding
    <3>5. /\ DOMAIN moduleMap["dstar"] = 1..2 /\ DOMAIN moduleMap["dmrsf"] = 1..2
          /\ moduleMap["dstar"][1] = None /\ moduleMap["dstar"][2] = 0
          /\ moduleMap["dmrsf"][1] = 1 /\ moduleMap["dmrsf"][2] = 2
      BY <3>2 DEF Mapping
    <3>6. i \in {1, 2} /\ j \in {1, 2}
      BY <3>5 DEF Roles
    <3>7. None \notin {0, 1, 2}
      BY InitVocodersAssumption
    <3> QED BY <2>9, <3>4, <3>5, <3>6, <3>7 DEF Roles
  <2> QED BY <2>7, <2>8, <2>9 DEF EveryEncodingServed
<1> QED BY <1>1, VocodersSound, PTL DEF EveryEncodingServed

(* UnbindAllFtdiSio and DiscoverFtdiDevices: with a white list a device    *)
(* that is not on it keeps its driver and is never opened or written to;   *)
(* without one nothing with an unknown name is opened.                     *)
THEOREM LeavesOthersAlone == Spec => []OthersLeftAlone
<1>1. ASSUME VocodersInv, NEW d \in Plugged
      PROVE  /\ listed # {} /\ d \notin listed =>
                  d \in bound /\ d \notin deviceset
                    /\ chip[d] = [ch \in Channels |-> Blank]
             /\ listed = {} /\ ~ IsAmbeDevice(plugged[d]) =>
                  \A r \in Used : device[r].at # d
  <2>1. \A r \in Used : device[r].at \in deviceset
    <3>1. CASE setup = None
      <4>1. device = [r \in Roles |-> NoDevice]
        BY <1>1, <3>1 DEF VocodersInv, SetUpInv
      <4> QED BY <4>1 DEF Used, Has, NoDevice
    <3>2. CASE setup # None
      BY <1>1, <3>2, DevicesSound DEF VocodersInv, Used, Roles, SoundDevice
    <3> QED BY <3>1, <3>2
  <2>2. \A e \in deviceset : Chosen(e)
    BY <1>1 DEF VocodersInv, FoundInv
  <2>3. ASSUME listed # {}, d \notin listed
        PROVE  d \in bound /\ d \notin deviceset
                 /\ chip[d] = [ch \in Channels |-> Blank]
    <3>1. d \in bound
      BY <1>1, <2>3 DEF VocodersInv, FoundInv, Unbound
    <3>2. d \notin deviceset
      BY <2>2, <2>3 DEF Chosen
    <3>3. \A r \in Used : device[r].at # d
      BY <2>1, <3>2
    <3> QED BY <1>1, <3>1, <3>2, <3>3 DEF VocodersInv, UntouchedInv
  <2> QED BY <2>1, <2>2, <2>3 DEF Chosen
<1>2. VocodersInv => OthersLeftAlone
  BY <1>1 DEF OthersLeftAlone
<1> QED BY <1>2, VocodersSound, PTL

(* The registration at the end of InitVocoders: what a device counts under *)
(* its index is shown under its own serial number, unless there are two of *)
(* the same type.                                                          *)
THEOREM ShownAsUsed == Spec => []RegisteredAsUsed
<1>1. ASSUME VocodersInv, phase = "up", setup # "pair", NEW r \in Used
      PROVE  stats[statsIndex[r]] = device[r].at
  <2>1. /\ TypeOK /\ SetUpInv /\ setup # None /\ deviceset # {}
        /\ setup = SetUp /\ device = DevicesOf(setup)
        /\ stats = Registered
        /\ statsIndex = [dstar |-> 1, dmrsf |-> IF Len(stats) >= 2 THEN 2 ELSE None]
    BY <1>1 DEF VocodersInv, SetUpInv, RegisterInv
  <2>2. /\ First \in deviceset
        /\ \A type \in Types :
             /\ OfType(type) # {} => LastOf(type) \in OfType(type)
             /\ LastOf(type) # None <=> OfType(type) # {}
    BY <2>1, SomeDevices DEF TypeOK
  <2>3. CASE setup = "mixed"
    <3>1. OfType("dv3000") # {} /\ OfType("dv3003") # {}
      BY <2>1, <2>2, <2>3 DEF SetUp, Types
    <3>2. stats = <<LastOf("dv3000"), LastOf("dv3003")>>
      BY <2>1, <3>1 DEF Registered
    <3>3. statsIndex["dstar"] = 1 /\ statsIndex["dmrsf"] = 2
      BY <2>1, <3>2
    <3>4. /\ device["dstar"].at = LastOf("dv3000")
          /\ device["dmrsf"].at = LastOf("dv3003")
      BY <2>1, <2>3 DEF DevicesOf, Device
    <3> QED BY <3>2, <3>3, <3>4 DEF Used, Roles
  <2>4. CASE setup = "single"
    <3>1. Rest = {} /\ (LastOf("dv3000") = None \/ LastOf("dv3003") = None)
      BY <2>1, <2>4 DEF SetUp
    <3>2. deviceset = {First}
      BY <2>2, <3>1 DEF Rest
    <3>3. device["dstar"].at = First /\ ~ Has("dmrsf")
      BY <2>1, <2>4 DEF DevicesOf, Device, Has, NoDevice
    <3>4. stats[1] = First
      <4>1. CASE OfType("dv3003") = {}
        <5>1. OfType("dv3000") # {}
          BY <2>2, <4>1 DEF OfType, Edvtype
        <5>2. LastOf("dv3000") = First
          BY <2>2, <3>2, <5>1 DEF Types, OfType
        <5> QED BY <2>1, <4>1, <5>2 DEF Registered
      <4>2. CASE OfType("dv3003") # {}
        <5>1. OfType("dv3000") = {}
          BY <2>2, <3>1, <4>2 DEF Types
        <5>2. LastOf("dv3003") = First
          BY <2>2, <3>2, <4>2 DEF Types, OfType
        <5> QED BY <2>1, <4>2, <5>1, <5>2 DEF Registered
      <4> QED BY <4>1, <4>2
    <3>5. r = "dstar"
      BY <3>3 DEF Used, Roles
    <3> QED BY <2>1, <3>3, <3>4, <3>5
  <2> QED BY <1>1, <2>1, <2>3, <2>4 DEF TypeOK, SetUps
<1>2. VocodersInv => RegisteredAsUsed
  BY <1>1 DEF RegisteredAsUsed
<1> QED BY <1>2, VocodersSound, PTL

(* A start that waits for an answer waits for one that was lost, or for    *)
(* the one to a PKT_COMPAND that was never written.                        *)
THEOREM WaitsOnlyForLost == Spec => []WaitsForTheLost
<1> DEFINE Excused == lost > 0 \/ At \in ignored
           Owed == asked /\ rx[At] = <<>> => Excused
<1>1. Init => Owed
  BY DEF Init
<1>2. VocodersInv /\ Owed /\ [Next]_vars => Owed'
  <2> SUFFICES ASSUME VocodersInv, Owed, [Next]_vars, asked', rx'[At'] = <<>>
               PROVE  (lost > 0 \/ At \in ignored)'
    BY DEF Owed
  <2> HIDE DEF Owed
  <2>1. /\ TypeOK /\ (phase # "open" => ~ asked)
        /\ lost \in Nat /\ rx \in [Plugged -> Seq(Answers)]
    BY InitVocodersAssumption DEF VocodersInv, OpeningInv, TypeOK
  <2>2. ASSUME UNCHANGED <<asked, device, opening, lost, ignored>>, rx' = rx
        PROVE  (lost > 0 \/ At \in ignored)'
    BY <2>2 DEF Owed, At, Opened
  <2>3. CASE Write
    <3>1. /\ At' = At /\ At \in Plugged /\ Step \in Answers
          /\ phase = "open" /\ made < Len(Calls) /\ Step.op = "ask" /\ ~ asked
      <4>1. /\ phase = "open" /\ made < Len(Calls) /\ Step.op = "ask" /\ ~ asked
            /\ At' = At
        BY <2>3 DEF Write, NextIs, At, Opened
      <4> QED BY <2>3, <4>1, Opening, NextCall DEF NextIs
    <3>2. CASE rx' = [rx EXCEPT ![At] = Append(@, Step)]
      <4>1. rx'[At] = Append(rx[At], Step) /\ rx[At] \in Seq(Answers)
        BY <2>1, <3>1, <3>2
      <4> QED BY <3>1, <4>1
    <3>3. CASE lost' = lost + 1
      BY <2>1, <3>3
    <3> QED BY <2>3, <3>2, <3>3 DEF Write
  <2>4. CASE WriteFails
    BY <2>1, <2>4 DEF WriteFails, Fail, At, Opened
  <2>5. CASE Read \/ CallDriver \/ CallFails \/ ReadFails
    BY <2>1, <2>5
       DEF Read, CallDriver, CallFails, ReadFails, Done, Fail, NextIs, OpeningInv, VocodersInv
  <2>6. CASE OpenNext
    BY <2>1, <2>6, Opening DEF OpenNext, VocodersInv
  <2>7. CASE OpenedAll
    BY <2>1, <2>7, Opening DEF OpenedAll, VocodersInv
  <2>8. CASE Discover \/ DiscoverFails \/ Refuse \/ Classify \/ Register \/ Md380Fails
    BY <2>1, <2>8
       DEF Discover, DiscoverFails, Refuse, Classify, Register, Md380Fails, openVars
  <2>9. CASE UNCHANGED vars
    BY <2>2, <2>9 DEF vars, openVars, chipVars, faultVars
  <2> QED BY <2>3, <2>4, <2>5, <2>6, <2>7, <2>8, <2>9 DEF Next, Proceed
<1>3. Owed => WaitsForTheLost
  BY DEF WaitsForTheLost, Waiting
<1> QED BY <1>1, <1>2, <1>3, VocodersSound, PTL DEF Spec
=============================================================================
