------------------------------ MODULE Settings ------------------------------
(***************************************************************************)
(* A setting of tcd has four copies: in the ini file, in g_Conf, in        *)
(* g_Stats.config, and the one in force (the AGC's parameter, a gain       *)
(* numerator, the register of a chip).  CController::Start takes what is   *)
(* in force from g_Conf; from then on the reflector thread's               *)
(* ReconfigureAGC takes it from g_Stats.config, which main fills from      *)
(* g_Conf after Start, and only if there is a monitor.  The monitor's HTTP *)
(* thread changes g_Stats.config and saves it to the file.                 *)
(*                                                                         *)
(* The DMR gain mode has two parts, which come into force at their own     *)
(* times: re-encoding as g_Stats.config says, the steps by which the b2 of *)
(* a frame is lowered from the next ReconfigureAGC on.  The AGC is taken   *)
(* to be on, so that there is something to re-encode for, and AmbeGainDb   *)
(* not to be 0.                                                            *)
(***************************************************************************)
EXTENDS Integers

CONSTANTS
  Settings,     \* the settings looked at
  Monitor,      \* the Monitor line of the ini file
  MayHaveMd380, \* may tcd be built with md380, may it be without?
  IniLimit,     \* 40 dB, the most a gain may be in the file
  RestLimit,    \* 24 dB, the most a gain may be in a REST request
  MaxStarts,    \* bound: starts of tcd in one behaviour
  MaxChanges,   \* bound: changes by REST in one behaviour
  MaxSaves,     \* bound: saves in one behaviour
  Absent,       \* a setting without a line in the file
  Torn          \* the file truncated, or the contents of one

(* One of each kind: a software gain, a gain of a DVSI chip, an AGC        *)
(* parameter, the AGC's noise gate, the DMR gain mode (0 off, 1 ambe, 2    *)
(* reencode); and the place of its store in main.                          *)
SyncPlace == [maxgain |-> 1, noisegate |-> 2, chipgain |-> 3, gain |-> 4,
              mode |-> 5]
Gains == {"gain", "chipgain"}

Values == 0..(IniLimit + 1)
ContentsWhole == [Settings -> Values \cup {Absent}]

ASSUME SettingsAssumption ==
  /\ Settings \subseteq DOMAIN SyncPlace
  /\ Monitor \in BOOLEAN /\ MayHaveMd380 \subseteq BOOLEAN
  /\ RestLimit \in Nat \ {0} /\ IniLimit \in Nat /\ RestLimit <= IniLimit
  /\ 2 <= IniLimit
  /\ MaxStarts \in Nat /\ MaxChanges \in Nat /\ MaxSaves \in Nat
  /\ Absent \notin Int /\ Torn # Absent
  /\ Absent \notin ContentsWhole /\ Torn \notin ContentsWhole

(* The defaults of the two agree but for that of AGCMaxGainUp (30 and 20). *)
ConfDefault == [s \in Settings |-> IF s = "maxgain" THEN 2
                                   ELSE IF s = "mode" THEN 1 ELSE 0]
StatsDefault == [s \in Settings |-> IF s \in {"maxgain", "mode"} THEN 1 ELSE 0]

AtMost(v, limit) == IF v > limit THEN limit ELSE v

(* getSigned, and the words of DmrGainMode: an unknown one is "ambe".      *)
MutantReadData(contents) == contents   \* no defaults
ReadData(contents) ==
  [s \in Settings |->
     CASE contents[s] = Absent -> ConfDefault[s]
       [] contents[s] # Absent /\ s \in Gains -> AtMost(contents[s], IniLimit)
       [] contents[s] # Absent /\ s = "mode" ->
            IF contents[s] \in 0..2 THEN contents[s] ELSE ConfDefault[s]
       [] OTHER -> contents[s]]

(* What HandleRest makes of the value in a request. *)
Requested(s, v) ==
  CASE s \in Gains -> AtMost(v, RestLimit)
    [] s = "mode" -> AtMost(v, 2)
    [] OTHER -> v

VARIABLES
  hasMd380,     \* is tcd built with md380?
  file,         \* the ini file
  phase,        \* of the process: "down", "starting" or "running"
  conf,         \* g_Conf
  stats,        \* g_Stats.config
  inForce,      \* what the codec threads use
  toSync,       \* what main has still to copy from g_Conf to g_Stats.config
  saving,       \* the contents SaveConfig is about to write, or Absent
  starts, changes, saves,
  changed,      \* history: the settings changed by REST since the start
  saved         \* history: the settings saved last, Absent for those that were not

(* Without md380 there is no re-encoding; main then takes "ambe". *)
Possible(s, v) == ~ (s = "mode" /\ v = 2 /\ ~ hasMd380)
Synced(s, v) == IF Possible(s, v) THEN v ELSE 1

(* What is set by ReconfigureAGC: of the DMR gain mode, outgain_dmr_steps. *)
Applied(s, v) == IF s = "mode" /\ v # 1 THEN 0 ELSE v

(* The keys SaveConfig knows, and what is in force only from the start.    *)
Saved == Settings \ {"noisegate"}
Live == Settings \ {"chipgain"}

memVars == <<conf, stats, inForce, toSync>>
countVars == <<starts, changes, saves>>
histVars == <<changed, saved>>
vars == <<hasMd380, file, phase, memVars, saving, countVars, histVars>>

(* Bounds: the file has no noise gate or one that is 0, a request sets it  *)
(* to 0 or 1.                                                              *)
RestValues(s) == IF s = "noisegate" THEN 0..1 ELSE Values
FilesAtFirst ==
  {f \in ContentsWhole :
     "noisegate" \in Settings => f["noisegate"] \in {0, Absent}}

Init ==
  /\ hasMd380 \in MayHaveMd380
  /\ file \in FilesAtFirst
  /\ phase = "down"
  /\ conf = ConfDefault
  /\ stats = StatsDefault
  /\ inForce = StatsDefault
  /\ toSync = {}
  /\ saving = Absent
  /\ starts = 0 /\ changes = 0 /\ saves = 0
  /\ changed = {}
  /\ saved = [s \in Settings |-> Absent]

(* RouteDmrPacket re-encodes as soon as g_Stats.config says so. *)
Effective(s) ==
  IF s = "mode" /\ stats[s] = 2 /\ hasMd380 THEN 2 ELSE inForce[s]

-----------------------------------------------------------------------------
(* main and CController::Start, up to the start of the reflector thread.   *)
(* A truncated file has no module letters, and is refused.                 *)
Start ==
  /\ phase = "down"
  /\ starts < MaxStarts
  /\ file # Torn
  /\ phase' = "starting"
  /\ conf' = ReadData(file)
  /\ stats' = StatsDefault
  /\ inForce' = [s \in Settings |-> Applied(s, conf'[s])]
  /\ toSync' = IF Monitor THEN Settings ELSE {}
  /\ starts' = starts + 1
  /\ changed' = {}
  /\ UNCHANGED <<file, saving, changes, saves, saved>>

(* main copies the settings one by one; the reflector thread already runs. *)
MutantSync ==   \* leaves DmrGainMode out
  /\ phase = "starting"
  /\ \E s \in toSync :
       /\ \A t \in toSync : SyncPlace[s] <= SyncPlace[t]
       /\ toSync' = toSync \ {s}
       /\ stats' = IF s = "mode" THEN stats
                   ELSE [stats EXCEPT ![s] = Synced(s, conf[s])]
       /\ UNCHANGED inForce
  /\ UNCHANGED <<file, phase, conf, saving, countVars, histVars>>
Sync ==
  /\ phase = "starting"
  /\ \E s \in toSync :
       /\ \A t \in toSync : SyncPlace[s] <= SyncPlace[t]
       /\ toSync' = toSync \ {s}
       /\ stats' = [stats EXCEPT ![s] = Synced(s, conf[s])]
       /\ UNCHANGED inForce
  /\ UNCHANGED <<file, phase, conf, saving, countVars, histVars>>

(* g_Monitor.Start, if there is a monitor. *)
Serve ==
  /\ phase = "starting"
  /\ toSync = {}
  /\ phase' = "running"
  /\ UNCHANGED <<file, memVars, saving, countVars, histVars>>

(* The reflector thread, every ten rounds of its loop.  It loads the       *)
(* settings one by one, and any of them may be changed in between.         *)
MutantReconfigureAGC(s) ==   \* outgain_dmr_steps is left out
  /\ phase # "down"
  /\ s \in Live \ {"mode"}
  /\ inForce' = [inForce EXCEPT ![s] = Applied(s, stats[s])]
  /\ UNCHANGED <<file, phase, conf, stats, toSync, saving, countVars, histVars>>
ReconfigureAGC(s) ==
  /\ phase # "down"
  /\ s \in Live
  /\ inForce' = [inForce EXCEPT ![s] = Applied(s, stats[s])]
  /\ UNCHANGED <<file, phase, conf, stats, toSync, saving, countVars, histVars>>

-----------------------------------------------------------------------------
(* The HTTP thread of the monitor serves one request at a time.            *)

Serving == Monitor /\ phase = "running" /\ saving = Absent

HandleRest(s, v) ==
  /\ Serving
  /\ changes < MaxChanges
  /\ changes' = changes + 1
  /\ stats' = [stats EXCEPT ![s] = Requested(s, v)]
  /\ changed' = changed \cup {s}
  /\ UNCHANGED <<file, phase, conf, inForce, toSync, saving, starts, saves, saved>>

(* SaveConfig: the lines there are get their new values, the file is       *)
(* truncated when it is opened to be written ...                           *)
NewContents ==
  IF file = Torn THEN Torn
  ELSE [s \in Settings |-> IF s \in Saved /\ file[s] # Absent THEN stats[s]
                           ELSE file[s]]

MutantSaveConfig ==   \* writes what was read at the start
  /\ Serving
  /\ saves < MaxSaves
  /\ saves' = saves + 1
  /\ saving' = IF file = Torn THEN Torn
               ELSE [s \in Settings |->
                       IF s \in Saved /\ file[s] # Absent THEN conf[s]
                       ELSE file[s]]
  /\ file' = Torn
  /\ UNCHANGED <<phase, memVars, starts, changes, histVars>>
SaveConfig ==
  /\ Serving
  /\ saves < MaxSaves
  /\ saves' = saves + 1
  /\ saving' = NewContents
  /\ file' = Torn
  /\ UNCHANGED <<phase, memVars, starts, changes, histVars>>

(* ... and written.  Nobody looks whether that succeeded.                  *)
SaveWrite ==
  /\ saving # Absent
  /\ \/ /\ file' = saving
        /\ saved' = IF saving = Torn THEN saved
                    ELSE [s \in Settings |->
                                IF s \in Saved /\ saving[s] # Absent
                                  THEN stats[s] ELSE Absent]
     \/ UNCHANGED <<file, saved>>
  /\ saving' = Absent
  /\ UNCHANGED <<phase, memVars, countVars, changed>>

(* The process is killed, or the power fails. *)
Crash ==
  /\ phase # "down"
  /\ phase' = "down"
  /\ saving' = Absent
  /\ UNCHANGED <<file, memVars, countVars, histVars>>

-----------------------------------------------------------------------------
MainStep == Sync \/ Serve

Step ==
  \/ Start \/ MainStep \/ SaveConfig \/ SaveWrite \/ Crash
  \/ \E s \in Settings :
       ReconfigureAGC(s) \/ \E v \in RestValues(s) : HandleRest(s, v)

Next == Step /\ UNCHANGED hasMd380

(* main goes on, and the reflector thread loops for ever. *)
Fairness ==
  /\ WF_vars(MainStep /\ UNCHANGED hasMd380)
  /\ \A s \in Settings : WF_vars(ReconfigureAGC(s) /\ UNCHANGED hasMd380)

Spec == Init /\ [][Next]_vars
FairSpec == Spec /\ Fairness

-----------------------------------------------------------------------------
(* Properties.                                                             *)

Contents == ContentsWhole \cup {Torn}

TypeOK ==
  /\ hasMd380 \in MayHaveMd380
  /\ file \in Contents
  /\ phase \in {"down", "starting", "running"}
  /\ conf \in [Settings -> Values]
  /\ stats \in [Settings -> Values]
  /\ inForce \in [Settings -> Values]
  /\ toSync \subseteq Settings
  /\ saving \in Contents \cup {Absent}
  /\ starts \in 0..MaxStarts /\ changes \in 0..MaxChanges /\ saves \in 0..MaxSaves
  /\ changed \subseteq Settings
  /\ saved \in [Settings -> Values \cup {Absent}]

(* A setting nobody has changed since the start is in force as the file    *)
(* has it.  (For a while after the start it may not be: ReconfigureAGC may *)
(* run before main has filled g_Stats.config, and put the defaults in      *)
(* force.)  It takes the monitor to be enabled, as nobody else fills it.   *)
FileInForce ==
  \A s \in Settings :
    <>[](phase = "running" /\ s \notin changed
           => Effective(s) = Synced(s, conf[s]))

(* "Changes apply live": what the monitor shows comes into force without a *)
(* restart, unless it is changed again or the process ends before.  That   *)
(* leaves out the gains of the chips, which nobody sends to them again,    *)
(* and re-encoding without md380, which is accepted but not possible.      *)
LiveTakesEffect ==
  \A s \in Live, v \in Values :
    (phase = "running" /\ stats[s] = v /\ Possible(s, v))
      ~> (phase # "running" \/ stats[s] # v \/ Effective(s) = v)

(* "Persist current settings to tcd.ini": what was saved is what tcd has   *)
(* after any restart, but for what is changed again.  That leaves out the  *)
(* noise gate, which SaveConfig does not know, and settings without a line *)
(* in the file; and a save may leave a truncated file, which is refused.   *)
SavedComesBack ==
  Monitor /\ phase = "running" =>
    \A s \in Settings \ changed :
      saved[s] # Absent => stats[s] = Synced(s, saved[s])

-----------------------------------------------------------------------------
(* What keeps SavedComesBack.                                              *)

(* The two settings with a range of their own keep to it. *)
InRange(f) ==
  \A s \in Settings : f[s] # Absent => /\ s \in Gains => f[s] <= IniLimit
                                       /\ s = "mode" => f[s] \in 0..2

(* The file has what was saved last, unless it is truncated. *)
FileInv ==
  file # Torn => \A s \in Settings : saved[s] # Absent => file[s] = saved[s]

(* Nothing changes what is to be written before it is written. *)
SavingInv ==
  /\ saving # Absent => Monitor /\ phase = "running" /\ file = Torn
  /\ saving \in ContentsWhole =>
       \A s \in Saved : saving[s] # Absent => saving[s] = stats[s]

(* What main has copied and nobody has changed is g_Conf's, and g_Conf has *)
(* what was saved. *)
CopiesInv ==
  /\ phase = "running" => toSync = {}
  /\ Monitor /\ phase # "down" =>
       \A s \in Settings \ changed :
         /\ s \notin toSync => stats[s] = Synced(s, conf[s])
         /\ saved[s] # Absent => Synced(s, conf[s]) = Synced(s, saved[s])

(* All of it, which every step keeps.                                      *)
SettingsInv ==
  /\ TypeOK /\ InRange(conf) /\ InRange(stats) /\ InRange(saved)
  /\ FileInv /\ SavingInv /\ CopiesInv
=============================================================================
