---------------------------- MODULE Settings_proofs ----------------------------
(***************************************************************************)
(* Proofs about Settings, for any settings and limits, with and without    *)
(* the monitor and md380, and any number of starts, changes and saves.     *)
(***************************************************************************)
EXTENDS Settings, TLAPS

LEMMA SettingsAre ==
  /\ Settings \subseteq {"maxgain", "noisegate", "chipgain", "gain", "mode"}
  /\ Absent \notin Values /\ Values \subseteq Int
  /\ 0 \in Values /\ 1 \in Values /\ 2 \in Values /\ 3 \in Values
  /\ \A v \in Values : v \in Nat
BY SettingsAssumption DEF SyncPlace, Values

LEMMA DefaultsFit ==
  /\ ConfDefault \in [Settings -> Values] /\ InRange(ConfDefault)
  /\ StatsDefault \in [Settings -> Values] /\ InRange(StatsDefault)
BY SettingsAre, SettingsAssumption
   DEF ConfDefault, StatsDefault, InRange, Gains, Values

(* What is read is in range, and what is in range is read as it is. *)
LEMMA ReadDataFits ==
  ASSUME NEW f \in ContentsWhole
  PROVE  /\ ReadData(f) \in [Settings -> Values] /\ InRange(ReadData(f))
         /\ \A s \in Settings :
              /\ f[s] # Absent
              /\ s \in Gains => f[s] <= IniLimit
              /\ s = "mode" => f[s] \in 0..2
              => ReadData(f)[s] = f[s]
<1>1. ASSUME NEW s \in Settings
      PROVE  /\ f[s] \in Values \cup {Absent}
             /\ ConfDefault[s] \in Values
             /\ s \in Gains => ConfDefault[s] = 0
             /\ s = "mode" => ConfDefault[s] = 1
             /\ IniLimit \in Values
  BY SettingsAssumption, DefaultsFit
     DEF ContentsWhole, ConfDefault, Gains, Values
<1>2. ASSUME NEW s \in Settings, f[s] = Absent
      PROVE  ReadData(f)[s] = ConfDefault[s]
  BY <1>2 DEF ReadData
<1>3. ASSUME NEW s \in Settings, f[s] # Absent, s \in Gains
      PROVE  ReadData(f)[s] = AtMost(f[s], IniLimit)
  BY <1>3 DEF ReadData, Gains
<1>4. ASSUME NEW s \in Settings, f[s] # Absent, s = "mode"
      PROVE  ReadData(f)[s] = IF f[s] \in 0..2 THEN f[s] ELSE ConfDefault[s]
  BY <1>4 DEF ReadData, Gains
<1>5. ASSUME NEW s \in Settings, f[s] # Absent, s \notin Gains, s # "mode"
      PROVE  ReadData(f)[s] = f[s]
  BY <1>5 DEF ReadData
<1>6. ASSUME NEW s \in Settings
      PROVE  /\ ReadData(f)[s] \in Values
             /\ s \in Gains => ReadData(f)[s] <= IniLimit
             /\ s = "mode" => ReadData(f)[s] \in 0..2
             /\ (/\ f[s] # Absent
                 /\ s \in Gains => f[s] <= IniLimit
                 /\ s = "mode" => f[s] \in 0..2) => ReadData(f)[s] = f[s]
  <2>1. CASE f[s] = Absent
    BY <1>1, <1>2, <2>1, SettingsAssumption
  <2>2. CASE f[s] # Absent /\ s \in Gains
    BY <1>1, <1>3, <2>2, SettingsAssumption DEF AtMost, Gains, Values
  <2>3. CASE f[s] # Absent /\ s = "mode"
    BY <1>1, <1>4, <2>3 DEF Gains
  <2>4. CASE f[s] # Absent /\ s \notin Gains /\ s # "mode"
    BY <1>1, <1>5, <2>4
  <2>5. QED BY <2>1, <2>2, <2>3, <2>4
<1>7. ReadData(f) \in [Settings -> Values]
  BY <1>6 DEF ReadData
<1>8. QED BY <1>6, <1>7 DEF InRange

LEMMA RequestedFits ==
  ASSUME NEW s \in Settings, NEW v \in RestValues(s)
  PROVE  /\ Requested(s, v) \in Values
         /\ s \in Gains => Requested(s, v) <= IniLimit
         /\ s = "mode" => Requested(s, v) \in 0..2
<1>1. v \in Values
  BY SettingsAre DEF RestValues, Values
<1>2. CASE s \in Gains
  <2>1. Requested(s, v) = AtMost(v, RestLimit)
    BY <1>2 DEF Requested, Gains
  <2>2. QED BY <1>1, <1>2, <2>1, SettingsAssumption DEF AtMost, Gains, Values
<1>3. CASE s = "mode"
  <2>1. Requested(s, v) = AtMost(v, 2)
    BY <1>3 DEF Requested, Gains
  <2>2. QED BY <1>1, <1>3, <2>1, SettingsAssumption DEF AtMost, Gains, Values
<1>4. CASE s \notin Gains /\ s # "mode"
  <2>1. Requested(s, v) = v
    BY <1>4 DEF Requested
  <2>2. QED BY <1>1, <1>4, <2>1
<1>5. QED BY <1>2, <1>3, <1>4

LEMMA SyncedFits ==
  ASSUME NEW s \in Settings, NEW v \in Values,
         s \in Gains => v <= IniLimit, s = "mode" => v \in 0..2
  PROVE  /\ Synced(s, v) \in Values
         /\ s \in Gains => Synced(s, v) <= IniLimit
         /\ s = "mode" => Synced(s, v) \in 0..2
         /\ Synced(s, Synced(s, v)) = Synced(s, v)
         /\ Applied(s, v) \in Values
BY SettingsAre, SettingsAssumption DEF Synced, Possible, Gains, Applied

-----------------------------------------------------------------------------
LEMMA InitSound == Init => SettingsInv
<1> SUFFICES ASSUME Init PROVE SettingsInv
  OBVIOUS
<1> USE DEF Init
<1>1. TypeOK
  BY SettingsAre, DefaultsFit, SettingsAssumption
     DEF TypeOK, FilesAtFirst, Contents, ContentsWhole
<1>2. InRange(conf) /\ InRange(stats)
  BY DefaultsFit
<1>3. InRange(saved) /\ FileInv /\ CopiesInv
  BY DEF InRange, FileInv, CopiesInv
<1>4. SavingInv
  BY SettingsAssumption DEF SavingInv
<1>5. QED BY <1>1, <1>2, <1>3, <1>4 DEF SettingsInv

LEMMA StartKeeps == SettingsInv /\ Start /\ hasMd380' = hasMd380 => SettingsInv'
<1> SUFFICES ASSUME SettingsInv, Start, hasMd380' = hasMd380 PROVE SettingsInv'
  OBVIOUS
<1>1. /\ TypeOK /\ InRange(conf) /\ InRange(stats) /\ InRange(saved)
      /\ FileInv /\ SavingInv
      /\ phase = "down" /\ starts < MaxStarts /\ file # Torn
  BY DEF SettingsInv, Start
<1>2. /\ phase' = "starting" /\ starts' = starts + 1
      /\ conf' = ReadData(file) /\ stats' = StatsDefault
      /\ inForce' = [s \in Settings |-> Applied(s, conf'[s])]
      /\ toSync' = IF Monitor THEN Settings ELSE {}
      /\ changed' = {}
      /\ UNCHANGED <<file, saving, changes, saves, saved>>
  BY DEF Start
<1>3. file \in ContentsWhole /\ saving = Absent
  BY <1>1 DEF TypeOK, Contents, SavingInv
<1>4. /\ conf' \in [Settings -> Values] /\ InRange(conf')
      /\ stats' \in [Settings -> Values] /\ InRange(stats')
  BY <1>2, <1>3, ReadDataFits, DefaultsFit
<1>5. inForce' \in [Settings -> Values]
  BY <1>2, <1>4, SettingsAre DEF Applied
<1>6. TypeOK'
  BY <1>1, <1>2, <1>4, <1>5, SettingsAssumption DEF TypeOK
<1>7. InRange(conf)' /\ InRange(stats)' /\ InRange(saved)'
  BY <1>1, <1>2, <1>4 DEF InRange
<1>8. FileInv' /\ SavingInv'
  BY <1>1, <1>2, <1>3, SettingsAssumption DEF FileInv, SavingInv
<1>9. CopiesInv'
  <2>1. ASSUME NEW s \in Settings, saved[s] # Absent
        PROVE  conf'[s] = saved[s]
    <3>1. file[s] = saved[s]
      BY <1>1, <2>1 DEF FileInv
    <3>2. /\ s \in Gains => file[s] <= IniLimit
          /\ s = "mode" => file[s] \in 0..2
      BY <1>1, <2>1, <3>1 DEF InRange
    <3>3. QED BY <1>2, <1>3, <2>1, <3>1, <3>2, ReadDataFits
  <2>2. QED BY <1>2, <2>1 DEF CopiesInv, Synced, Possible
<1>10. QED BY <1>6, <1>7, <1>8, <1>9 DEF SettingsInv

LEMMA SyncKeeps == SettingsInv /\ Sync /\ hasMd380' = hasMd380 => SettingsInv'
<1> SUFFICES ASSUME SettingsInv, Sync, hasMd380' = hasMd380 PROVE SettingsInv'
  OBVIOUS
<1>1. PICK s \in toSync : /\ toSync' = toSync \ {s}
                          /\ stats' = [stats EXCEPT ![s] = Synced(s, conf[s])]
                          /\ UNCHANGED inForce
  BY DEF Sync
<1>2. /\ TypeOK /\ InRange(conf) /\ InRange(stats) /\ InRange(saved)
      /\ FileInv /\ SavingInv /\ CopiesInv
      /\ phase = "starting" /\ s \in Settings
      /\ UNCHANGED <<file, phase, conf, saving, starts, changes, saves, changed,
                     saved, inForce>>
  BY <1>1 DEF SettingsInv, Sync, TypeOK, countVars, histVars
<1>3. PICK v : v = Synced(s, conf[s])
  OBVIOUS
<1>4. conf[s] \in Values /\ conf[s] # Absent /\ stats \in [Settings -> Values]
  BY <1>2, SettingsAre DEF TypeOK
<1>5. /\ v \in Values
      /\ s \in Gains => v <= IniLimit
      /\ s = "mode" => v \in 0..2
  BY <1>2, <1>3, <1>4, SyncedFits DEF InRange
<1>6. /\ stats' \in [Settings -> Values] /\ stats'[s] = v
      /\ \A t \in Settings \ {s} : stats'[t] = stats[t]
  BY <1>1, <1>2, <1>3, <1>4, <1>5
<1>7. TypeOK'
  BY <1>1, <1>2, <1>6 DEF TypeOK
<1>8. InRange(conf)' /\ InRange(stats)' /\ InRange(saved)'
  BY <1>2, <1>5, <1>6 DEF InRange
<1>9. FileInv' /\ SavingInv'
  BY <1>2, SettingsAssumption DEF FileInv, SavingInv
<1>10. CopiesInv'
  BY <1>1, <1>2, <1>3, <1>6 DEF CopiesInv, Synced, Possible
<1>11. QED BY <1>7, <1>8, <1>9, <1>10 DEF SettingsInv

(* The steps that leave the settings alone. *)
LEMMA ServeKeeps == SettingsInv /\ Serve /\ hasMd380' = hasMd380 => SettingsInv'
<1> SUFFICES ASSUME SettingsInv, Serve, hasMd380' = hasMd380 PROVE SettingsInv'
  OBVIOUS
<1>1. /\ TypeOK /\ InRange(conf) /\ InRange(stats) /\ InRange(saved)
      /\ FileInv /\ SavingInv /\ CopiesInv
      /\ phase = "starting" /\ toSync = {} /\ phase' = "running"
      /\ UNCHANGED <<file, conf, stats, inForce, toSync, saving, starts,
                     changes, saves, changed, saved>>
  BY DEF SettingsInv, Serve, memVars, countVars, histVars
<1>2. TypeOK' /\ InRange(conf)' /\ InRange(stats)' /\ InRange(saved)'
  BY <1>1 DEF TypeOK, InRange
<1>3. FileInv' /\ SavingInv'
  BY <1>1 DEF FileInv, SavingInv
<1>4. CopiesInv'
  BY <1>1 DEF CopiesInv, Synced, Possible
<1>5. QED BY <1>2, <1>3, <1>4 DEF SettingsInv

LEMMA CrashKeeps == SettingsInv /\ Crash /\ hasMd380' = hasMd380 => SettingsInv'
<1> SUFFICES ASSUME SettingsInv, Crash, hasMd380' = hasMd380 PROVE SettingsInv'
  OBVIOUS
<1>1. /\ TypeOK /\ InRange(conf) /\ InRange(stats) /\ InRange(saved) /\ FileInv
      /\ phase' = "down" /\ saving' = Absent
      /\ UNCHANGED <<file, conf, stats, inForce, toSync, starts, changes, saves,
                     changed, saved>>
  BY DEF SettingsInv, Crash, memVars, countVars, histVars
<1>2. TypeOK' /\ InRange(conf)' /\ InRange(stats)' /\ InRange(saved)'
  BY <1>1 DEF TypeOK, InRange
<1>3. FileInv' /\ SavingInv'
  BY <1>1, SettingsAssumption
     DEF FileInv, SavingInv
<1>4. CopiesInv'
  BY <1>1 DEF CopiesInv
<1>5. QED BY <1>2, <1>3, <1>4 DEF SettingsInv

LEMMA ReconfigureKeeps ==
  ASSUME SettingsInv, NEW s \in Settings, ReconfigureAGC(s), hasMd380' = hasMd380
  PROVE  SettingsInv'
<1>1. /\ TypeOK /\ InRange(conf) /\ InRange(stats) /\ InRange(saved)
      /\ FileInv /\ SavingInv /\ CopiesInv
      /\ inForce' = [inForce EXCEPT ![s] = Applied(s, stats[s])]
      /\ UNCHANGED <<file, phase, conf, stats, toSync, saving, starts, changes,
                     saves, changed, saved>>
  BY DEF SettingsInv, ReconfigureAGC, countVars, histVars
<1>2. inForce' \in [Settings -> Values]
  BY <1>1, SettingsAre DEF TypeOK, Applied
<1>3. TypeOK' /\ InRange(conf)' /\ InRange(stats)' /\ InRange(saved)'
  BY <1>1, <1>2 DEF TypeOK, InRange
<1>4. FileInv' /\ SavingInv' /\ CopiesInv'
  BY <1>1 DEF FileInv, SavingInv, CopiesInv, Synced, Possible
<1>5. QED BY <1>3, <1>4 DEF SettingsInv

-----------------------------------------------------------------------------
LEMMA RestKeeps ==
  ASSUME SettingsInv, NEW s \in Settings, NEW x \in RestValues(s),
         HandleRest(s, x), hasMd380' = hasMd380
  PROVE  SettingsInv'
<1>1. PICK v : v = Requested(s, x)
  OBVIOUS
<1>2. /\ TypeOK /\ InRange(conf) /\ InRange(stats) /\ InRange(saved)
      /\ FileInv /\ SavingInv /\ CopiesInv
      /\ Monitor /\ phase = "running" /\ saving = Absent
      /\ changes < MaxChanges /\ changes' = changes + 1
      /\ stats' = [stats EXCEPT ![s] = v]
      /\ changed' = changed \cup {s}
      /\ UNCHANGED <<file, phase, conf, inForce, toSync, saving, starts, saves, saved>>
  BY <1>1 DEF SettingsInv, HandleRest, Serving
<1>3. /\ v \in Values
      /\ s \in Gains => v <= IniLimit
      /\ s = "mode" => v \in 0..2
  BY <1>1, RequestedFits
<1>4. /\ stats' \in [Settings -> Values] /\ stats'[s] = v
      /\ \A t \in Settings \ {s} : stats'[t] = stats[t]
  BY <1>2, <1>3 DEF TypeOK
<1>5. TypeOK'
  BY <1>2, <1>4, SettingsAssumption DEF TypeOK
<1>6. InRange(conf)' /\ InRange(stats)' /\ InRange(saved)'
  BY <1>2, <1>3, <1>4 DEF InRange
<1>7. FileInv' /\ SavingInv'
  BY <1>2, SettingsAssumption DEF FileInv, SavingInv
<1>8. CopiesInv'
  BY <1>2, <1>4 DEF CopiesInv, Synced, Possible
<1>9. QED BY <1>5, <1>6, <1>7, <1>8 DEF SettingsInv

LEMMA SaveConfigKeeps ==
  SettingsInv /\ SaveConfig /\ hasMd380' = hasMd380 => SettingsInv'
<1> SUFFICES ASSUME SettingsInv, SaveConfig, hasMd380' = hasMd380
             PROVE  SettingsInv'
  OBVIOUS
<1>1. /\ TypeOK /\ InRange(conf) /\ InRange(stats) /\ InRange(saved)
      /\ CopiesInv
      /\ Monitor /\ phase = "running" /\ saves < MaxSaves
      /\ saves' = saves + 1 /\ saving' = NewContents /\ file' = Torn
      /\ UNCHANGED <<phase, conf, stats, inForce, toSync, starts, changes,
                     changed, saved>>
  BY DEF SettingsInv, SaveConfig, Serving, memVars, histVars
<1>2. /\ saving' \in Contents
      /\ saving' \in ContentsWhole =>
           \A s \in Saved : saving'[s] # Absent => saving'[s] = stats[s]
  <2>1. CASE file = Torn
    BY <1>1, <2>1, SettingsAssumption DEF NewContents, Contents
  <2>2. CASE file # Torn
    <3>1. saving' = [s \in Settings |-> IF s \in Saved /\ file[s] # Absent
                                          THEN stats[s] ELSE file[s]]
      BY <1>1, <2>2 DEF NewContents
    <3>2. file \in [Settings -> Values \cup {Absent}]
          /\ stats \in [Settings -> Values]
      BY <1>1, <2>2 DEF TypeOK, Contents, ContentsWhole
    <3>3. QED BY <3>1, <3>2 DEF Contents, ContentsWhole, Saved
  <2>3. QED BY <2>1, <2>2
<1>3. TypeOK'
  BY <1>1, <1>2, SettingsAssumption DEF TypeOK, Contents
<1>4. InRange(conf)' /\ InRange(stats)' /\ InRange(saved)'
  BY <1>1 DEF InRange
<1>5. FileInv' /\ SavingInv'
  BY <1>1, <1>2 DEF FileInv, SavingInv
<1>6. CopiesInv'
  BY <1>1 DEF CopiesInv, Synced, Possible
<1>7. QED BY <1>3, <1>4, <1>5, <1>6 DEF SettingsInv

LEMMA SaveWriteKeeps ==
  SettingsInv /\ SaveWrite /\ hasMd380' = hasMd380 => SettingsInv'
<1> SUFFICES ASSUME SettingsInv, SaveWrite, hasMd380' = hasMd380
             PROVE  SettingsInv'
  OBVIOUS
<1>1. /\ TypeOK /\ InRange(conf) /\ InRange(stats) /\ InRange(saved)
      /\ FileInv /\ SavingInv /\ CopiesInv
      /\ saving # Absent /\ saving' = Absent
      /\ UNCHANGED <<phase, conf, stats, inForce, toSync, starts, changes,
                     saves, changed>>
  BY DEF SettingsInv, SaveWrite, memVars, countVars
<1>2. /\ Monitor /\ phase = "running" /\ file = Torn /\ toSync = {}
      /\ saving \in Contents
      /\ saving \in ContentsWhole =>
           \A s \in Saved : saving[s] # Absent => saving[s] = stats[s]
  BY <1>1 DEF SavingInv, CopiesInv, TypeOK
<1>3. InRange(conf)' /\ InRange(stats)' /\ SavingInv'
  BY <1>1, SettingsAssumption
     DEF InRange, SavingInv
<1>4. CASE UNCHANGED <<file, saved>>
  <2>1. TypeOK' /\ InRange(saved)' /\ FileInv'
    BY <1>1, <1>4 DEF TypeOK, InRange, FileInv
  <2>2. CopiesInv'
    BY <1>1, <1>4 DEF CopiesInv, Synced, Possible
  <2>3. QED BY <1>3, <2>1, <2>2 DEF SettingsInv
<1>5. CASE saving = Torn /\ file' = saving /\ saved' = saved
  <2>1. TypeOK' /\ InRange(saved)' /\ FileInv'
    BY <1>1, <1>5 DEF TypeOK, InRange, FileInv, Contents
  <2>2. CopiesInv'
    BY <1>1, <1>5 DEF CopiesInv, Synced, Possible
  <2>3. QED BY <1>3, <2>1, <2>2 DEF SettingsInv
<1>6. CASE /\ saving # Torn /\ file' = saving
           /\ saved' = [s \in Settings |-> IF s \in Saved /\ saving[s] # Absent
                                             THEN stats[s] ELSE Absent]
  <2>1. /\ saving \in ContentsWhole
        /\ stats \in [Settings -> Values]
        /\ conf \in [Settings -> Values]
    BY <1>1, <1>2, <1>6 DEF Contents, TypeOK
  <2>2. /\ saved' \in [Settings -> Values \cup {Absent}]
        /\ \A s \in Settings : saved'[s] # Absent =>
             saved'[s] = stats[s] /\ s \in Saved /\ saving[s] # Absent
    BY <1>6, <2>1
  <2>3. TypeOK'
    BY <1>1, <1>2, <1>6, <2>2 DEF TypeOK
  <2>4. InRange(saved)'
    BY <1>1, <2>2 DEF InRange
  <2>5. FileInv'
    BY <1>2, <1>6, <2>1, <2>2 DEF FileInv
  <2>6. ASSUME NEW s \in Settings \ changed
        PROVE  /\ stats[s] = Synced(s, conf[s])
               /\ saved'[s] # Absent => Synced(s, conf[s]) = Synced(s, saved'[s])
    <3>1. stats[s] = Synced(s, conf[s])
      BY <1>1, <1>2 DEF CopiesInv
    <3>2. Synced(s, Synced(s, conf[s])) = Synced(s, conf[s])
      BY DEF Synced, Possible
    <3>3. QED BY <2>2, <3>1, <3>2
  <2>7. CopiesInv'
    BY <1>1, <1>2, <2>6 DEF CopiesInv, Synced, Possible
  <2>8. QED BY <1>3, <2>3, <2>4, <2>5, <2>7 DEF SettingsInv
<1>7. \/ UNCHANGED <<file, saved>>
      \/ saving = Torn /\ file' = saving /\ saved' = saved
      \/ /\ saving # Torn /\ file' = saving
         /\ saved' = [s \in Settings |-> IF s \in Saved /\ saving[s] # Absent
                                           THEN stats[s] ELSE Absent]
  BY DEF SaveWrite
<1>8. QED BY <1>4, <1>5, <1>6, <1>7

-----------------------------------------------------------------------------
LEMMA StepKeeps == SettingsInv /\ [Next]_vars => SettingsInv'
<1> SUFFICES ASSUME SettingsInv, [Next]_vars PROVE SettingsInv'
  OBVIOUS
<1>1. CASE Next
  <2>1. hasMd380' = hasMd380 /\ Step
    BY <1>1 DEF Next
  <2>2. ASSUME NEW s \in Settings, ReconfigureAGC(s) PROVE SettingsInv'
    BY <2>1, <2>2, ReconfigureKeeps
  <2>3. ASSUME NEW s \in Settings, NEW v \in RestValues(s), HandleRest(s, v)
        PROVE  SettingsInv'
    BY <2>1, <2>3, RestKeeps
  <2>4. CASE Start
    BY <2>1, <2>4, StartKeeps
  <2>5. CASE MainStep
    BY <2>1, <2>5, SyncKeeps, ServeKeeps DEF MainStep
  <2>6. CASE SaveConfig
    BY <2>1, <2>6, SaveConfigKeeps
  <2>7. CASE SaveWrite
    BY <2>1, <2>7, SaveWriteKeeps
  <2>8. CASE Crash
    BY <2>1, <2>8, CrashKeeps
  <2>9. QED BY <2>1, <2>2, <2>3, <2>4, <2>5, <2>6, <2>7, <2>8 DEF Step
<1>2. CASE UNCHANGED vars
  <2>1. UNCHANGED <<hasMd380, file, phase, conf, stats, inForce, toSync, saving,
                    starts, changes, saves, changed, saved>>
    BY <1>2 DEF vars, memVars, countVars, histVars
  <2>2. /\ TypeOK /\ InRange(conf) /\ InRange(stats) /\ InRange(saved)
        /\ FileInv /\ SavingInv /\ CopiesInv
    BY DEF SettingsInv
  <2>3. TypeOK' /\ InRange(conf)' /\ InRange(stats)' /\ InRange(saved)'
    BY <2>1, <2>2 DEF TypeOK, InRange
  <2>4. FileInv' /\ SavingInv' /\ CopiesInv'
    BY <2>1, <2>2 DEF FileInv, SavingInv, CopiesInv, Synced, Possible
  <2>5. QED BY <2>3, <2>4 DEF SettingsInv
<1>3. QED BY <1>1, <1>2

(* The four copies of a setting and the contents about to be saved are in  *)
(* step with one another, through starts, requests, saves and crashes.     *)
THEOREM SettingsSound == Spec => []SettingsInv
<1>1. QED BY InitSound, StepKeeps, PTL DEF Spec

(* "Persist current settings to tcd.ini": what SaveConfig wrote is what    *)
(* the monitor has after any number of restarts, but for what a request    *)
(* has changed since.                                                      *)
THEOREM SavedIsBack == Spec => []SavedComesBack
<1>1. SettingsInv => SavedComesBack
  BY DEF SettingsInv, CopiesInv, SavedComesBack
<1>2. QED BY <1>1, SettingsSound, PTL
================================================================================
