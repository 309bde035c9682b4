----------------------------- MODULE DeviceProofs -----------------------------
(***************************************************************************)
(* Proofs about the programs of the device, each in a section of its own:  *)
(* the volume file, the ring's flags, the gestures of the dial, the        *)
(* pictures of the ring, the owner of the speaker, the setup AP and the    *)
(* DMA ring.  They hold for every number of scripts and networks, every    *)
(* threshold, wait, frame number and number of failed transfers, and rings *)
(* and streams of any kind, that the assumptions of MCDevice, WifiSwitch   *)
(* and DmaRing allow.                                                      *)
(***************************************************************************)
EXTENDS MCDevice, SequenceTheorems, FiniteSetTheorems, TLAPS

-----------------------------------------------------------------------------
(* A step of the whole device is one of a part, or leaves the part alone. *)
LEMMA StepOfDma == [Next]_vars => [DmaNext]_dmaVars
BY DEF Next, vars, DmaStep, DialStep, LedStep, VolStep, FlagStep, WifiStep, OwnStep
LEMMA StepOfLeds == [Next]_vars => Leds!NextFrame \/ UNCHANGED frame
BY DEF Next, vars, DmaStep, DialStep, LedStep, VolStep, FlagStep, WifiStep, OwnStep
LEMMA StepOfVolume == [Next]_vars => Vol!VolNext \/ UNCHANGED volState
BY DEF Next, vars, DmaStep, DialStep, LedStep, VolStep, FlagStep, WifiStep, OwnStep
LEMMA StepOfFlags == [Next]_vars => Flg!FlagsNext \/ UNCHANGED flagState
BY DEF Next, vars, DmaStep, DialStep, LedStep, VolStep, FlagStep, WifiStep, OwnStep
LEMMA StepOfDial ==
    [Next]_vars => \/ device = "dial" /\ Dial!DialNext /\ UNCHANGED device
                   \/ device # "dial" /\ UNCHANGED <<device, dialState>>
                   \/ UNCHANGED vars
BY DEF Next, vars, DmaStep, DialStep, LedStep, VolStep, FlagStep, WifiStep, OwnStep
LEMMA StepOfOwner == [Next]_vars => Own!OwnNext \/ UNCHANGED ownState
BY DEF Next, vars, DmaStep, DialStep, LedStep, VolStep, FlagStep, WifiStep, OwnStep
LEMMA StepOfWifi == [Next]_vars => WifiNext \/ UNCHANGED wifiVars
BY DEF Next, vars, DmaStep, DialStep, LedStep, VolStep, FlagStep, WifiStep, OwnStep

-----------------------------------------------------------------------------
(* The volume.  While nothing is excused, at most one script is at work, and it
   writes to the file what it set Master to. *)
Single(s) == \A r \in Scripts : r # s => script[r] = Vol!Idle

Settled ==
    /\ \A s \in Scripts : script[s] # Vol!Idle => Single(s)
    /\ \A s \in Scripts : script[s].todo = "write" => master = script[s].level
    /\ Vol!Running = {} /\ seen = Vol!None /\ lastMaster = master => file = master

VolInv ==
    /\ VolTypeOK
    /\ \A s \in Scripts : script[s] = Vol!Idle <=> script[s].todo = "nothing"
    /\ seen # Vol!None => seen = lastMaster
    /\ ~ excused => Settled

(* Where a script is at work, no other begins without being excused. *)
LEMMA BeginInv ==
    ASSUME LevelAssumption, VolInv, NEW s \in Scripts, NEW level \in Vol!Levels,
           Vol!Begin(s, level),
           UNCHANGED <<master, file, mixer, lastMaster, hold, seen>>,
           premute' \in Vol!Levels, pending' \in -1..1
    PROVE  VolInv'
<1> USE DEF VolInv, VolTypeOK, Vol!Begin
<1>1. script' \in [Scripts -> [todo : {"nothing", "set", "write"}, level : Vol!Levels]]
    BY DEF Vol!Levels
<1>2. script'[s] = [todo |-> "set", level |-> level] /\ \A r \in Scripts \ {s} : script'[r] = script[r]
    OBVIOUS
<1>3. \A r \in Scripts : script'[r] = Vol!Idle <=> script'[r].todo = "nothing"
    BY <1>2 DEF Vol!Idle
<1>4. VolTypeOK'
    BY <1>1 DEF Vol!Meets, Vol!Levels, Vol!None
<1>5. ASSUME ~ excused' PROVE Settled'
    <2>1. ~ excused /\ Vol!Running = {}
        BY <1>5 DEF Vol!Meets
    <2>2. \A r \in Scripts : script[r] = Vol!Idle
        BY <2>1 DEF Vol!Running
    <2>3. s \in Vol!Running'
        BY <1>2 DEF Vol!Running, Vol!Idle
    <2>4. \A r \in Scripts : script'[r] # Vol!Idle => r = s
        BY <1>2, <2>2
    <2>5. \A r \in Scripts : script'[r].todo # "write"
        BY <1>2, <2>2 DEF Vol!Idle
    <2>6. (\A r \in Scripts : script[r] # Vol!Idle => Single(r))'
        BY <2>4 DEF Single
    <2>7. (\A r \in Scripts : script[r].todo = "write" => master = script[r].level)'
        BY <2>5
    <2> QED
        BY <2>3, <2>6, <2>7 DEF Settled
<1> QED
    BY <1>3, <1>4, <1>5

(* The volume, at power-on and then. *)
LEMMA VolumeInit == LevelAssumption /\ Init => VolInv
<1> SUFFICES ASSUME LevelAssumption, Init PROVE VolInv
    OBVIOUS
<1> USE DEF Init, Vol!VolInit
<1>1. Vol!Idle \in [todo : {"nothing", "set", "write"}, level : Vol!Levels]
    BY DEF Vol!Idle, Vol!Levels, LevelAssumption
<1>2. VolTypeOK
    <2>1. script \in [Scripts -> [todo : {"nothing", "set", "write"}, level : Vol!Levels]]
        BY <1>1
    <2>2. mixer \in BOOLEAN /\ excused \in BOOLEAN
        OBVIOUS
    <2> QED
        BY <2>1, <2>2 DEF VolTypeOK, Vol!Levels, LevelAssumption
<1>3. master # Vol!None
    BY DEF Vol!Levels, Vol!None, LevelAssumption
<1>4. Settled
    BY <1>3 DEF Settled, Single, Vol!Idle
<1> QED
    BY <1>2, <1>4 DEF VolInv, Vol!Idle

LEMMA VolumeStep == LevelAssumption /\ VolInv /\ [Next]_vars => VolInv'
<1> SUFFICES ASSUME LevelAssumption, VolInv, Vol!VolNext \/ UNCHANGED volState
             PROVE VolInv'
    BY StepOfVolume
<1>0. /\ master \in Vol!Levels /\ file \in Vol!Levels /\ Vol!Levels \subseteq Int
      /\ Vol!None \notin Vol!Levels
      /\ \A s \in Scripts : /\ script[s] \in [todo : {"nothing", "set", "write"}, level : Vol!Levels]
                            /\ script[s].level \in Vol!Levels
    BY DEF VolInv, VolTypeOK, Vol!Levels, Vol!None
<1>1. ASSUME NEW d \in {-1, 1}, Vol!Knob(d) PROVE VolInv'
    <2>1. pending' \in -1..1 /\ hold' \in 0..HoldOff
        BY <1>1 DEF Vol!Knob, VolInv, VolTypeOK, LevelAssumption
    <2> QED
        BY <1>1, <2>1 DEF Vol!Knob, VolInv, VolTypeOK, Settled, Single, Vol!Running
<1>2. ASSUME NEW s \in Scripts, Vol!SetMaster(s) PROVE VolInv'
    <2>1. /\ script' = [script EXCEPT ![s].todo = "write"] /\ master' = script[s].level
          /\ UNCHANGED <<file, premute, mixer, lastMaster, hold, pending, seen, excused>>
          /\ script[s].todo = "set"
        BY <1>2 DEF Vol!SetMaster
    <2>2. script' \in [Scripts -> [todo : {"nothing", "set", "write"}, level : Vol!Levels]]
        BY <2>1 DEF VolInv, VolTypeOK
    <2>3. /\ script'[s].todo = "write" /\ script'[s].level = master'
          /\ \A r \in Scripts \ {s} : script'[r] = script[r]
        BY <2>1 DEF VolInv, VolTypeOK
    <2>4. script[s] # Vol!Idle /\ script'[s] # Vol!Idle
        BY <2>1, <2>3 DEF Vol!Idle
    <2>5. VolTypeOK'
        BY <1>0, <2>1, <2>2 DEF VolInv, VolTypeOK
    <2>6. (\A r \in Scripts : script[r] = Vol!Idle <=> script[r].todo = "nothing")'
        BY <2>3, <2>4 DEF VolInv
    <2>7. ASSUME ~ excused' PROVE Settled'
        <3>1. Settled /\ Single(s)
            BY <2>1, <2>4, <2>7 DEF VolInv, Settled
        <3>2. \A r \in Scripts \ {s} : script'[r] = Vol!Idle
            BY <2>3, <3>1 DEF Single
        <3>3. Vol!Running' # {}
            BY <2>4 DEF Vol!Running
        <3>4. \A r \in Scripts : script'[r].todo = "write" => r = s
            BY <3>2 DEF Vol!Idle
        <3> QED
            BY <2>3, <3>2, <3>3, <3>4 DEF Settled, Single
    <2> QED
        BY <2>1, <2>5, <2>6, <2>7 DEF VolInv
<1>3. ASSUME NEW s \in Scripts, Vol!WriteFile(s) PROVE VolInv'
    <2>1. /\ script' = [script EXCEPT ![s] = Vol!Idle] /\ file' = script[s].level
          /\ UNCHANGED <<master, premute, mixer, lastMaster, hold, pending, seen, excused>>
          /\ script[s].todo = "write" /\ script[s] # Vol!Idle
        BY <1>3 DEF Vol!WriteFile, Vol!Idle
    <2>2. Vol!Idle \in [todo : {"nothing", "set", "write"}, level : Vol!Levels]
        BY DEF Vol!Idle, Vol!Levels, LevelAssumption
    <2>3. /\ script' \in [Scripts -> [todo : {"nothing", "set", "write"}, level : Vol!Levels]]
          /\ script'[s] = Vol!Idle /\ \A r \in Scripts \ {s} : script'[r] = script[r]
        BY <2>1, <2>2 DEF VolInv, VolTypeOK
    <2>4. VolTypeOK'
        BY <1>0, <2>1, <2>3 DEF VolInv, VolTypeOK
    <2>5. (\A r \in Scripts : script[r] = Vol!Idle <=> script[r].todo = "nothing")'
        BY <2>3 DEF VolInv, Vol!Idle
    <2>6. ASSUME ~ excused' PROVE Settled'
        <3>1. Settled /\ Single(s) /\ master = script[s].level
            BY <2>1, <2>6 DEF VolInv, Settled
        <3>2. \A r \in Scripts : script'[r] = Vol!Idle
            BY <2>3, <3>1 DEF Single
        <3>3. \A r \in Scripts : script'[r].todo # "write"
            BY <3>2 DEF Vol!Idle
        <3> QED
            BY <2>1, <3>1, <3>2, <3>3 DEF Settled, Single
    <2> QED
        BY <2>1, <2>4, <2>5, <2>6 DEF VolInv
<1>4. ASSUME NEW s \in Scripts, Vol!TurnKnob(s) PROVE VolInv'
    <2>1. Vol!Stepped(file, pending) \in Vol!Levels
        BY <1>0 DEF Vol!Stepped, Vol!Levels, LevelAssumption, VolInv, VolTypeOK
    <2>2. Vol!Begin(s, Vol!Stepped(file, pending)) /\ pending' \in -1..1
        BY <1>4 DEF Vol!TurnKnob
    <2>3. /\ UNCHANGED <<master, file, mixer, lastMaster, hold, seen>>
          /\ premute' \in Vol!Levels
        BY <1>4 DEF Vol!TurnKnob, VolInv, VolTypeOK
    <2> QED
        BY <2>1, <2>2, <2>3, BeginInv
<1>5. ASSUME NEW s \in Scripts, Vol!Tap(s) PROVE VolInv'
    <2>1. /\ UNCHANGED <<master, file, mixer, lastMaster, hold, seen>>
          /\ premute' \in Vol!Levels /\ pending' \in -1..1
        BY <1>0, <1>5 DEF Vol!Tap, Vol!Premute, VolInv, VolTypeOK
    <2>2. 0 \in Vol!Levels /\ Vol!Restored \in Vol!Levels
        BY DEF Vol!Restored, Vol!DefaultLevel, Vol!Levels, LevelAssumption, VolInv, VolTypeOK
    <2>3. PICK level \in Vol!Levels : Vol!Begin(s, level)
        BY <1>5, <2>2 DEF Vol!Tap
    <2> QED
        BY <2>1, <2>3, BeginInv
<1>6. ASSUME NEW s \in Scripts, NEW level \in Vol!Levels, Vol!Remote(s, level) PROVE VolInv'
    <2>1. /\ UNCHANGED <<master, file, mixer, lastMaster, hold, seen>>
          /\ premute' \in Vol!Levels /\ pending' \in -1..1 /\ Vol!Begin(s, level)
        BY <1>6 DEF Vol!Remote, VolInv, VolTypeOK
    <2> QED
        BY <2>1, BeginInv
<1>7. ASSUME NEW level \in Vol!Levels, Vol!Sender(level) PROVE VolInv'
    <2>1. VolTypeOK'
        BY <1>7 DEF Vol!Sender, VolInv, VolTypeOK, Vol!Meets
    <2>2. ASSUME ~ excused' PROVE Settled'
        <3>1. Vol!Running = {} /\ lastMaster \in {Vol!None, master} /\ level # master
            BY <1>7, <2>2 DEF Vol!Sender, Vol!Meets
        <3>2. \A r \in Scripts : script[r] = Vol!Idle /\ script' = script /\ master' = level
            BY <1>7, <3>1 DEF Vol!Running, Vol!Sender
        <3>3. lastMaster' # master'
            BY <1>0, <1>7, <3>1, <3>2 DEF Vol!Sender
        <3>4. \A r \in Scripts : script'[r].todo # "write" /\ script'[r] = Vol!Idle
            BY <3>2 DEF Vol!Idle
        <3> QED
            BY <3>3, <3>4 DEF Settled, Single
    <2> QED
        BY <1>7, <2>1, <2>2 DEF Vol!Sender, VolInv
<1>8. CASE Vol!Watch
    <2>1. /\ UNCHANGED <<master, file, premute, script, mixer, pending>>
          /\ seen = Vol!None /\ lastMaster' = master
          /\ hold' = (IF hold > 0 THEN hold - 1 ELSE 0)
          /\ seen' = (IF master # lastMaster /\ hold = 0 THEN master ELSE Vol!None)
          /\ excused' = (excused \/ (master # lastMaster /\ hold > 0 /\ Vol!Running = {}))
        BY <1>8 DEF Vol!Watch, Vol!ReadMaster, Vol!Changed
    <2>2. hold' \in 0..HoldOff
        BY <2>1 DEF VolInv, VolTypeOK, LevelAssumption
    <2>3. VolTypeOK'
        BY <1>0, <2>1, <2>2 DEF VolInv, VolTypeOK
    <2>4. ASSUME ~ excused', Vol!Running' = {}, seen' = Vol!None PROVE file' = master'
        <3>1. Vol!Running = {} /\ ~ excused /\ ~ (master # lastMaster /\ hold > 0)
            BY <2>1, <2>4 DEF Vol!Running
        <3>2. master = lastMaster
            <4>1. hold \in Nat
                BY DEF VolInv, VolTypeOK, LevelAssumption
            <4> QED
                BY <1>0, <2>1, <2>4, <3>1, <4>1
        <3> QED
            BY <2>1, <3>1, <3>2 DEF VolInv, Settled
    <2>5. ~ excused' => Settled'
        BY <2>1, <2>4 DEF VolInv, Settled, Single
    <2> QED
        BY <2>1, <2>3, <2>5 DEF VolInv
<1>9. CASE Vol!WriteSeen
    <2>1. /\ UNCHANGED <<master, premute, script, mixer, lastMaster, hold, pending, excused>>
          /\ seen # Vol!None /\ file' = seen /\ seen' = Vol!None
        BY <1>9 DEF Vol!WriteSeen
    <2>2. VolTypeOK'
        BY <2>1 DEF VolInv, VolTypeOK
    <2> QED
        BY <2>1, <2>2 DEF VolInv, Settled, Single, Vol!Running
<1>10. CASE Vol!MixerOpens
    BY <1>10 DEF Vol!MixerOpens, VolInv, VolTypeOK, Settled, Single, Vol!Running
<1>11. CASE Vol!Restart
    <2>1. /\ UNCHANGED <<master, file, premute, script>> /\ mixer' \in BOOLEAN
          /\ lastMaster' = Vol!None /\ hold' = 0 /\ pending' = 0 /\ seen' = Vol!None
          /\ excused' = (excused /\ Vol!Running # {})
        BY <1>11 DEF Vol!Restart
    <2>2. VolTypeOK'
        BY <2>1 DEF VolInv, VolTypeOK, LevelAssumption
    <2>3. ASSUME ~ excused' PROVE Settled'
        <3>1. CASE ~ excused
            BY <1>0, <2>1, <3>1 DEF VolInv, Settled, Single
        <3>2. CASE Vol!Running = {}
            <4>1. \A r \in Scripts : script[r] = Vol!Idle /\ script[r].todo # "write"
                BY <3>2 DEF Vol!Running, Vol!Idle
            <4> QED
                BY <1>0, <2>1, <4>1 DEF Settled, Single
        <3> QED
            BY <2>1, <2>3, <3>1, <3>2
    <2> QED
        BY <2>1, <2>2, <2>3 DEF VolInv
<1>12. CASE UNCHANGED volState
    BY <1>12 DEF volState, VolInv, VolTypeOK, Settled, Single, Vol!Running
<1> QED
    BY <1>1, <1>2, <1>3, <1>4, <1>5, <1>6, <1>7, <1>8, <1>9, <1>10, <1>11, <1>12
    DEF Vol!VolNext

(* For any number of scripts and levels: changes of Master that do not meet, and that
   no watch passes over during the hold-off of the knob, leave the file at Master once
   all is quiet, through restarts of beepd. *)
THEOREM FileTheorem == LevelAssumption => (Spec => []FileTrue)
<1> SUFFICES ASSUME LevelAssumption PROVE Spec => []FileTrue
    OBVIOUS
<1>1. Init => VolInv
    BY VolumeInit
<1>2. VolInv /\ [Next]_vars => VolInv'
    BY VolumeStep
<1>3. VolInv => FileTrue
    BY DEF VolInv, Settled, FileTrue, Vol!Quiet
<1> QED
    BY <1>1, <1>2, <1>3, PTL DEF Spec

-----------------------------------------------------------------------------
(* A flag of the ring.  The copy was taken from the file at the flag's turn; if
   that turn is among the polls since which nothing changed, the copy is right. *)
TurnWithin(t) == IF t < loops THEN loops - t =< steady ELSE loops + 12 - t =< steady

FlagInv ==
    /\ FlagsTypeOK /\ flag \in Flg!Flags /\ steady \in 0..12
    /\ steady > 0 => flagFile # "empty"
    /\ flagFile # "empty" => meant = Flg!Copied(flag, flagFile)
    /\ \A t \in Flg!Turns(flag) : TurnWithin(t) => copy = meant

(* The flags, at power-on and then. *)
LEMMA FlagsInit == WaitAssumption /\ Init => FlagInv
<1> SUFFICES ASSUME WaitAssumption, Init PROVE FlagInv
    OBVIOUS
<1> USE DEF Init, Flg!FlagsInit
<1>1. FlagsTypeOK
    <2>1. copy \in BOOLEAN /\ meant \in BOOLEAN
        OBVIOUS
    <2> QED
        BY <2>1 DEF FlagsTypeOK, WaitAssumption
<1>2. meant = Flg!Copied(flag, flagFile)
    BY DEF Flg!Copied
<1>3. ASSUME NEW t \in Flg!Turns(flag) PROVE copy = meant
    OBVIOUS
<1>4. flag \in Flg!Flags /\ steady = 0
    OBVIOUS
<1> QED
    BY <1>1, <1>2, <1>3, <1>4 DEF FlagInv

(* The turns are polls of the cycle. *)
LEMMA TurnsInCycle == \A f \in Flg!Flags : Flg!Turns(f) \subseteq 0..11 /\ Flg!Turns(f) # {}
BY DEF Flg!Flags, Flg!Turns

LEMMA FlagsStep == WaitAssumption /\ FlagInv /\ [Next]_vars => FlagInv'
<1> SUFFICES ASSUME WaitAssumption, FlagInv, Flg!FlagsNext \/ UNCHANGED flagState
             PROVE FlagInv'
    BY StepOfFlags
<1>0. /\ flag \in Flg!Flags /\ loops \in 0..11 /\ left \in 0..Wait /\ steady \in 0..12
      /\ copy \in BOOLEAN /\ meant \in BOOLEAN /\ Wait \in Nat /\ Wait > 0
      /\ Flg!Turns(flag) \subseteq 0..11
    BY TurnsInCycle DEF FlagInv, FlagsTypeOK, WaitAssumption
<1>1. ASSUME UNCHANGED <<flag, loops>>, steady' = 0
      PROVE  \A t \in Flg!Turns(flag)' : ~ TurnWithin(t)'
    <2>1. Flg!Turns(flag)' = Flg!Turns(flag)
        BY <1>1
    <2>2. ASSUME NEW t \in Flg!Turns(flag) PROVE ~ TurnWithin(t)'
        BY <1>0, <1>1, <2>2 DEF TurnWithin
    <2> QED
        BY <2>1, <2>2
<1>2. CASE Flg!Empties
    <2>1. FlagsTypeOK'
        BY <1>2 DEF Flg!Empties, FlagInv, FlagsTypeOK
    <2> QED
        BY <1>0, <1>1, <1>2, <2>1 DEF Flg!Empties, FlagInv
<1>3. ASSUME NEW word \in {"yes", "no"}, Flg!Fills(word) PROVE FlagInv'
    <2>1. FlagsTypeOK'
        BY <1>0, <1>3 DEF Flg!Fills, FlagInv, FlagsTypeOK
    <2>2. meant' = Flg!Copied(flag, flagFile)'
        BY <1>0, <1>3 DEF Flg!Fills, Flg!Copied, Flg!Flags
    <2> QED
        BY <1>0, <1>1, <1>3, <2>1, <2>2 DEF Flg!Fills, FlagInv
<1>4. CASE Flg!Removes
    <2>1. FlagsTypeOK'
        BY <1>4 DEF Flg!Removes, FlagInv, FlagsTypeOK
    <2>2. meant' = Flg!Copied(flag, flagFile)'
        BY <1>0, <1>4 DEF Flg!Removes, Flg!Copied, Flg!Flags
    <2> QED
        BY <1>0, <1>1, <1>4, <2>1, <2>2 DEF Flg!Removes, FlagInv
<1>5. CASE Flg!Poll
    <2>1. /\ loops' = (IF loops = 11 THEN 0 ELSE loops + 1) /\ UNCHANGED <<flag, flagFile>>
          /\ copy' = (IF loops \in Flg!Turns(flag) THEN Flg!Copied(flag, flagFile) ELSE copy)
          /\ left' = (IF left > 0 THEN left - 1 ELSE 0)
          /\ meant' = (meant /\ ~ (flag = "connecting" /\ Flg!Passed))
          /\ steady' = (IF flagFile = "empty" \/ meant' # meant THEN 0
                        ELSE IF steady < 12 THEN steady + 1 ELSE steady)
        BY <1>0, <1>5 DEF Flg!Poll, Flg!Cycle
    <2>2. copy' \in BOOLEAN /\ meant' \in BOOLEAN
        BY <1>0, <2>1 DEF Flg!Copied
    <2>3. FlagsTypeOK' /\ flag' \in Flg!Flags /\ steady' \in 0..12
        BY <1>0, <2>1, <2>2 DEF FlagInv, FlagsTypeOK
    <2>4. flagFile' # "empty" => meant' = Flg!Copied(flag, flagFile)'
        BY <1>0, <2>1 DEF FlagInv, Flg!Copied, Flg!Passed
    <2>5. steady' > 0 => flagFile' # "empty"
        BY <2>1
    <2>6. ASSUME NEW t \in Flg!Turns(flag)', TurnWithin(t)' PROVE copy' = meant'
        <3>1. /\ t \in Flg!Turns(flag) /\ t \in 0..11
              /\ IF t < loops' THEN loops' - t =< steady' ELSE loops' + 12 - t =< steady'
            BY <1>0, <2>1, <2>6 DEF TurnWithin, Flg!Turns
        <3>2. steady' > 0 /\ flagFile # "empty" /\ meant' = meant
            BY <1>0, <2>1, <3>1
        <3>3. CASE loops \in Flg!Turns(flag)
            BY <2>1, <3>2, <3>3 DEF FlagInv
        <3>4. CASE loops \notin Flg!Turns(flag)
            <4>1. t # loops
                BY <3>1, <3>4
            <4>2. TurnWithin(t)
                BY <1>0, <2>1, <3>1, <3>2, <4>1 DEF TurnWithin
            <4> QED
                BY <2>1, <3>1, <3>2, <3>4, <4>2 DEF FlagInv
        <3> QED
            BY <3>3, <3>4
    <2> QED
        BY <2>3, <2>4, <2>5, <2>6 DEF FlagInv
<1>6. CASE UNCHANGED flagState
    BY <1>6 DEF flagState, FlagInv, FlagsTypeOK, TurnWithin, Flg!Copied, Flg!Turns
<1> QED
    BY <1>2, <1>3, <1>4, <1>5, <1>6 DEF Flg!FlagsNext

(* For any wait: what has stood for a turn of the ring's loop is what it shows, and a
   join that never comes to play is not shown longer than its time. *)
THEOREM UpToDateTheorem == WaitAssumption => (Spec => []UpToDate)
<1> SUFFICES ASSUME WaitAssumption PROVE Spec => []UpToDate
    OBVIOUS
<1>1. Init => FlagInv
    BY FlagsInit
<1>2. FlagInv /\ [Next]_vars => FlagInv'
    BY FlagsStep
<1>3. FlagInv => UpToDate
    <2> SUFFICES ASSUME FlagInv, steady = 12 PROVE copy = meant
        BY DEF UpToDate, Flg!UpToDate, Flg!Cycle
    <2>1. PICK t \in Flg!Turns(flag) : t \in 0..11
        BY TurnsInCycle DEF FlagInv
    <2>2. TurnWithin(t)
        BY <2>1 DEF TurnWithin, FlagInv, FlagsTypeOK
    <2> QED
        BY <2>1, <2>2 DEF FlagInv
<1> QED
    BY <1>1, <1>2, <1>3, PTL DEF Spec

-----------------------------------------------------------------------------
(* The dial.  A tap counted is a release there was, and counts that wait hold one
   more. *)
TapsCounted ==
    /\ tapAge = Dial!None => tapCount = 0
    /\ tapCount =< realUps
    /\ cntUp > 0 => tapCount < realUps

(* While no frame is missing, the press beepd knows of is no longer than it is. *)
PressKnown ==
    whole => /\ cntDown = 0 /\ cntUp = 0
             /\ btnAge # Dial!None => ~ up /\ held >= btnAge

(* The ring shows how long the button is down. *)
HoldShown ==
    /\ btnAge >= ArmShow => led \/ shown = Dial!ArmTier(btnAge) \/ bootAge < BootDone
    /\ bootAge < BootDone => btnAge =< bootAge

(* A failed transfer costs the poll it is in and the one after it. *)
Late == IF asked THEN 2 * failures + 1 ELSE 2 * failures

DialInv ==
    /\ DialTypeOK /\ realUps \in 0..5
    /\ unheard \in Nat /\ unheard =< Late
    /\ TapsCounted /\ PressKnown /\ HoldShown

(* What the assumption says of the counters' bounds. *)
LEMMA DialConstants ==
    ASSUME DialAssumption
    PROVE  /\ MultiTap \in Nat /\ ArmShow \in Nat /\ HoldWifi \in Nat /\ HoldReset \in Nat
           /\ PulseFor \in Nat /\ VolHold \in Nat /\ SleepAfter \in Nat /\ BootDone \in Nat
           /\ Toggles \in Nat /\ Flaky \in Nat
           /\ ArmShow < HoldWifi /\ BootDone < HoldWifi /\ HoldWifi < HoldReset
           /\ Dial!Cap = HoldReset + 2 /\ Dial!None = -1 /\ Dial!MaxCount = 4
BY DEF DialAssumption, Dial!Cap, Dial!None, Dial!MaxCount

LEMMA OlderType ==
    ASSUME NEW cap \in Nat, NEW age \in -1..cap
    PROVE  /\ Dial!Older(age, cap) \in -1..cap
           /\ Dial!Older(age, cap) = -1 <=> age = -1
           /\ Dial!Older(age, cap) =< age + 1 /\ Dial!Older(age, cap) >= age
           /\ age \in Nat /\ age < cap => Dial!Older(age, cap) = age + 1
           /\ age = cap => Dial!Older(age, cap) = cap
BY DEF Dial!Older, Dial!None

(* The highest claim that holds is what the ring shows. *)
LEMMA ArmingShown ==
    ASSUME DialAssumption, NEW ap \in BOOLEAN, NEW playing \in BOOLEAN, NEW h \in Int,
           ~ (bootAge' < BootDone), ~ ap, h >= ArmShow, shown' \in Dial!Shown(ap, playing, h)
    PROVE  shown' = Dial!ArmTier(h)
<1> DEFINE claims == Dial!Claims(ap, h)
           first == {i \in 1..Len(claims) :
                       claims[i][2] /\ \A j \in 1..i-1 : ~claims[j][2]}
<1>1. /\ Len(claims) = 5
      /\ claims[1] = <<"boot", bootAge' < BootDone>> /\ claims[2] = <<"ap", ap>>
      /\ claims[3] = Dial!Arming(h)
    BY DEF Dial!Claims, Dial!Feedback
<1>2. ~ claims[1][2] /\ ~ claims[2][2] /\ claims[3][2] /\ claims[3][1] = Dial!ArmTier(h)
    <2>1. claims[1][2] = (bootAge' < BootDone) /\ claims[2][2] = ap
        BY <1>1
    <2>2. claims[3][2] = (h >= ArmShow) /\ claims[3][1] = Dial!ArmTier(h)
        BY <1>1 DEF Dial!Arming
    <2> QED
        BY <2>1, <2>2
<1>3. Dial!Shown(ap, playing, h) =
         IF first = {} THEN Dial!Resting(playing) ELSE {claims[i][1] : i \in first}
    BY DEF Dial!Shown
<1> HIDE DEF claims
<1>4. first = {3}
    <2>1. 3 \in first
        <3>1. \A j \in 1..3-1 : j = 1 \/ j = 2
            OBVIOUS
        <3> QED
            BY <1>1, <1>2, <3>1
    <2>2. ASSUME NEW i \in first PROVE i = 3
        <3>1. i \in 1..5 /\ claims[i][2] /\ \A j \in 1..i-1 : ~claims[j][2]
            BY <1>1, <2>2
        <3>2. i # 1 /\ i # 2
            BY <1>2, <3>1
        <3>3. i > 3 => 3 \in 1..i-1
            <4>1. i \in Int
                BY <3>1
            <4> QED
                BY <4>1, SMTT(30)
        <3>4. ~(i > 3)
            BY <1>2, <3>1, <3>3, ZenonT(60)
        <3>5. i \in 1..5
            BY <3>1
        <3> QED
            BY <3>2, <3>4, <3>5, SMTT(30)
    <2> QED
        BY <2>1, <2>2
<1> HIDE DEF first
<1>5. Dial!Shown(ap, playing, h) = {claims[3][1]}
    BY <1>3, <1>4
<1> QED
    BY <1>2, <1>5

(* What a turn of the loop does, on any counts. *)
TurnTypes ==
    /\ btnAge \in -1..Dial!Cap /\ pulseAge \in 0..PulseFor
    /\ tapAge \in -1..MultiTap /\ tapCount \in 0..3
    /\ volAge \in 0..VolHold /\ activeAge \in 0..SleepAfter
    /\ bootAge \in 0..BootDone /\ led \in BOOLEAN
    /\ fired \subseteq {"tap", "double_tap", "phys_confirm", "hold", "factory_reset"}

LEMMA TurnTypesStep ==
    ASSUME DialAssumption, TurnTypes, NEW d \in Nat, NEW u \in Nat,
           Dial!Turn(d, u)
    PROVE  /\ TurnTypes'
           /\ btnAge' = Dial!AfterEdges(d, u)
           /\ tapAge = -1 => tapAge' = -1 \/ u > 0
           /\ tapCount' > 0 => tapCount' =< tapCount \/ (u > 0 /\ tapCount' =< tapCount + 1)
           /\ tapAge' = -1 => tapCount' = 0 \/ (tapAge = -1 /\ tapCount' = tapCount)
           /\ fired' \cap {"hold", "factory_reset"} = Dial!HoldFired(d, u)
<1> USE DialConstants
<1> DEFINE age == Dial!Older(tapAge, MultiTap + 1)
           count == Dial!Counted(d, u, age)
           since == IF Dial!IsTap(d, u) THEN 0 ELSE age
<1>1. PICK ap \in BOOLEAN, playing \in BOOLEAN, moved \in BOOLEAN :
        /\ btnAge' = Dial!AfterEdges(d, u)
        /\ pulseAge' = IF d > 0 THEN 0 ELSE Dial!Older(pulseAge, PulseFor)
        /\ fired' = Dial!HoldFired(d, u) \cup IF Dial!Lapsed(since) THEN Dial!TapOf(count) ELSE {}
        /\ tapAge' = IF Dial!Lapsed(since) THEN Dial!None ELSE since
        /\ tapCount' = IF Dial!Lapsed(since) THEN 0 ELSE Dial!Capped(count, 3)
        /\ volAge' = IF moved THEN 0 ELSE Dial!Older(volAge, VolHold)
        /\ bootAge' = Dial!Older(bootAge, BootDone)
        /\ activeAge' = IF playing \/ volAge' < VolHold \/ btnAge' # Dial!None
                        THEN 0 ELSE Dial!Older(activeAge, SleepAfter)
        /\ led' = ap
    BY DEF Dial!Turn
<1>2. /\ btnAge' \in -1..Dial!Cap
    <2>1. Dial!Older(btnAge, Dial!Cap) \in -1..Dial!Cap
        BY OlderType DEF TurnTypes
    <2> QED
        BY <1>1, <2>1 DEF Dial!AfterEdges, Dial!PressedAt
<1>3. pulseAge' \in 0..PulseFor /\ volAge' \in 0..VolHold /\ bootAge' \in 0..BootDone
    <2>1. pulseAge' \in 0..PulseFor
        BY <1>1, OlderType DEF TurnTypes
    <2>2. volAge' \in 0..VolHold
        BY <1>1, OlderType DEF TurnTypes
    <2>3. bootAge' \in 0..BootDone
        <3>1. bootAge \in -1..BootDone /\ bootAge >= 0
            BY DEF TurnTypes
        <3>2. bootAge' \in -1..BootDone /\ bootAge' >= bootAge
            BY <1>1, <3>1, OlderType
        <3> QED
            BY <3>1, <3>2
    <2> QED
        BY <2>1, <2>2, <2>3
<1>4. activeAge' \in 0..SleepAfter
    BY <1>1, OlderType DEF TurnTypes
<1>5. /\ age \in -1..MultiTap + 1 /\ (age = -1 <=> tapAge = -1)
      /\ since \in -1..MultiTap + 1
      /\ count \in 0..4 /\ count =< tapCount + 1
      /\ ~ Dial!IsTap(d, u) => count = tapCount
    <2>1. age \in -1..MultiTap + 1 /\ (age = -1 <=> tapAge = -1)
        <3>1. tapAge \in -1..MultiTap + 1 /\ MultiTap + 1 \in Nat
            BY DEF TurnTypes
        <3> QED
            BY <3>1, OlderType
    <2> HIDE DEF age
    <2>2. Dial!Burst(age) \in 0..4 /\ Dial!Burst(age) =< tapCount + 1
        BY DEF Dial!Burst, TurnTypes
    <2>3. count = IF Dial!IsTap(d, u) THEN Dial!Burst(age) ELSE tapCount
        BY DEF Dial!Counted
    <2>4. since = IF Dial!IsTap(d, u) THEN 0 ELSE age
        OBVIOUS
    <2> HIDE DEF count, since
    <2>5. count \in 0..4 /\ count =< tapCount + 1 /\ (~ Dial!IsTap(d, u) => count = tapCount)
        BY <2>2, <2>3 DEF TurnTypes
    <2>6. since \in -1..MultiTap + 1
        BY <2>1, <2>4
    <2> QED
        BY <2>1, <2>5, <2>6
<1>6. Dial!IsTap(d, u) => u > 0
    BY DEF Dial!IsTap
<1>7. Dial!HoldFired(d, u) \subseteq {"hold", "factory_reset"}
    BY DEF Dial!HoldFired, Dial!HoldOf
<1>8. Dial!TapOf(count) \subseteq {"tap", "double_tap", "phys_confirm"}
    BY DEF Dial!TapOf
<1> HIDE DEF age, count
<1>9. tapAge' \in -1..MultiTap /\ tapCount' \in 0..3
    BY <1>1, <1>5 DEF Dial!Lapsed, Dial!Capped
<1>10. TurnTypes'
    BY <1>1, <1>2, <1>3, <1>4, <1>7, <1>8, <1>9 DEF TurnTypes
<1>11. tapAge = -1 => tapAge' = -1 \/ u > 0
    BY <1>1, <1>5, <1>6 DEF Dial!Lapsed
<1>12. tapCount' > 0 => tapCount' =< tapCount \/ (u > 0 /\ tapCount' =< tapCount + 1)
    BY <1>1, <1>5, <1>6 DEF Dial!Capped, TurnTypes
<1>13. tapAge' = -1 => tapCount' = 0 \/ (tapAge = -1 /\ tapCount' = tapCount)
    BY <1>1, <1>5 DEF Dial!Capped, TurnTypes
<1>14. fired' \cap {"hold", "factory_reset"} = Dial!HoldFired(d, u)
    BY <1>1, <1>7, <1>8
<1> QED
    BY <1>1, <1>10, <1>11, <1>12, <1>13, <1>14

(* The ring keeps up with the length of the press. *)
LEMMA TurnShows ==
    ASSUME DialAssumption, TurnTypes, HoldShown, NEW d \in Nat, NEW u \in Nat,
           Dial!Turn(d, u)
    PROVE  HoldShown'
<1> USE DialConstants
<1>1. TurnTypes' /\ btnAge' = Dial!AfterEdges(d, u)
    BY TurnTypesStep
<1>2. PICK ap \in BOOLEAN, playing \in BOOLEAN :
        /\ bootAge' = Dial!Older(bootAge, BootDone) /\ led' = ap
        /\ shown' \in Dial!Shown(ap, playing, btnAge')
    BY DEF Dial!Turn
<1>3. btnAge' =< 0 \/ btnAge' =< btnAge + 1
    <2>1. Dial!Older(btnAge, Dial!Cap) =< btnAge + 1
        BY OlderType DEF TurnTypes
    <2> QED
        BY <1>1, <2>1 DEF Dial!AfterEdges, Dial!PressedAt
<1>4. bootAge' < BootDone => btnAge' =< bootAge'
    <2>1. bootAge < BootDone => bootAge' = bootAge + 1
        BY <1>2, OlderType DEF TurnTypes
    <2>2. bootAge = BootDone => bootAge' = BootDone
        BY <1>2, OlderType DEF TurnTypes
    <2> QED
        BY <1>1, <1>3, <2>1, <2>2 DEF HoldShown, TurnTypes
<1>5. ASSUME btnAge' >= ArmShow, ~ led', ~ (bootAge' < BootDone)
      PROVE  shown' = Dial!ArmTier(btnAge')
    <2>1. btnAge' \in Int /\ ~ ap
        BY <1>1, <1>2, <1>5 DEF TurnTypes
    <2> QED
        BY <1>2, <1>5, <2>1, ArmingShown
<1> QED
    BY <1>4, <1>5 DEF HoldShown

(* Presses and releases alternate. *)
LEMMA Changes ==
    ASSUME NEW k \in Nat, up \in BOOLEAN
    PROVE  /\ Dial!Presses(k) \in Nat /\ Dial!Releases(k) \in Nat
           /\ Dial!UpAfter(k) \in BOOLEAN
           /\ Dial!Releases(k) = 0 /\ Dial!Presses(k) = 0 => k = 0 /\ Dial!UpAfter(k) = up
           /\ Dial!Releases(k) = 0 /\ Dial!Presses(k) > 0 => k = 1 /\ ~ Dial!UpAfter(k)
           /\ Dial!Releases(k) > 0 /\ Dial!Presses(k) = 0 => ~ up
           /\ Dial!Presses(k) > 4 /\ Dial!Releases(k) =< 4 => up
<1>1. Dial!UpAfter(k) = IF k % 2 = 0 THEN up ELSE ~ up
    BY DEF Dial!UpAfter
<1>2. 0 % 2 = 0 /\ 1 % 2 # 0
    OBVIOUS
<1>3. Dial!UpAfter(k) \in BOOLEAN /\ (k = 0 => Dial!UpAfter(k) = up)
    BY <1>1, <1>2
<1>4. k = 1 /\ up => ~ Dial!UpAfter(k)
    BY <1>1, <1>2
<1>5. CASE up
    <2>1. Dial!Presses(k) = (k + 1) \div 2 /\ Dial!Releases(k) = k - (k + 1) \div 2
        BY <1>5 DEF Dial!Presses, Dial!Releases
    <2>2. Dial!Presses(k) \in Nat /\ Dial!Releases(k) \in Nat
        BY <2>1
    <2>3. Dial!Releases(k) = 0 => k = 0 \/ k = 1
        BY <2>1
    <2>4. (Dial!Presses(k) = 0 => k = 0) /\ (k = 0 => Dial!Presses(k) = 0)
        BY <2>1
    <2>5. k = 0 => Dial!Releases(k) = 0
        BY <2>1
    <2>6. Dial!Releases(k) = 0 /\ Dial!Presses(k) > 0 => k = 1
        BY <2>2, <2>3, <2>4
    <2>7. ~ (Dial!Releases(k) > 0 /\ Dial!Presses(k) = 0)
        BY <2>2, <2>4, <2>5
    <2> QED
        BY <1>3, <1>4, <1>5, <2>2, <2>3, <2>4, <2>6, <2>7
<1>6. CASE ~ up
    <2>1. Dial!Presses(k) = k \div 2 /\ Dial!Releases(k) = k - k \div 2
        BY <1>6 DEF Dial!Presses, Dial!Releases
    <2>2. Dial!Presses(k) \in Nat /\ Dial!Releases(k) \in Nat
        BY <2>1
    <2>3. Dial!Releases(k) = 0 => k = 0
        BY <2>1
    <2>4. k = 0 => Dial!Presses(k) = 0
        BY <2>1
    <2>5. Dial!Presses(k) > 4 => Dial!Releases(k) > 4
        BY <2>1
    <2>6. ~ (Dial!Releases(k) = 0 /\ Dial!Presses(k) > 0)
        BY <2>2, <2>3, <2>4
    <2>7. ~ (Dial!Presses(k) > 4 /\ Dial!Releases(k) =< 4)
        BY <2>2, <2>5
    <2> QED
        BY <1>3, <1>6, <2>2, <2>3, <2>6, <2>7
<1> QED
    BY <1>5, <1>6

(* What all three kinds of poll have in common. *)
LEMMA UserStep ==
    ASSUME DialAssumption, NEW k \in 0..Toggles, DialInv, Dial!User(k)
    PROVE  /\ k \in Nat
           /\ up' = Dial!UpAfter(k) /\ up' \in BOOLEAN /\ held' \in 0..Dial!Cap /\ realUps' \in 0..5
           /\ k = 0 /\ held < Dial!Cap => held' = held + 1
           /\ k = 0 /\ held = Dial!Cap => held' = held
           /\ cntUp > 0 => realUps' > tapCount
           /\ realUps' >= tapCount
           /\ Dial!Releases(k) > 0 => realUps' > tapCount
<1> USE DialConstants
<1>1. up \in BOOLEAN /\ held \in 0..Dial!Cap /\ tapCount \in 0..3 /\ cntUp \in Nat
    BY DEF DialInv, DialTypeOK
<1>2. k \in Nat
    OBVIOUS
<1>3. Dial!Releases(k) \in Nat /\ Dial!UpAfter(k) \in BOOLEAN
    BY <1>1, <1>2, Changes
<1>4. up' = Dial!UpAfter(k) /\ up' \in BOOLEAN
    BY <1>3 DEF Dial!User
<1>5. held' = IF k = 0 THEN Dial!Capped(held + 1, Dial!Cap) ELSE 0
    BY DEF Dial!User
<1>6. realUps' = IF tapAge = -1 /\ cntUp = 0 THEN Dial!Capped(Dial!Releases(k), 5)
                 ELSE Dial!Capped(realUps + Dial!Releases(k), 5)
    BY DEF Dial!User
<1>7. /\ held' \in 0..Dial!Cap
      /\ k = 0 /\ held < Dial!Cap => held' = held + 1
      /\ k = 0 /\ held = Dial!Cap => held' = held
    BY <1>1, <1>5 DEF Dial!Capped
<1>8. TapsCounted /\ realUps \in 0..5
    BY DEF DialInv
<1>9. CASE tapAge = -1 /\ cntUp = 0
    <2>1. tapCount = 0 /\ realUps' = Dial!Capped(Dial!Releases(k), 5)
        BY <1>6, <1>8, <1>9 DEF TapsCounted
    <2> QED
        BY <1>2, <1>3, <1>4, <1>7, <1>9, <2>1 DEF Dial!Capped
<1>10. CASE ~ (tapAge = -1 /\ cntUp = 0)
    <2>1. realUps' = Dial!Capped(realUps + Dial!Releases(k), 5)
        BY <1>6, <1>10
    <2>2. tapCount =< realUps /\ (cntUp > 0 => tapCount < realUps)
        BY <1>8 DEF TapsCounted
    <2>3. realUps' \in 0..5 /\ realUps' >= tapCount
        BY <1>1, <1>3, <1>8, <2>1, <2>2 DEF Dial!Capped
    <2>4. cntUp > 0 => realUps' > tapCount
        BY <1>1, <1>3, <1>8, <2>1, <2>2 DEF Dial!Capped
    <2>5. Dial!Releases(k) > 0 => realUps' > tapCount
        BY <1>1, <1>3, <1>8, <2>1, <2>2 DEF Dial!Capped
    <2> QED
        BY <1>2, <1>4, <1>7, <2>3, <2>4, <2>5
<1> QED
    BY <1>9, <1>10

(* A hold that is fired was of a press known before, of that length less a poll. *)
LEMMA FiredLong ==
    ASSUME DialAssumption, NEW d \in Nat, NEW u \in Nat, btnAge \in -1..Dial!Cap
    PROVE  /\ Dial!HoldFired(d, u) # {} => u > 0 /\ d = 0
           /\ "hold" \in Dial!HoldFired(d, u) => btnAge >= HoldWifi - 1 /\ btnAge < HoldReset
           /\ "factory_reset" \in Dial!HoldFired(d, u) => btnAge >= HoldReset - 1
<1> USE DialConstants
<1>1. Dial!HoldOf(0) = {}
    BY DEF Dial!HoldOf
<1>2. Dial!HoldFired(d, u) # {} => u > 0 /\ d = 0 /\ Dial!HoldFired(d, u) = Dial!HoldOf(Dial!Older(btnAge, Dial!Cap))
    BY <1>1 DEF Dial!HoldFired, Dial!PressedAt
<1>3. /\ Dial!Older(btnAge, Dial!Cap) \in -1..Dial!Cap
      /\ Dial!Older(btnAge, Dial!Cap) =< btnAge + 1 /\ Dial!Older(btnAge, Dial!Cap) >= btnAge
    BY OlderType
<1> QED
    BY <1>2, <1>3 DEF Dial!HoldOf

LongEnough == LET least == IF "factory_reset" \in fired' THEN HoldReset ELSE HoldWifi
              IN held >= least - 1
Announced ==
    /\ "hold" \in fired' => led \/ shown \in {"arm-wifi", "arm-reset"}
    /\ "factory_reset" \in fired' => led \/ shown \in {"arm-reset", "arm-solid"}

LEMMA AnnouncedStep ==
    ASSUME DialAssumption, DialInv, NEW d \in Nat, NEW u \in Nat,
           Dial!Turn(d, u)
    PROVE  Announced
<1> USE DialConstants
<1>1. btnAge \in -1..Dial!Cap /\ bootAge \in 0..BootDone /\ HoldShown
    BY DEF DialInv, DialTypeOK
<1>2. TurnTypes
    BY DEF DialInv, DialTypeOK, TurnTypes
<1>3. fired' \cap {"hold", "factory_reset"} = Dial!HoldFired(d, u)
    BY <1>2, TurnTypesStep
<1>4. ASSUME "hold" \in fired', ~ led PROVE shown \in {"arm-wifi", "arm-reset"}
    <2>1. btnAge >= HoldWifi - 1 /\ btnAge < HoldReset
        BY <1>1, <1>3, <1>4, FiredLong
    <2>2. shown = Dial!ArmTier(btnAge)
        BY <1>1, <1>4, <2>1 DEF HoldShown
    <2> QED
        BY <1>1, <2>1, <2>2 DEF Dial!ArmTier
<1>5. ASSUME "factory_reset" \in fired', ~ led PROVE shown \in {"arm-reset", "arm-solid"}
    <2>1. btnAge >= HoldReset - 1
        BY <1>1, <1>3, <1>5, FiredLong
    <2>2. shown = Dial!ArmTier(btnAge)
        BY <1>1, <1>5, <2>1 DEF HoldShown
    <2> QED
        BY <1>1, <2>1, <2>2 DEF Dial!ArmTier
<1> QED
    BY <1>4, <1>5 DEF Announced

(* The parts of the invariant that every kind of poll keeps in the same way. *)
LEMMA TurnKeeps ==
    ASSUME DialAssumption, DialInv, NEW k \in 0..Toggles, Dial!User(k),
           NEW d \in Nat, NEW u \in Nat, Dial!Turn(d, u),
           u > 0 => cntUp + Dial!Releases(k) > 0,
           cntUp' > 0 => cntUp + Dial!Releases(k) > 0 /\ u = 0
    PROVE  TurnTypes' /\ HoldShown' /\ TapsCounted' /\ Announced
<1> USE DialConstants
<1>1. TurnTypes /\ HoldShown /\ TapsCounted /\ tapCount \in 0..3 /\ cntUp \in Nat
    BY DEF DialInv, DialTypeOK, TurnTypes
<1>2. TurnTypes' /\ HoldShown' /\ Announced
    BY <1>1, TurnTypesStep, TurnShows, AnnouncedStep
<1>3. Dial!Releases(k) \in Nat
    BY Changes DEF DialInv, DialTypeOK
<1>4. /\ realUps' \in 0..5 /\ realUps' >= tapCount
      /\ cntUp + Dial!Releases(k) > 0 => realUps' > tapCount
    BY <1>1, <1>3, UserStep
<1>5. /\ tapCount' > 0 => tapCount' =< tapCount \/ (u > 0 /\ tapCount' =< tapCount + 1)
      /\ tapAge' = -1 => tapCount' = 0 \/ (tapAge = -1 /\ tapCount' = tapCount)
      /\ tapCount' \in 0..3
    BY <1>1, <1>2, TurnTypesStep DEF TurnTypes
<1>6. tapAge' = -1 => tapCount' = 0
    BY <1>1, <1>5 DEF TapsCounted
<1>7. tapCount' =< realUps'
    BY <1>1, <1>4, <1>5
<1>8. cntUp' > 0 => tapCount' < realUps'
    BY <1>1, <1>4, <1>5
<1> QED
    BY <1>2, <1>6, <1>7, <1>8 DEF TapsCounted

LEMMA ServedStep ==
    ASSUME DialAssumption, DialInv, NEW k \in 0..Toggles, Dial!User(k), Dial!PollServed(k),
           unheard' = Dial!Waiting
    PROVE  DialInv' /\ HoldsMeant /\ Announced
<1> USE DialConstants
<1> DEFINE d == cntDown + Dial!Presses(k)
           u == cntUp + Dial!Releases(k)
<1>1. /\ k \in Nat /\ up \in BOOLEAN /\ cntDown \in Nat /\ cntUp \in Nat
      /\ Dial!Presses(k) \in Nat /\ Dial!Releases(k) \in Nat /\ d \in Nat /\ u \in Nat
      /\ whole \in BOOLEAN /\ btnAge \in -1..Dial!Cap /\ held \in 0..Dial!Cap
    BY Changes DEF DialInv, DialTypeOK
<1>2. /\ Dial!Turn(Dial!Sane(d), Dial!Sane(u))
      /\ Dial!Ask(Dial!Sane(d) + Dial!Sane(u) > 0, 0)
    BY DEF Dial!PollServed
<1>3. /\ cntDown' = 0 /\ cntUp' = 0 /\ asked
      /\ whole' = ((whole /\ d =< 4 /\ u =< 4) \/ (Dial!UpAfter(k) /\ btnAge' = -1))
    BY DEF Dial!PollServed
<1>4. /\ Dial!Sane(d) \in Nat /\ Dial!Sane(u) \in Nat
      /\ Dial!Sane(d) = IF d > 4 THEN 0 ELSE d
      /\ Dial!Sane(u) = IF u > 4 THEN 0 ELSE u
    BY <1>1 DEF Dial!Sane
<1>5. Dial!Sane(u) > 0 => u > 0
    BY <1>1, <1>4
<1> HIDE DEF d, u
<1>6. TurnTypes' /\ HoldShown' /\ TapsCounted' /\ Announced
    BY <1>1, <1>2, <1>3, <1>4, <1>5, TurnKeeps DEF u
<1>7. unheard' = 0
    BY <1>3 DEF Dial!Waiting
<1>8. asked' \in BOOLEAN /\ failures' \in 0..Flaky
    <2>1. (asked' = TRUE /\ failures' = 0) \/ (asked' = FALSE /\ 0 < Flaky /\ failures' = 0 + 1)
        BY <1>2 DEF Dial!Ask, Dial!Request
    <2>2. asked' \in BOOLEAN
        BY <2>1
    <2>3. failures' = 0 \/ (0 < Flaky /\ failures' = 1)
        BY <2>1
    <2>4. Flaky \in Nat
        OBVIOUS
    <2> QED
        BY <2>2, <2>3, <2>4
<1>9. unheard' =< Late'
    <2>1. 2 * failures' + 1 >= 0 /\ 2 * failures' >= 0
        <3>1. failures' \in Nat
            BY <1>8
        <3>2. \A n \in Nat : 2 * n + 1 >= 0 /\ 2 * n >= 0
            OBVIOUS
        <3> QED
            BY <3>1, <3>2
    <2>2. Late' = IF asked' THEN 2 * failures' + 1 ELSE 2 * failures'
        BY DEF Late
    <2> QED
        BY <1>7, <2>1, <2>2
<1>10. /\ up' = Dial!UpAfter(k) /\ up' \in BOOLEAN /\ held' \in 0..Dial!Cap /\ realUps' \in 0..5
       /\ k = 0 /\ held < Dial!Cap => held' = held + 1
       /\ k = 0 /\ held = Dial!Cap => held' = held
    BY UserStep
<1>11. btnAge' = Dial!AfterEdges(Dial!Sane(d), Dial!Sane(u)) /\ btnAge' \in -1..Dial!Cap
    <2>1. TurnTypes
        BY DEF DialInv, DialTypeOK, TurnTypes
    <2> QED
        BY <1>2, <1>4, <1>6, <2>1, TurnTypesStep DEF TurnTypes
<1>12. ASSUME whole', btnAge' # -1 PROVE ~ up' /\ held' >= btnAge'
    <2>1. whole /\ d =< 4 /\ u =< 4
        <3>1. ~ (Dial!UpAfter(k) /\ btnAge' = -1)
            BY <1>12
        <3> QED
            BY <1>3, <1>12, <3>1
    <2>2. /\ cntDown = 0 /\ cntUp = 0 /\ d = Dial!Presses(k) /\ u = Dial!Releases(k)
          /\ btnAge # -1 => ~ up /\ held >= btnAge
        BY <1>1, <2>1 DEF DialInv, PressKnown, d, u
    <2>3. u = 0 /\ Dial!Sane(u) = 0 /\ Dial!Sane(d) = d
        BY <1>1, <1>4, <1>11, <1>12, <2>1 DEF Dial!AfterEdges
    <2>4. CASE d > 0
        <3>1. btnAge' = 0
            BY <1>11, <2>3, <2>4 DEF Dial!AfterEdges, Dial!PressedAt
        <3>2. ~ up'
            BY <1>1, <1>10, <2>2, <2>3, <2>4, Changes
        <3> QED
            BY <1>10, <3>1, <3>2
    <2>5. CASE d = 0
        <3>1. k = 0 /\ up' = up
            BY <1>1, <1>10, <2>2, <2>3, <2>5, Changes
        <3>2. btnAge' = Dial!Older(btnAge, Dial!Cap)
            BY <1>11, <2>3, <2>5 DEF Dial!AfterEdges, Dial!PressedAt
        <3>3. btnAge # -1 /\ btnAge' =< btnAge + 1
            BY <1>1, <1>12, <3>2, OlderType
        <3>4. ~ up /\ held >= btnAge
            BY <2>2, <3>3
        <3> QED
            BY <1>1, <1>10, <1>11, <3>1, <3>3, <3>4
    <2> QED
        BY <1>1, <2>4, <2>5
<1>13. DialInv'
    <2>1. DialTypeOK'
        BY <1>3, <1>6, <1>8, <1>10, <1>11, <1>1 DEF DialTypeOK, TurnTypes
    <2>2. PressKnown'
        BY <1>3, <1>12 DEF PressKnown
    <2> QED
        BY <1>6, <1>7, <1>9, <1>10, <2>1, <2>2 DEF DialInv
<1>14. ASSUME whole, fired' \cap {"hold", "factory_reset"} # {} PROVE ~ up /\ LongEnough
    <2>1. fired' \cap {"hold", "factory_reset"} = Dial!HoldFired(Dial!Sane(d), Dial!Sane(u))
        <3>1. TurnTypes
            BY DEF DialInv, DialTypeOK, TurnTypes
        <3> QED
            BY <1>2, <1>4, <3>1, TurnTypesStep
    <2>2. /\ Dial!Sane(u) > 0 /\ Dial!Sane(d) = 0
          /\ "hold" \in fired' => btnAge >= HoldWifi - 1
          /\ "factory_reset" \in fired' => btnAge >= HoldReset - 1
        BY <1>1, <1>4, <1>14, <2>1, FiredLong
    <2>3. btnAge # -1
        BY <1>14, <2>2
    <2>4. ~ up /\ held >= btnAge
        BY <1>14, <2>3 DEF DialInv, PressKnown
    <2>5. "hold" \in fired' \/ "factory_reset" \in fired'
        BY <1>14
    <2> QED
        BY <1>1, <2>2, <2>4, <2>5 DEF LongEnough
<1>15. HoldsMeant
    BY <1>14 DEF HoldsMeant, LongEnough
<1> QED
    BY <1>6, <1>13, <1>15

LEMMA WaitingType ==
    ASSUME DialAssumption, unheard \in Nat, cntDown' \in Nat, cntUp' \in Nat
    PROVE  Dial!Waiting \in Nat /\ Dial!Waiting =< unheard + 1
<1>1. 2 * Flaky + 3 \in Nat
    BY DialConstants
<1>2. Dial!Waiting = 0 \/ Dial!Waiting = Dial!Capped(unheard + 1, 2 * Flaky + 3)
    BY DEF Dial!Waiting
<1>3. /\ Dial!Capped(unheard + 1, 2 * Flaky + 3) \in Nat
      /\ Dial!Capped(unheard + 1, 2 * Flaky + 3) =< unheard + 1
    BY <1>1 DEF Dial!Capped
<1> QED
    BY <1>2, <1>3

(* No frame, or a transfer that fails: nothing is learnt. *)
LEMMA MissedStep ==
    ASSUME DialAssumption, DialInv, NEW k \in 0..Toggles, Dial!User(k),
           Dial!PollUnserved(k) \/ Dial!PollFails(k), unheard' = Dial!Waiting
    PROVE  DialInv' /\ HoldsMeant /\ Announced
<1> USE DialConstants
<1>1. /\ k \in Nat /\ up \in BOOLEAN /\ cntDown \in 0..5 /\ cntUp \in 0..5
      /\ failures \in 0..Flaky /\ unheard \in Nat /\ unheard =< Late
      /\ Dial!Presses(k) \in Nat /\ Dial!Releases(k) \in Nat
    <2>1. /\ k \in Nat /\ up \in BOOLEAN /\ cntDown \in 0..5 /\ cntUp \in 0..5
          /\ failures \in 0..Flaky /\ unheard \in Nat /\ unheard =< Late
        BY DEF DialInv, DialTypeOK
    <2> QED
        BY <2>1, Changes
<1>2. Dial!Turn(0, 0) /\ whole' = FALSE
    BY DEF Dial!PollUnserved, Dial!PollFails
<1>3. (cntDown' = 0 /\ cntUp' = 0) \/ Dial!Counting(k)
    BY DEF Dial!PollUnserved, Dial!PollFails
<1>4. /\ cntDown' \in 0..5 /\ cntUp' \in 0..5
      /\ cntUp' > 0 => cntUp + Dial!Releases(k) > 0
    BY <1>1, <1>3 DEF Dial!Counting, Dial!Capped
<1>5. TurnTypes' /\ HoldShown' /\ TapsCounted' /\ Announced
    <2>1. 0 > 0 => cntUp + Dial!Releases(k) > 0
        OBVIOUS
    <2> QED
        BY <1>2, <1>4, <2>1, TurnKeeps
<1>6. /\ asked' = TRUE \/ asked' = FALSE
      /\ failures' \in 0..Flaky
      /\ unheard + 1 =< IF asked' = TRUE THEN 2 * failures' + 1 ELSE 2 * failures'
    <2>1. CASE Dial!PollUnserved(k)
        <3>1. /\ ~ asked
              /\ \/ asked' = TRUE /\ failures' = failures
                 \/ asked' = FALSE /\ failures < Flaky /\ failures' = failures + 1
            BY <2>1 DEF Dial!PollUnserved, Dial!Ask, Dial!Request
        <3>2. unheard =< 2 * failures
            BY <1>1, <3>1 DEF Late
        <3> QED
            BY <1>1, <3>1, <3>2
    <2>2. CASE Dial!PollFails(k)
        <3>1. asked' \in {TRUE, FALSE} /\ failures < Flaky /\ failures' = failures + 1
            BY <2>2 DEF Dial!PollFails, Dial!Request
        <3>2. unheard =< 2 * failures + 1
            BY <1>1 DEF Late
        <3> QED
            BY <1>1, <3>1, <3>2
    <2> QED
        BY <2>1, <2>2
<1>7. unheard' \in Nat /\ unheard' =< Late'
    <2>1. unheard' \in Nat /\ unheard' =< unheard + 1
        BY <1>1, <1>4, WaitingType
    <2>2. unheard + 1 =< Late'
        BY <1>6 DEF Late
    <2>3. Late' \in Int
        BY <1>6 DEF Late
    <2> QED
        BY <1>1, <2>1, <2>2, <2>3
<1>8. up' \in BOOLEAN /\ held' \in 0..Dial!Cap /\ realUps' \in 0..5
    BY UserStep
<1>9. DialTypeOK'
    <2>1. asked' \in BOOLEAN /\ whole' \in BOOLEAN
        BY <1>2, <1>6
    <2> QED
        BY <1>4, <1>5, <1>6, <1>8, <2>1 DEF DialTypeOK, TurnTypes
<1>10. PressKnown'
    BY <1>2 DEF PressKnown
<1>11. HoldsMeant
    <2>1. Dial!HoldFired(0, 0) = {}
        BY DEF Dial!HoldFired
    <2>2. TurnTypes
        BY DEF DialInv, DialTypeOK, TurnTypes
    <2>3. fired' \cap {"hold", "factory_reset"} = {}
        BY <1>2, <2>1, <2>2, TurnTypesStep
    <2> QED
        BY <2>3 DEF HoldsMeant
<1> QED
    BY <1>5, <1>7, <1>8, <1>9, <1>10, <1>11 DEF DialInv

(* Where the dial does not run, nothing is fired. *)
DialState == DialInv /\ (device = "dial" \/ fired = {})

LEMMA DialStateStep ==
    DialAssumption /\ DialState /\ [Next]_vars =>
        DialState' /\ [HoldsMeant]_vars /\ [Announced]_vars
<1> SUFFICES ASSUME DialAssumption, DialState, [Next]_vars
             PROVE  DialState' /\ [HoldsMeant]_vars /\ [Announced]_vars
    OBVIOUS
<1> USE DEF DialState
<1>1. CASE device = "dial" /\ Dial!DialNext /\ UNCHANGED device
    <2>1. PICK k \in 0..Toggles :
            /\ Dial!User(k) /\ unheard' = Dial!Waiting
            /\ Dial!PollServed(k) \/ Dial!PollUnserved(k) \/ Dial!PollFails(k)
        BY <1>1 DEF Dial!DialNext, Dial!Poll
    <2>2. DialInv' /\ HoldsMeant /\ Announced
        BY <2>1, ServedStep, MissedStep
    <2> QED
        BY <1>1, <2>2
<1>2. UNCHANGED dialState => DialInv'
    <2> SUFFICES ASSUME UNCHANGED dialState PROVE DialInv'
        OBVIOUS
    <2> USE DEF dialState
    <2>1. DialTypeOK' /\ realUps' \in 0..5
        BY DEF DialInv, DialTypeOK
    <2>2. unheard' \in Nat /\ unheard' =< Late'
        BY DEF DialInv, Late
    <2>3. TapsCounted' /\ PressKnown' /\ HoldShown'
        BY DEF DialInv, TapsCounted, PressKnown, HoldShown
    <2> QED
        BY <2>1, <2>2, <2>3 DEF DialInv
<1>3. CASE device # "dial" /\ UNCHANGED <<device, dialState>>
    <2>1. fired' = {}
        BY <1>3 DEF dialState
    <2> QED
        BY <1>2, <1>3, <2>1 DEF HoldsMeant, Announced
<1>4. CASE UNCHANGED vars
    <2>1. UNCHANGED dialState /\ fired' = fired /\ device' = device
        BY <1>4 DEF vars, dialState
    <2> QED
        BY <1>2, <1>4, <2>1
<1> QED
    BY <1>1, <1>3, <1>4, StepOfDial

(* At power-on. *)
LEMMA DialStateInit == DialAssumption /\ Init => DialState
<1> SUFFICES ASSUME DialAssumption, Init PROVE DialState
    OBVIOUS
<1> USE DialConstants DEF Init, Dial!DialInit
<1>1. DialTypeOK
    <2>1. /\ up \in BOOLEAN /\ asked \in BOOLEAN /\ led \in BOOLEAN /\ whole \in BOOLEAN
        OBVIOUS
    <2>2. btnAge \in -1..Dial!Cap /\ tapAge \in -1..MultiTap
        OBVIOUS
    <2> QED
        BY <2>1, <2>2 DEF DialTypeOK
<1>2. unheard \in Nat /\ unheard =< Late
    BY DEF Late
<1>3. TapsCounted /\ PressKnown /\ HoldShown
    BY DEF TapsCounted, PressKnown, HoldShown
<1> QED
    BY <1>1, <1>2, <1>3 DEF DialState, DialInv

(* For any thresholds, and any number of failed transfers: what the user did is not
   waited for longer than two polls for each failure, and one. *)
THEOREM HeardTheorem == DialAssumption => (Spec => []Heard)
<1> SUFFICES ASSUME DialAssumption PROVE Spec => []Heard
    OBVIOUS
<1>1. Init => DialState
    BY DialStateInit
<1>2. DialState /\ [Next]_vars => DialState'
    BY DialStateStep
<1>3. DialState => Heard
    <2> SUFFICES ASSUME DialState PROVE unheard =< 2 * Flaky + 1
        BY DEF Heard
    <2>1. failures \in 0..Flaky /\ unheard =< Late /\ unheard \in Nat /\ Flaky \in Nat
        BY DialConstants DEF DialState, DialInv, DialTypeOK
    <2>2. Late =< 2 * failures + 1 /\ Late \in Int
        BY <2>1 DEF Late
    <2> QED
        BY <2>1, <2>2
<1> QED
    BY <1>1, <1>2, <1>3, PTL DEF Spec

(* For any thresholds, however polls and presses meet: no more taps are counted than
   there were releases, and no hold or reset fires on a button that was not down, all
   the time but a poll, for as long as it asks. *)
THEOREM NoPhantomTheorem == DialAssumption => (Spec => NoPhantom)
<1> SUFFICES ASSUME DialAssumption PROVE Spec => NoPhantom
    OBVIOUS
<1>1. Init => DialState
    BY DialStateInit
<1>2. DialState /\ [Next]_vars => DialState'
    BY DialStateStep
<1>3. DialState => TapsMeant
    BY DEF DialState, DialInv, TapsCounted, TapsMeant
<1>4. DialState /\ [Next]_vars => [HoldsMeant]_vars
    BY DialStateStep
<1> QED
    BY <1>1, <1>2, <1>3, <1>4, PTL DEF Spec, NoPhantom

(* For any thresholds in order: nothing is fired by a hold that the ring, if it was
   the dial's to draw on, had not announced a poll before. *)
THEOREM ArmedTheorem == DialAssumption => (Spec => Armed)
<1> SUFFICES ASSUME DialAssumption PROVE Spec => Armed
    OBVIOUS
<1>1. Init => DialState
    BY DialStateInit
<1>2. DialState /\ [Next]_vars => DialState'
    BY DialStateStep
<1>3. DialState /\ [Next]_vars =>
        [/\ "hold" \in fired' => led \/ shown \in {"arm-wifi", "arm-reset"}
         /\ "factory_reset" \in fired' => led \/ shown \in {"arm-reset", "arm-solid"}]_vars
    BY DialStateStep DEF Announced
<1> QED
    BY <1>1, <1>2, <1>3, PTL DEF Spec, Armed

-----------------------------------------------------------------------------
(* The pictures of the LED ring.  A head, and how far behind it an LED is. *)
LEMMA Behind ==
    ASSUME NEW h \in Int, NEW i \in Int
    PROVE  (h - i) % 24 \in 0..23
OBVIOUS

LEMMA CometAt ==
    ASSUME NEW f \in Nat, NEW i \in Leds!Leds
    PROVE  LET d == ((f % 24) - i) % 24
           IN /\ d \in 0..23
              /\ Leds!SetupComet(f)[i] = IF d = 0 THEN 255 ELSE IF d = 1 THEN 130
                     ELSE IF d = 2 THEN 55 ELSE IF d = 3 THEN 22 ELSE IF d = 4 THEN 8 ELSE 0
<1> DEFINE d == ((f % 24) - i) % 24  t == <<255, 130, 55, 22, 8>>
<1>1. d \in 0..23
    BY Behind DEF Leds!Leds, Leds!NLed
<1>2. Len(t) = 5 /\ t[1] = 255 /\ t[2] = 130 /\ t[3] = 55 /\ t[4] = 22 /\ t[5] = 8
    OBVIOUS
<1>3. Leds!SetupComet(f)[i] = IF d < Len(t) THEN t[d + 1] ELSE 0
    BY DEF Leds!SetupComet, Leds!Comet, Leds!NLed
<1> HIDE DEF d, t
<1>4. Leds!SetupComet(f)[i] = IF d = 0 THEN 255 ELSE IF d = 1 THEN 130
          ELSE IF d = 2 THEN 55 ELSE IF d = 3 THEN 22 ELSE IF d = 4 THEN 8 ELSE 0
    BY <1>1, <1>2, <1>3
<1> QED
    BY <1>1, <1>4 DEF d

LEMMA CometShown == \A f \in Nat, i \in Leds!Leds : Leds!SetupComet(f)[i] \in 0..255
BY CometAt, SMTT(30)

LEMMA OrbitShown ==
    ASSUME NEW f \in Nat, NEW i \in Leds!Leds
    PROVE  Leds!Orbit(f)[i] \in {255, 70, 10}
BY DEF Leds!Orbit

(* Two heads that meet: the LED is off, on one of the tails, or in the flash. *)
LEMMA StoreShown ==
    ASSUME NEW i, NEW a, NEW b
    PROVE  Leds!LastStore(i, a, b) \in {255, 110, 40, 0}
<1> DEFINE here == {d \in 0..2 : (a - d) % 24 = i \/ (b + d) % 24 = i}
<1>1. Leds!LastStore(i, a, b) =
          IF here = {} THEN 0 ELSE Leds!JoinTail[1 + CHOOSE d \in here : \A e \in here : e <= d]
    BY DEF Leds!LastStore, Leds!NLed
<1>2. here \subseteq 0..2
    OBVIOUS
<1> HIDE DEF here
<1>3. CASE here # {}
    <2>1. \E d \in here : \A e \in here : e <= d
        <3>1. PICK x \in here : TRUE
            BY <1>3
        <3>2. 2 \in here \/ 1 \in here \/ 0 \in here
            BY <1>2, <3>1
        <3> QED
            BY <1>2, <3>2
    <2> DEFINE c == CHOOSE d \in here : \A e \in here : e <= d
    <2>2. c \in 0..2
        BY <1>2, <2>1
    <2> HIDE DEF c
    <2>3. Leds!JoinTail[1 + c] \in {255, 110, 40}
        BY <2>2 DEF Leds!JoinTail
    <2> QED
        BY <1>1, <1>3, <2>3 DEF c
<1> QED
    BY <1>1, <1>3

LEMMA JoiningShown ==
    ASSUME NEW f \in Nat
    PROVE  \/ \A i \in Leds!Leds : Leds!Joining(f)[i] \in {255, 110, 40, 0}
           \/ \E into \in 0..9 : \A i \in Leds!Leds :
                  Leds!Joining(f)[i] = 255 - (into * 255) \div 10
<1> DEFINE into == (f % 22) - 12
<1>1. into \in Int /\ into <= 9
    OBVIOUS
<1>2. \A i \in Leds!Leds : Leds!Joining(f)[i] =
          IF into < 0 THEN Leds!LastStore(i, f % 22, (24 - (f % 22)) % 24)
          ELSE 255 - (into * 255) \div 10
    BY DEF Leds!Joining, Leds!NLed
<1> HIDE DEF into
<1> QED
    BY <1>1, <1>2, StoreShown

LEMMA JoiningInByte == \A f \in Nat, i \in Leds!Leds : Leds!Joining(f)[i] \in 0..255
<1>1. \A into \in 0..9 : 255 - (into * 255) \div 10 \in 0..255
    OBVIOUS
<1> QED
    BY <1>1, JoiningShown

LEMMA TriangleShown ==
    /\ \A f \in Nat : Leds!Triangle(f, 84) \in 0..42
    /\ \A f \in Nat : Leds!Triangle(f, 120) \in 0..60
BY DEF Leds!Triangle

LEMMA BreathsShown ==
    ASSUME NEW f \in Nat, NEW i \in Leds!Leds
    PROVE  /\ Leds!Muted(f)[i] \in 8..50
           /\ Leds!Breathe(f)[i] \in 0..46 /\ (Leds!Breathe(f)[i] > 0 <=> i \in {12, 11})
           /\ Leds!Sleep(f)[i] \in 0..33 /\ (Leds!Sleep(f)[i] > 0 <=> i \in {12, 11})
<1>1. Leds!Triangle(f, 84) \in 0..42
    BY TriangleShown
<1>2. Leds!Triangle(f, 120) \div 2 \in 0..30
    BY TriangleShown
<1> QED
    BY <1>1, <1>2 DEF Leds!Muted, Leds!Breathe, Leds!Sleep, Leds!PairAt, Leds!BottomPair,
        Leds!Bottom

LEMMA PulseShown == \A ms \in Nat : Leds!PulseLevel(ms) \in 0..255
<1> TAKE ms \in Nat
<1> DEFINE x == IF ms < 175 THEN (ms * 255) \div 175 ELSE ((350 - ms) * 255) \div 175
<1>1. x \in Int
    OBVIOUS
<1>2. Leds!PulseLevel(ms) = Leds!Within(x, 0, 255)
    BY DEF Leds!PulseLevel
<1> HIDE DEF x
<1> QED
    BY <1>1, <1>2 DEF Leds!Within

LEMMA SparkShown ==
    ASSUME NEW life \in Nat, NEW age \in Nat
    PROVE  Leds!SparkLevel(life, age) \in 0..250
<1> DEFINE on == IF life \div 4 < 1 THEN 1 ELSE life \div 4
           x == IF age < on THEN (250 * age) \div on ELSE (250 * (life - age)) \div (life - on)
<1>1. on \in Nat \ {0}
    OBVIOUS
<1>2. Leds!SparkLevel(life, age) =
          IF age >= life THEN 0 ELSE Leds!Within(x, 0, 250)
    BY DEF Leds!SparkLevel, Leds!PartyCap
<1> HIDE DEF on
<1>3. ASSUME age < life, age < on PROVE (250 * age) \div on \in Int
    <2>1. 250 * age \in Int /\ (250 * age) \div on \in Int
        BY <1>1
    <2> QED
        BY <1>3, <2>1
<1>4. ASSUME age < life, age >= on PROVE (250 * (life - age)) \div (life - on) \in Int
    <2>1. life - on \in Nat \ {0} /\ 250 * (life - age) \in Int
        BY <1>1, <1>4
    <2>2. (250 * (life - age)) \div (life - on) \in Int
        BY <2>1
    <2> QED
        BY <1>4, <2>2
<1>5. age < life => x \in Int
    BY <1>1, <1>3, <1>4
<1> HIDE DEF x
<1>6. age < life => Leds!Within(x, 0, 250) \in 0..250
    BY <1>5 DEF Leds!Within
<1> QED
    BY <1>2, <1>6

LEMMA RangeOfShows == ASSUME frame \in Nat PROVE Leds!InRange
<1>1. ASSUME NEW show \in {Leds!SetupComet(frame), Leds!Orbit(frame), Leds!Joining(frame),
                           Leds!Muted(frame), Leds!Breathe(frame), Leds!Sleep(frame)},
             NEW i \in Leds!Leds
      PROVE  show[i] \in 0..255
    <2>1. /\ Leds!SetupComet(frame)[i] \in 0..255 /\ Leds!Joining(frame)[i] \in 0..255
          /\ Leds!Orbit(frame)[i] \in 0..255
        BY <1>1, CometShown, OrbitShown, JoiningInByte
    <2>2. /\ Leds!Muted(frame)[i] \in 0..255 /\ Leds!Breathe(frame)[i] \in 0..255
          /\ Leds!Sleep(frame)[i] \in 0..255
        BY <1>1, BreathsShown
    <2> QED
        BY <1>1, <2>1, <2>2
<1>2. frame % 392 \in Nat /\ 6 + (frame % 19) \in Nat /\ (frame \div 19) % 25 \in Nat
    OBVIOUS
<1> QED
    BY <1>1, <1>2, PulseShown, SparkShown, ZenonT(60) DEF Leds!InRange, Leds!PartyCap

(* The setup comet has an LED at 130, which no orbit and no join ever shows. *)
LEMMA CometApart ==
    ASSUME NEW f \in Nat, NEW g \in Nat
    PROVE  Leds!SetupComet(f) \notin {Leds!Orbit(g), Leds!Joining(g)}
<1> DEFINE h == f % 24  i == IF h = 0 THEN 23 ELSE h - 1
<1>1. h \in 0..23 /\ i \in 0..23 /\ (h - i) % 24 = 1
    OBVIOUS
<1>2. i \in Leds!Leds
    BY <1>1 DEF Leds!Leds, Leds!NLed
<1>3. Leds!SetupComet(f)[i] = 130
    BY <1>1, <1>2, CometAt
<1> HIDE DEF h, i
<1>4. Leds!Orbit(g)[i] # 130
    BY <1>2, OrbitShown
<1>5. Leds!Joining(g)[i] # 130
    <2>1. \A into \in 0..9 : 255 - (into * 255) \div 10 # 130
        OBVIOUS
    <2> QED
        BY <1>2, <2>1, JoiningShown
<1> QED
    BY <1>3, <1>4, <1>5

LEMMA Apart == ASSUME frame \in Nat PROVE Leds!ToldApart
<1>1. \A f \in 0..(Leds!NLed - 1) :
          Leds!SetupComet(f) \notin {Leds!Orbit(frame), Leds!Joining(frame)}
    BY CometApart DEF Leds!NLed
<1>2. \A i \in Leds!Leds : Leds!Breathe(frame)[i] > 0 <=> Leds!Sleep(frame)[i] > 0
    BY BreathsShown
<1> QED
    BY <1>1, <1>2 DEF Leds!ToldApart

(* What a hold has come to is on LED 23, whatever its length. *)
LEMMA LastLed ==
    ASSUME NEW ms \in Nat
    PROVE  Leds!ArmRing(ms)[23] = CASE Leds!Tier(ms) = 0 -> 6
                                      [] Leds!Tier(ms) = 1 -> 90
                                      [] OTHER -> 255
<1>1. 23 \in Leds!Leds
    BY DEF Leds!Leds, Leds!NLed
<1>2. CASE ms < 10000
    <2>1. ~ (23 < (ms * 24) \div 10000)
        BY <1>2
    <2> QED
        BY <1>1, <1>2, <2>1 DEF Leds!ArmRing, Leds!Filled, Leds!NLed, Leds!Tier
<1>3. CASE ms >= 10000 /\ ms < 30000
    <2>1. ~ (23 < ((ms - 10000) * 24) \div 20000)
        BY <1>3
    <2> QED
        BY <1>1, <1>3, <2>1 DEF Leds!ArmRing, Leds!Filled, Leds!NLed, Leds!Tier
<1>4. CASE ms >= 30000
    BY <1>1, <1>4 DEF Leds!ArmRing, Leds!Filled, Leds!NLed, Leds!Tier
<1> QED
    BY <1>2, <1>3, <1>4

LEMMA TiersShown ==
    \A a, b \in Nat : Leds!Tier(a) # Leds!Tier(b) => Leds!ArmRing(a) # Leds!ArmRing(b)
<1>1. \A a \in Nat : Leds!Tier(a) \in {0, 1, 2}
    BY DEF Leds!Tier
<1> QED
    BY <1>1, LastLed

(* A turn of one step is one LED, also when ALSA gives back a level beside it. *)
LEMMA OneStep ==
    ASSUME NEW percent \in 0..100, NEW step \in {-1, 1}, NEW off \in {-1, 0, 1}
    PROVE  Leds!Lit(Leds!Within(Leds!Turned(percent, step) + off, 0, 100)) =
               Leds!Within(Leds!Lit(percent) + step, 0, 24)
<1> DEFINE n == Leds!Within(Leds!Lit(percent) + step, 0, 24)
<1>1. n \in 0..24
    BY DEF Leds!Within, Leds!Lit, Leds!NLed
<1>2. Leds!Turned(percent, step) = (n * 100 + 12) \div 24
    BY DEF Leds!Turned, Leds!NLed
<1> HIDE DEF n
<1>3. (n * 100 + 12) \div 24 + off \in Int
    BY <1>1
<1>4. \A x \in Int : x = (n * 100 + 12) \div 24 + off => Leds!Lit(Leds!Within(x, 0, 100)) = n
    BY <1>1 DEF Leds!Lit, Leds!Within, Leds!NLed
<1> QED
    BY <1>2, <1>3, <1>4 DEF n

(* For every frame there ever is, and every two lengths of a hold. *)
LEMMA AllPictures ==
    ASSUME frame \in Nat
    PROVE  Leds!InRange /\ Leds!ToldApart /\ Leds!TiersDiffer /\ Leds!OneLed
<1>1. Leds!TiersDiffer
    <2>1. 4 * (frame % 8000) \in Nat
        OBVIOUS
    <2> QED
        BY <2>1, TiersShown DEF Leds!TiersDiffer
<1>2. Leds!OneLed
    <2>1. frame % 101 \in 0..100
        OBVIOUS
    <2> QED
        BY <2>1, OneStep DEF Leds!OneLed, Leds!NLed
<1> QED
    BY <1>1, <1>2, RangeOfShows, Apart

(* In no frame of any animation does a brightness leave its byte; the setup comet is
   never an orbit or a join; two holds that fire different actions look different,
   whatever their lengths; and a step of the knob moves the arc by one LED, even where
   ALSA gives back a level beside the one that was set. *)
THEOREM PicturesTheorem == Spec => []Pictures
<1>1. Init => frame \in Nat
    BY DEF Init, Leds!LedInit
<1>2. frame \in Nat /\ [Next]_vars => (frame \in Nat)'
    BY StepOfLeds DEF Leds!NextFrame, Leds!Cycle
<1>3. frame \in Nat => Pictures
    BY AllPictures DEF Pictures
<1> QED
    BY <1>1, <1>2, <1>3, PTL DEF Spec

-----------------------------------------------------------------------------
(* The owner of the speaker.  With no script at work it is one of three. *)
SqueezeliteGone == runs.squeezelite = "off" /\ ~ (boots.squeezelite /\ conf.lms)
Receives == conf.airplay => runs.shairport # "off" /\ boots.shairport

OwnedByLms ==
    /\ conf.lms /\ boots.squeezelite /\ runs.squeezelite = "on"
    /\ ~ boots.shairport /\ runs.shairport = "off"
    /\ ~ boots.replaynet /\ runs.replaynet = "off"
OwnedByEngine ==
    /\ SqueezeliteGone /\ Receives
    /\ conf.engine = "replaynet" /\ conf.type = "classic" /\ runs.shairport # "airplay2"
OwnedByTwo ==
    /\ SqueezeliteGone /\ Receives
    /\ conf.engine = "none" /\ conf.type = "airplay2"
    /\ ~ conf.node /\ runs.replaynet = "off"
Owned == OwnedByLms \/ OwnedByEngine \/ OwnedByTwo

(* What rn_engine_ensure must find, for shairport to be left as it is. *)
AsItShould == runs.shairport # "airplay2" /\ Receives
Ready == runs.replaynet = "off" \/ AsItShould

(* The programs, and how far a script is with one. *)
ToLms == <<Own!Set("lms", TRUE), Own!Stop("replaynet"), Own!Stop("shairport"),
           Own!Start("squeezelite")>>
FromLms == <<Own!Set("lms", FALSE), Own!Stop("squeezelite"), Own!Apply("mode")>>
ToTwo == <<Own!Stop("squeezelite"), Own!Set("engine", "none"), Own!Set("type", "airplay2"),
           Own!Group("apply")>>
ToEngine == <<Own!Stop("squeezelite"), Own!Set("engine", "replaynet"),
              Own!Set("type", "classic"), Own!Group("apply")>>
Ensuring == <<Own!Ensure("node"), Own!Ensure("replaynet"), Own!Ensure("pipe"),
              Own!Apply("if-changed")>>
Clearing == <<Own!Set("node", FALSE), Own!Stop("replaynet"), Own!Set("pipe", FALSE)>>
ClearingAll == <<Own!Set("node", FALSE), Own!Stop("replaynet"), Own!Set("pipe", FALSE),
                 Own!Apply("shairport")>>
Regrouping(role) == <<Own!Group(role)>>

At(c, program, i) == todo[c] = SubSeq(program, i, Len(program))

(* What holds where a script is with its program: each command has done its part. *)
InToLms(c, i) ==
    /\ i \in 1..4 /\ At(c, ToLms, i)
    /\ i > 1 => conf.lms
    /\ i > 2 => ~ boots.replaynet /\ runs.replaynet = "off"
    /\ i > 3 => ~ boots.shairport /\ runs.shairport = "off"
InFromLms(c, i) ==
    /\ i \in 1..3 /\ At(c, FromLms, i) /\ Ready
    /\ i > 1 => ~ conf.lms
    /\ i > 2 => SqueezeliteGone
InToTwo(c, i) ==
    /\ i \in 1..4 /\ At(c, ToTwo, i)
    /\ i > 1 => SqueezeliteGone
    /\ i > 2 => conf.engine = "none"
    /\ i > 3 => conf.type = "airplay2"
InClearingAll(c, i) ==
    /\ i \in 1..4 /\ At(c, ClearingAll, i)
    /\ SqueezeliteGone /\ conf.engine = "none" /\ conf.type = "airplay2"
    /\ i > 1 => ~ conf.node
    /\ i > 2 => runs.replaynet = "off"
InToEngine(c, i) ==
    /\ i \in 1..4 /\ At(c, ToEngine, i) /\ Ready
    /\ i > 1 => SqueezeliteGone
    /\ i > 2 => conf.engine = "replaynet"
    /\ i > 3 => conf.type = "classic"
InEnsuring(c, i) ==
    /\ i \in 1..4 /\ At(c, Ensuring, i)
    /\ SqueezeliteGone /\ conf.engine = "replaynet" /\ conf.type = "classic"
    /\ i =< 2 => Ready
    /\ i > 2 => changed[c] \/ AsItShould
InRegrouping(c, role) ==
    /\ role \in {"apply", "toggle"} /\ At(c, Regrouping(role), 1) /\ Owned
    /\ ~ (role = "toggle" /\ conf.engine = "none") => ~ OwnedByLms
InClearing(c, i) == i \in 1..3 /\ At(c, Clearing, i) /\ Owned /\ conf.engine = "none"

Within(c) ==
    \/ \E i \in 1..4 : \/ InToLms(c, i) \/ InFromLms(c, i) \/ InToTwo(c, i)
                       \/ InClearingAll(c, i) \/ InToEngine(c, i) \/ InEnsuring(c, i)
                       \/ InClearing(c, i)
    \/ \E role \in {"apply", "toggle"} : InRegrouping(c, role)

OwnTypes ==
    /\ DOMAIN conf = {"engine", "node", "lms", "airplay", "type", "pipe"}
    /\ DOMAIN boots = Own!Services /\ DOMAIN runs = Own!Services
    /\ DOMAIN todo = Own!Callers /\ DOMAIN changed = Own!Callers
OneAtWork ==
    \/ Own!Working = {} /\ Owned
    \/ \E c \in Own!Callers : Own!Working = {c} /\ Within(c)
OwnerInv == OwnTypes /\ (~ disturbed => OneAtWork)

(* At first boot the engine has the speaker. *)
LEMMA OwnerInit == Init => OwnerInv
<1> SUFFICES ASSUME Init PROVE OwnerInv
    OBVIOUS
<1> USE DEF Init, Own!OwnInit
<1>1. OwnTypes
    BY DEF OwnTypes, Own!Services
<1>2. OwnedByEngine
    BY DEF OwnedByEngine, SqueezeliteGone, Receives, Own!Services
<1>3. Own!Working = {}
    BY DEF Own!Working
<1> QED
    BY <1>1, <1>2, <1>3 DEF OwnerInv, OneAtWork, Owned

IsProgram(program) == \E S : program \in Seq(S)

LEMMA Programs ==
    /\ IsProgram(ToLms)
    /\ IsProgram(FromLms)
    /\ IsProgram(ToTwo)
    /\ IsProgram(ToEngine)
    /\ IsProgram(Ensuring)
    /\ IsProgram(Clearing)
    /\ IsProgram(ClearingAll)
    /\ \A role : IsProgram(Regrouping(role))
    /\ Len(ToLms) = 4 /\ Len(FromLms) = 3 /\ Len(ToTwo) = 4 /\ Len(ToEngine) = 4
    /\ Len(Ensuring) = 4 /\ Len(Clearing) = 3 /\ Len(ClearingAll) = 4
    /\ \A role : Len(Regrouping(role)) = 1
<1>1. ASSUME NEW a, NEW b, NEW c, NEW d
      PROVE  /\ <<a, b, c, d>> \in Seq({a, b, c, d}) /\ Len(<<a, b, c, d>>) = 4
             /\ <<a, b, c>> \in Seq({a, b, c}) /\ Len(<<a, b, c>>) = 3
             /\ <<a>> \in Seq({a}) /\ Len(<<a>>) = 1
    OBVIOUS
<1>2. ASSUME NEW a, NEW b, NEW c, NEW d
      PROVE  IsProgram(<<a, b, c, d>>) /\ IsProgram(<<a, b, c>>) /\ IsProgram(<<a>>)
    BY <1>1, Zenon DEF IsProgram
<1>3. IsProgram(ToLms) /\ Len(ToLms) = 4
    BY <1>1, <1>2 DEF ToLms
<1>4. IsProgram(FromLms) /\ Len(FromLms) = 3
    BY <1>1, <1>2 DEF FromLms
<1>5. IsProgram(ToTwo) /\ Len(ToTwo) = 4
    BY <1>1, <1>2 DEF ToTwo
<1>6. IsProgram(ToEngine) /\ Len(ToEngine) = 4
    BY <1>1, <1>2 DEF ToEngine
<1>7. IsProgram(Ensuring) /\ Len(Ensuring) = 4
    BY <1>1, <1>2 DEF Ensuring
<1>8. IsProgram(Clearing) /\ Len(Clearing) = 3
    BY <1>1, <1>2 DEF Clearing
<1>9. IsProgram(ClearingAll) /\ Len(ClearingAll) = 4
    BY <1>1, <1>2 DEF ClearingAll
<1>10. ASSUME NEW role PROVE IsProgram(Regrouping(role)) /\ Len(Regrouping(role)) = 1
    BY <1>1, <1>2 DEF Regrouping
<1> QED
    BY <1>3, <1>4, <1>5, <1>6, <1>7, <1>8, <1>9, <1>10

(* A script in the middle of a program runs the command it is at. *)
LEMMA Going ==
    ASSUME NEW S, NEW program \in Seq(S), NEW i \in 1..Len(program), NEW c, At(c, program, i)
    PROVE  /\ Own!Next1(c) = program[i]
           /\ Tail(todo[c]) = SubSeq(program, i + 1, Len(program))
           /\ todo[c] # <<>>
<1>1. Len(program) \in i..Len(program)
    BY LenProperties
<1>2. Head(todo[c]) = program[i] /\ Tail(todo[c]) = SubSeq(program, i + 1, Len(program))
    BY <1>1, HeadTailOfSubSeq DEF At
<1>3. \A j \in i..Len(program) : program[j] \in S
    BY LenProperties
<1>4. Len(todo[c]) = Len(program) - i + 1
    BY <1>1, <1>3, SubSeqProperties, LenProperties DEF At
<1>5. todo[c] # <<>>
    BY <1>1, <1>4
<1> QED
    BY <1>2, <1>5 DEF Own!Next1

LEMMA Advances ==
    ASSUME OwnTypes, NEW S, NEW program \in Seq(S), NEW i \in 1..Len(program),
           NEW c \in Own!Callers, At(c, program, i), Own!Leads(c, <<>>)
    PROVE  /\ i < Len(program) => At(c, program, i + 1)'
           /\ i = Len(program) => todo'[c] = <<>>
           /\ \A b \in Own!Callers : b # c => todo'[b] = todo[b]
<1>1. /\ Tail(todo[c]) = SubSeq(program, i + 1, Len(program))
    BY Going
<1>2. \A j \in i+1..Len(program) : program[j] \in S
    BY LenProperties
<1>3. SubSeq(program, i + 1, Len(program)) \in Seq(S)
    BY <1>2, SubSeqProperties, LenProperties
<1>4. <<>> \o Tail(todo[c]) = SubSeq(program, i + 1, Len(program))
    BY <1>1, <1>3, ConcatEmptySeq
<1>5. todo'[c] = SubSeq(program, i + 1, Len(program))
      /\ \A b \in Own!Callers : b # c => todo'[b] = todo[b]
    BY <1>4 DEF Own!Leads, OwnTypes
<1>6. i = Len(program) => todo'[c] = <<>>
    BY <1>5, SubSeqEmpty, LenProperties
<1> QED
    BY <1>5, <1>6 DEF At

(* The last command of a program may lead to another program. *)
LEMMA Branches ==
    ASSUME OwnTypes, NEW S, NEW program \in Seq(S), Len(program) > 0,
           NEW T, NEW next \in Seq(T),
           NEW c \in Own!Callers, At(c, program, Len(program)), Own!Leads(c, next)
    PROVE  /\ At(c, next, 1)' /\ todo'[c] = next
           /\ \A b \in Own!Callers : b # c => todo'[b] = todo[b]
<1>1. Len(program) \in 1..Len(program)
    BY LenProperties
<1>2. Tail(todo[c]) = SubSeq(program, Len(program) + 1, Len(program))
    BY <1>1, Going
<1>3. Tail(todo[c]) = <<>>
    BY <1>1, <1>2, SubSeqEmpty
<1>4. next \o Tail(todo[c]) = next
    BY <1>3, ConcatEmptySeq
<1>5. todo'[c] = next /\ \A b \in Own!Callers : b # c => todo'[b] = todo[b]
    BY <1>4 DEF Own!Leads, OwnTypes
<1>6. SubSeq(next, 1, Len(next)) = next
    BY SubSeqFull
<1> QED
    BY <1>5, <1>6 DEF At

(* What a command does. *)
Moves(c) == \/ Own!Sets(c) \/ Own!Stops(c) \/ Own!Starts(c) \/ Own!Restarts(c)
            \/ Own!Ensures(c) \/ Own!Groups(c) \/ Own!Applies(c)

LEMMA EffectSet ==
    ASSUME NEW c, NEW what, NEW to, Own!Next1(c) = Own!Set(what, to), Moves(c)
    PROVE  /\ conf' = [conf EXCEPT ![what] = to] /\ UNCHANGED <<boots, runs, changed>>
           /\ Own!Leads(c, <<>>)
<1>1. Own!Next1(c).do = "set" /\ Own!Next1(c).what = what /\ Own!Next1(c).to = to
    BY DEF Own!Set, Own!Command
<1>2. Own!Sets(c)
    BY <1>1 DEF Moves, Own!Stops, Own!Starts, Own!Restarts, Own!Ensures, Own!Groups,
                Own!Applies, Own!Does
<1> QED
    BY <1>1, <1>2 DEF Own!Sets, Own!services

LEMMA EffectStop ==
    ASSUME NEW c, NEW what, Own!Next1(c) = Own!Stop(what), Moves(c)
    PROVE  /\ boots' = [boots EXCEPT ![what] = FALSE] /\ runs' = [runs EXCEPT ![what] = "off"]
           /\ UNCHANGED <<conf, changed>> /\ Own!Leads(c, <<>>)
<1>1. Own!Next1(c).do = "stop" /\ Own!Next1(c).what = what
    BY DEF Own!Stop, Own!Command
<1>2. Own!Stops(c)
    BY <1>1 DEF Moves, Own!Sets, Own!Starts, Own!Restarts, Own!Ensures, Own!Groups,
                Own!Applies, Own!Does
<1> QED
    BY <1>1, <1>2 DEF Own!Stops, Own!Stopped

LEMMA EffectStart ==
    ASSUME NEW c, NEW what, Own!Next1(c) = Own!Start(what), Moves(c)
    PROVE  /\ boots' = [boots EXCEPT ![what] = TRUE]
           /\ runs' = [runs EXCEPT ![what] = Own!RunsAs(what)]
           /\ UNCHANGED <<conf, changed>> /\ Own!Leads(c, <<>>)
<1>1. Own!Next1(c).do = "start" /\ Own!Next1(c).what = what
    BY DEF Own!Start, Own!Command
<1>2. Own!Starts(c)
    BY <1>1 DEF Moves, Own!Sets, Own!Stops, Own!Restarts, Own!Ensures, Own!Groups,
                Own!Applies, Own!Does
<1> QED
    BY <1>1, <1>2 DEF Own!Starts, Own!Started

LEMMA EffectEnsure ==
    ASSUME NEW c, NEW what, Own!Next1(c) = Own!Ensure(what), Moves(c)
    PROVE  /\ changed' = [changed EXCEPT ![c] = @ \/ Own!Lacking(what)]
           /\ \/ ~ Own!Lacking(what) /\ UNCHANGED <<conf, boots, runs>>
              \/ Own!Lacking(what) /\ what = "replaynet" /\ Own!Started(what) /\ UNCHANGED conf
              \/ /\ Own!Lacking(what) /\ what # "replaynet"
                 /\ conf' = [conf EXCEPT ![what] = TRUE] /\ UNCHANGED <<boots, runs>>
           /\ Own!Leads(c, <<>>)
<1>1. Own!Next1(c).do = "ensure" /\ Own!Next1(c).what = what
    BY DEF Own!Ensure, Own!Command
<1>2. Own!Ensures(c)
    BY <1>1 DEF Moves, Own!Sets, Own!Stops, Own!Starts, Own!Restarts, Own!Groups,
                Own!Applies, Own!Does
<1> QED
    BY <1>1, <1>2 DEF Own!Ensures, Own!services

LEMMA EffectGroup ==
    ASSUME NEW c, NEW role, Own!Next1(c) = Own!Group(role), Moves(c)
    PROVE  /\ changed' = [changed EXCEPT ![c] = FALSE] /\ UNCHANGED <<conf, boots, runs>>
           /\ Own!Leads(c, Own!GroupProgram(role))
<1>1. Own!Next1(c).do = "group" /\ Own!Next1(c).to = role
    BY DEF Own!Group, Own!Command
<1>2. Own!Groups(c)
    BY <1>1 DEF Moves, Own!Sets, Own!Stops, Own!Starts, Own!Restarts, Own!Ensures,
                Own!Applies, Own!Does
<1> QED
    BY <1>1, <1>2 DEF Own!Groups, Own!services

LEMMA EffectApply ==
    ASSUME NEW c, NEW what, Own!Next1(c) = Own!Apply(what), Moves(c)
    PROVE  /\ UNCHANGED conf /\ changed' = [changed EXCEPT ![c] = FALSE]
           /\ \/ /\ what = "mode" /\ UNCHANGED <<boots, runs>>
                 /\ Own!Leads(c, Own!AirplayMode(IF conf.engine = "none" THEN "ap2" ELSE "ap1"))
              \/ /\ what = "shairport" \/ (what = "if-changed" /\ changed[c])
                 /\ Own!Leads(c, <<>>)
                 /\ IF conf.airplay THEN Own!Started("shairport") ELSE Own!Stopped("shairport")
              \/ /\ what = "if-changed" /\ ~ changed[c]
                 /\ Own!Leads(c, <<>>) /\ UNCHANGED <<boots, runs>>
<1>1. Own!Next1(c).do = "apply" /\ Own!Next1(c).what = what
    BY DEF Own!Apply, Own!Command
<1>2. Own!Applies(c)
    BY <1>1 DEF Moves, Own!Sets, Own!Stops, Own!Starts, Own!Restarts, Own!Ensures,
                Own!Groups, Own!Does
<1> QED
    BY <1>1, <1>2 DEF Own!Applies, Own!services

Others(c) == \A b \in Own!Callers : b # c => todo'[b] = todo[b]

LEMMA RunsOn ==
    ASSUME OwnTypes, NEW program, IsProgram(program), NEW i \in 1..Len(program),
           NEW c \in Own!Callers, At(c, program, i)
    PROVE  /\ Own!Next1(c) = program[i] /\ todo[c] # <<>>
           /\ Own!Leads(c, <<>>) =>
                 Others(c) /\ (i < Len(program) => At(c, program, i + 1)')
                           /\ (i = Len(program) => todo'[c] = <<>>)
<1>1. PICK S : program \in Seq(S)
    BY DEF IsProgram
<1>2. Own!Next1(c) = program[i] /\ todo[c] # <<>>
    BY <1>1, Going
<1>3. ASSUME Own!Leads(c, <<>>)
      PROVE  /\ i < Len(program) => At(c, program, i + 1)'
             /\ i = Len(program) => todo'[c] = <<>>
             /\ Others(c)
    BY <1>1, <1>3, Advances DEF Others
<1> QED
    BY <1>2, <1>3

LEMMA LeadsTo ==
    ASSUME OwnTypes, NEW program, IsProgram(program), Len(program) > 0,
           NEW next, IsProgram(next),
           NEW c \in Own!Callers, At(c, program, Len(program)), Own!Leads(c, next)
    PROVE  At(c, next, 1)' /\ todo'[c] = next /\ Others(c)
<1>1. PICK S : program \in Seq(S)
    BY DEF IsProgram
<1>2. PICK T : next \in Seq(T)
    BY DEF IsProgram
<1> QED
    BY <1>1, <1>2, Branches DEF Others

(* The programs as the scripts put them together. *)
LEMMA Before ==
    ASSUME NEW a, NEW b, NEW c, NEW d
    PROVE  <<a>> \o <<b, c, d>> = <<a, b, c, d>>
<1> DEFINE S == {a, b, c, d}
<1>1. <<a>> \in Seq(S) /\ <<b, c, d>> \in Seq(S) /\ <<a, b, c, d>> \in Seq(S)
    OBVIOUS
<1> HIDE DEF S
<1>2. Len(<<a>> \o <<b, c, d>>) = 4 /\ <<a>> \o <<b, c, d>> \in Seq(S)
    BY <1>1, ConcatProperties
<1>3. \A i \in 1..4 : (<<a>> \o <<b, c, d>>)[i] = <<a, b, c, d>>[i]
    OBVIOUS
<1> QED
    BY <1>1, <1>2, <1>3, SeqEqual

LEMMA Concat ==
    ASSUME NEW a, NEW b, NEW c, NEW d
    PROVE  /\ <<a, b, c>> \o <<d>> = <<a, b, c, d>>
           /\ <<a>> \o <<b, c>> = <<a, b, c>>
           /\ <<a, b, c>> \o <<>> = <<a, b, c>>
<1> DEFINE S == {a, b, c, d}
<1>1. <<a>> \in Seq(S) /\ <<d>> \in Seq(S) /\ <<b, c>> \in Seq(S)
    OBVIOUS
<1>2. <<a, b, c>> \in Seq(S) /\ <<a, b, c, d>> \in Seq(S)
    OBVIOUS
<1> HIDE DEF S
<1>4. <<a, b, c>> \o <<d>> = <<a, b, c, d>>
    <2>1. Len(<<a, b, c>> \o <<d>>) = 4 /\ <<a, b, c>> \o <<d>> \in Seq(S)
        BY <1>1, <1>2, ConcatProperties
    <2>2. \A i \in 1..4 : (<<a, b, c>> \o <<d>>)[i] = <<a, b, c, d>>[i]
        OBVIOUS
    <2> QED
        BY <1>2, <2>1, <2>2, SeqEqual
<1>5. <<a>> \o <<b, c>> = <<a, b, c>>
    <2>1. Len(<<a>> \o <<b, c>>) = 3 /\ <<a>> \o <<b, c>> \in Seq(S)
        BY <1>1, <1>2, ConcatProperties
    <2>2. \A i \in 1..3 : (<<a>> \o <<b, c>>)[i] = <<a, b, c>>[i]
        OBVIOUS
    <2> QED
        BY <1>2, <2>1, <2>2, SeqEqual
<1> QED
    BY <1>2, <1>4, <1>5, ConcatEmptySeq

LEMMA ModePrograms ==
    /\ Own!AirplayMode("ap2") = ToTwo /\ Own!AirplayMode("ap1") = ToEngine
    /\ Own!SetLms(TRUE) = ToLms /\ Own!SetLms(FALSE) = FromLms
<1>1. Own!AirplayMode("ap2") = <<Own!Stop("squeezelite")>> \o
          <<Own!Set("engine", "none"), Own!Set("type", "airplay2"), Own!Group("apply")>>
    BY DEF Own!AirplayMode, Own!LmsFirst
<1>2. Own!AirplayMode("ap1") = <<Own!Stop("squeezelite")>> \o
          <<Own!Set("engine", "replaynet"), Own!Set("type", "classic"), Own!Group("apply")>>
    BY DEF Own!AirplayMode, Own!LmsFirst
<1>3. Own!SetLms(TRUE) = <<Own!Set("lms", TRUE)>> \o
          <<Own!Stop("replaynet"), Own!Stop("shairport"), Own!Start("squeezelite")>>
    BY DEF Own!SetLms
<1>4. Own!SetLms(FALSE) = <<Own!Set("lms", FALSE)>> \o
          <<Own!Stop("squeezelite"), Own!Apply("mode")>>
    BY DEF Own!SetLms
<1>5. Own!AirplayMode("ap2") = ToTwo
    BY <1>1, Before DEF ToTwo
<1>6. Own!AirplayMode("ap1") = ToEngine
    BY <1>2, Before DEF ToEngine
<1>7. Own!SetLms(TRUE) = ToLms
    BY <1>3, Before DEF ToLms
<1>8. Own!SetLms(FALSE) = FromLms
    BY <1>4, Concat DEF FromLms
<1> QED
    BY <1>5, <1>6, <1>7, <1>8

LEMMA GroupPrograms ==
    /\ conf.engine = "replaynet" => \A role : Own!GroupProgram(role) = Ensuring
    /\ conf.engine # "replaynet" => /\ Own!GroupProgram("toggle") = Clearing
                                   /\ Own!GroupProgram("apply") = ClearingAll
<1>1. ASSUME NEW role, conf.engine = "replaynet" PROVE Own!GroupProgram(role) = Ensuring
    BY <1>1 DEF Own!GroupProgram, Ensuring
<1>2. ASSUME conf.engine # "replaynet" PROVE Own!GroupProgram("toggle") = Clearing
    <2>1. Own!GroupProgram("toggle") = Clearing \o <<>>
        BY <1>2 DEF Own!GroupProgram, Clearing
    <2> QED
        BY <2>1, Concat DEF Clearing
<1>3. ASSUME conf.engine # "replaynet" PROVE Own!GroupProgram("apply") = ClearingAll
    <2>1. Own!GroupProgram("apply") = Clearing \o <<Own!Apply("shairport")>>
        BY <1>3 DEF Own!GroupProgram, Clearing
    <2> QED
        BY <2>1, Concat DEF Clearing, ClearingAll
<1> QED
    BY <1>1, <1>2, <1>3

LEMMA TypesKept == OwnTypes /\ Own!OwnNext => OwnTypes'
<1> SUFFICES ASSUME OwnTypes, Own!OwnNext PROVE OwnTypes'
    OBVIOUS
<1> USE DEF OwnTypes
<1>1. ASSUME NEW c \in Own!Callers, Moves(c) PROVE OwnTypes'
    <2>1. CASE Own!Sets(c)
        BY <2>1 DEF Own!Sets, Own!Leads, Own!services
    <2>2. CASE Own!Stops(c)
        BY <2>2 DEF Own!Stops, Own!Leads, Own!Stopped
    <2>3. CASE Own!Starts(c)
        BY <2>3 DEF Own!Starts, Own!Leads, Own!Started
    <2>4. CASE Own!Restarts(c)
        BY <2>4 DEF Own!Restarts, Own!Leads
    <2>5. CASE Own!Ensures(c)
        <3>1. DOMAIN todo' = DOMAIN todo /\ DOMAIN changed' = DOMAIN changed
            BY <2>5 DEF Own!Ensures, Own!Leads
        <3>2. DOMAIN conf' = DOMAIN conf /\ DOMAIN boots' = DOMAIN boots /\ DOMAIN runs' = DOMAIN runs
            BY <2>5 DEF Own!Ensures, Own!Started, Own!services
        <3> QED
            BY <3>1, <3>2
    <2>6. CASE Own!Groups(c)
        BY <2>6 DEF Own!Groups, Own!Leads, Own!services
    <2>7. CASE Own!Applies(c)
        <3>1. conf' = conf /\ DOMAIN changed' = DOMAIN changed
            BY <2>7 DEF Own!Applies
        <3>2. DOMAIN todo' = DOMAIN todo
            BY <2>7 DEF Own!Applies, Own!Leads
        <3>3. DOMAIN boots' = DOMAIN boots /\ DOMAIN runs' = DOMAIN runs
            BY <2>7 DEF Own!Applies, Own!Started, Own!Stopped, Own!services
        <3> QED
            BY <3>1, <3>2, <3>3
    <2> QED
        BY <1>1, <2>1, <2>2, <2>3, <2>4, <2>5, <2>6, <2>7 DEF Moves
<1>2. CASE Own!Script
    BY <1>1, <1>2 DEF Own!Script, Moves
<1>3. ASSUME NEW c, NEW program, Own!Begin(c, program) PROVE OwnTypes'
    BY <1>3 DEF Own!Begin, Own!services
<1>4. CASE Own!Asked
    BY <1>3, <1>4 DEF Own!Asked, Own!Rights, Own!Switch, Own!Shell, Own!Regroup
<1>5. CASE Own!Reboot
    BY <1>5 DEF Own!Reboot
<1> QED
    BY <1>2, <1>4, <1>5 DEF Own!OwnNext

(* To LMS: the two players of AirPlay go before squeezelite comes. *)
LEMMA ToLmsStep ==
    ASSUME OwnTypes, NEW c \in Own!Callers, NEW i, InToLms(c, i), Moves(c)
    PROVE  Others(c) /\ (InToLms(c, i + 1)' \/ (todo'[c] = <<>> /\ Owned'))
<1>1. /\ ToLms[1] = Own!Set("lms", TRUE) /\ ToLms[2] = Own!Stop("replaynet")
      /\ ToLms[3] = Own!Stop("shairport") /\ ToLms[4] = Own!Start("squeezelite")
    BY DEF ToLms
<1>2. /\ i \in 1..4 /\ i \in 1..Len(ToLms) /\ Len(ToLms) = 4
      /\ At(c, ToLms, i) /\ IsProgram(ToLms)
    BY Programs DEF InToLms
<1>3. /\ Own!Next1(c) = ToLms[i]
      /\ Own!Leads(c, <<>>) =>
            /\ Others(c) /\ (i < Len(ToLms) => At(c, ToLms, i + 1)')
            /\ i = Len(ToLms) => todo'[c] = <<>>
    BY <1>2, RunsOn
<1>4. CASE i = 1
    <2>1. Own!Next1(c) = Own!Set("lms", TRUE)
        BY <1>1, <1>3, <1>4
    <2>2. /\ conf' = [conf EXCEPT !["lms"] = TRUE] /\ UNCHANGED <<boots, runs, changed>>
          /\ Own!Leads(c, <<>>)
        BY <2>1, EffectSet
    <2>3. At(c, ToLms, 2)' /\ Others(c)
        BY <1>2, <1>3, <1>4, <2>2
    <2>4. conf'.lms
        BY <1>4, <2>2 DEF OwnTypes
    <2> QED
        BY <1>4, <2>3, <2>4 DEF InToLms
<1>5. CASE i = 2
    <2>1. Own!Next1(c) = Own!Stop("replaynet")
        BY <1>1, <1>3, <1>5
    <2>2. /\ boots' = [boots EXCEPT !["replaynet"] = FALSE]
          /\ runs' = [runs EXCEPT !["replaynet"] = "off"]
          /\ UNCHANGED <<conf, changed>> /\ Own!Leads(c, <<>>)
        BY <2>1, EffectStop
    <2>3. At(c, ToLms, 3)' /\ Others(c)
        BY <1>2, <1>3, <1>5, <2>2
    <2>4. conf'.lms /\ ~ boots'.replaynet /\ runs'.replaynet = "off"
        BY <1>5, <2>2 DEF OwnTypes, Own!Services, InToLms
    <2> QED
        BY <1>5, <2>3, <2>4 DEF InToLms
<1>6. CASE i = 3
    <2>1. Own!Next1(c) = Own!Stop("shairport")
        BY <1>1, <1>3, <1>6
    <2>2. /\ boots' = [boots EXCEPT !["shairport"] = FALSE]
          /\ runs' = [runs EXCEPT !["shairport"] = "off"]
          /\ UNCHANGED <<conf, changed>> /\ Own!Leads(c, <<>>)
        BY <2>1, EffectStop
    <2>3. At(c, ToLms, 4)' /\ Others(c)
        BY <1>2, <1>3, <1>6, <2>2
    <2>4. /\ conf'.lms /\ ~ boots'.replaynet /\ runs'.replaynet = "off"
          /\ ~ boots'.shairport /\ runs'.shairport = "off"
        BY <1>6, <2>2 DEF OwnTypes, Own!Services, InToLms
    <2> QED
        BY <1>6, <2>3, <2>4 DEF InToLms
<1>7. CASE i = 4
    <2>1. Own!Next1(c) = Own!Start("squeezelite")
        BY <1>1, <1>3, <1>7
    <2>2. /\ boots' = [boots EXCEPT !["squeezelite"] = TRUE]
          /\ runs' = [runs EXCEPT !["squeezelite"] = Own!RunsAs("squeezelite")]
          /\ UNCHANGED conf /\ Own!Leads(c, <<>>)
        BY <2>1, EffectStart
    <2>3. todo'[c] = <<>> /\ Others(c)
        BY <1>2, <1>3, <1>7, <2>2
    <2>4. OwnedByLms'
        BY <1>7, <2>2 DEF OwnTypes, Own!Services, InToLms, OwnedByLms, Own!RunsAs
    <2> QED
        BY <2>3, <2>4 DEF Owned
<1> QED
    BY <1>2, <1>4, <1>5, <1>6, <1>7

(* From LMS: beep-airplay-mode is left to do the rest. *)
LEMMA FromLmsStep ==
    ASSUME OwnTypes, NEW c \in Own!Callers, NEW i, InFromLms(c, i), Moves(c)
    PROVE  Others(c) /\ (InFromLms(c, i + 1)' \/ InToTwo(c, 1)' \/ InToEngine(c, 1)')
<1>1. /\ FromLms[1] = Own!Set("lms", FALSE) /\ FromLms[2] = Own!Stop("squeezelite")
      /\ FromLms[3] = Own!Apply("mode")
    BY DEF FromLms
<1>2. /\ i \in 1..3 /\ i \in 1..Len(FromLms) /\ Len(FromLms) = 3
      /\ At(c, FromLms, i) /\ IsProgram(FromLms)
    BY Programs DEF InFromLms
<1>3. /\ Own!Next1(c) = FromLms[i]
      /\ Own!Leads(c, <<>>) =>
            /\ Others(c) /\ (i < Len(FromLms) => At(c, FromLms, i + 1)')
            /\ i = Len(FromLms) => todo'[c] = <<>>
    BY <1>2, RunsOn
<1>4. CASE i = 1
    <2>1. Own!Next1(c) = Own!Set("lms", FALSE)
        BY <1>1, <1>3, <1>4
    <2>2. /\ conf' = [conf EXCEPT !["lms"] = FALSE] /\ UNCHANGED <<boots, runs, changed>>
          /\ Own!Leads(c, <<>>)
        BY <2>1, EffectSet
    <2>3. At(c, FromLms, 2)' /\ Others(c)
        BY <1>2, <1>3, <1>4, <2>2
    <2>4. ~ conf'.lms /\ Ready'
        BY <1>4, <2>2 DEF OwnTypes, InFromLms, Ready, AsItShould, Receives
    <2> QED
        BY <1>4, <2>3, <2>4 DEF InFromLms
<1>5. CASE i = 2
    <2>1. Own!Next1(c) = Own!Stop("squeezelite")
        BY <1>1, <1>3, <1>5
    <2>2. /\ boots' = [boots EXCEPT !["squeezelite"] = FALSE]
          /\ runs' = [runs EXCEPT !["squeezelite"] = "off"]
          /\ UNCHANGED <<conf, changed>> /\ Own!Leads(c, <<>>)
        BY <2>1, EffectStop
    <2>3. At(c, FromLms, 3)' /\ Others(c)
        BY <1>2, <1>3, <1>5, <2>2
    <2>4. ~ conf'.lms /\ Ready' /\ SqueezeliteGone'
        BY <1>5, <2>2 DEF OwnTypes, Own!Services, InFromLms, Ready, AsItShould,
                         Receives, SqueezeliteGone
    <2> QED
        BY <1>5, <2>3, <2>4 DEF InFromLms
<1>6. CASE i = 3
    <2>1. Own!Next1(c) = Own!Apply("mode")
        BY <1>1, <1>3, <1>6
    <2>2. /\ UNCHANGED <<conf, boots, runs>>
          /\ Own!Leads(c, Own!AirplayMode(IF conf.engine = "none" THEN "ap2" ELSE "ap1"))
        BY <2>1, EffectApply
    <2>3. Ready'
        BY <1>6, <2>2 DEF InFromLms, Ready, AsItShould, Receives
    <2>4. At(c, FromLms, Len(FromLms)) /\ Len(FromLms) > 0 /\ IsProgram(FromLms)
        BY <1>2, <1>6
    <2>5. CASE conf.engine = "none"
        <3>1. Own!Leads(c, ToTwo)
            BY <2>2, <2>5, ModePrograms
        <3>2. At(c, ToTwo, 1)' /\ Others(c)
            BY <2>4, <3>1, LeadsTo, Programs
        <3> QED
            BY <3>2 DEF InToTwo
    <2>6. CASE conf.engine # "none"
        <3>1. Own!Leads(c, ToEngine)
            BY <2>2, <2>6, ModePrograms
        <3>2. At(c, ToEngine, 1)' /\ Others(c)
            BY <2>4, <3>1, LeadsTo, Programs
        <3> QED
            BY <2>3, <3>2 DEF InToEngine
    <2> QED
        BY <2>5, <2>6
<1> QED
    BY <1>2, <1>4, <1>5, <1>6

(* To AirPlay 2: whatever there was, the engine is taken out at the end. *)
LEMMA ToTwoStep ==
    ASSUME OwnTypes, NEW c \in Own!Callers, NEW i, InToTwo(c, i), Moves(c)
    PROVE  Others(c) /\ (InToTwo(c, i + 1)' \/ InClearingAll(c, 1)')
<1>1. /\ ToTwo[1] = Own!Stop("squeezelite") /\ ToTwo[2] = Own!Set("engine", "none")
      /\ ToTwo[3] = Own!Set("type", "airplay2") /\ ToTwo[4] = Own!Group("apply")
    BY DEF ToTwo
<1>2. /\ i \in 1..4 /\ i \in 1..Len(ToTwo) /\ Len(ToTwo) = 4
      /\ At(c, ToTwo, i) /\ IsProgram(ToTwo)
    BY Programs DEF InToTwo
<1>3. /\ Own!Next1(c) = ToTwo[i]
      /\ Own!Leads(c, <<>>) =>
            /\ Others(c) /\ (i < Len(ToTwo) => At(c, ToTwo, i + 1)')
            /\ i = Len(ToTwo) => todo'[c] = <<>>
    BY <1>2, RunsOn
<1>4. CASE i = 1
    <2>1. Own!Next1(c) = Own!Stop("squeezelite")
        BY <1>1, <1>3, <1>4
    <2>2. /\ boots' = [boots EXCEPT !["squeezelite"] = FALSE]
          /\ runs' = [runs EXCEPT !["squeezelite"] = "off"]
          /\ UNCHANGED <<conf, changed>> /\ Own!Leads(c, <<>>)
        BY <2>1, EffectStop
    <2>3. At(c, ToTwo, 2)' /\ Others(c)
        BY <1>2, <1>3, <1>4, <2>2
    <2>4. SqueezeliteGone'
        BY <1>4, <2>2 DEF OwnTypes, Own!Services, SqueezeliteGone
    <2> QED
        BY <1>4, <2>3, <2>4 DEF InToTwo
<1>5. CASE i = 2
    <2>1. Own!Next1(c) = Own!Set("engine", "none")
        BY <1>1, <1>3, <1>5
    <2>2. /\ conf' = [conf EXCEPT !["engine"] = "none"] /\ UNCHANGED <<boots, runs, changed>>
          /\ Own!Leads(c, <<>>)
        BY <2>1, EffectSet
    <2>3. At(c, ToTwo, 3)' /\ Others(c)
        BY <1>2, <1>3, <1>5, <2>2
    <2>4. SqueezeliteGone' /\ conf'.engine = "none"
        BY <1>5, <2>2 DEF OwnTypes, InToTwo, SqueezeliteGone
    <2> QED
        BY <1>5, <2>3, <2>4 DEF InToTwo
<1>6. CASE i = 3
    <2>1. Own!Next1(c) = Own!Set("type", "airplay2")
        BY <1>1, <1>3, <1>6
    <2>2. /\ conf' = [conf EXCEPT !["type"] = "airplay2"] /\ UNCHANGED <<boots, runs, changed>>
          /\ Own!Leads(c, <<>>)
        BY <2>1, EffectSet
    <2>3. At(c, ToTwo, 4)' /\ Others(c)
        BY <1>2, <1>3, <1>6, <2>2
    <2>4. /\ SqueezeliteGone' /\ conf'.engine = "none"
          /\ conf'.type = "airplay2"
        BY <1>6, <2>2 DEF OwnTypes, InToTwo, SqueezeliteGone
    <2> QED
        BY <1>6, <2>3, <2>4 DEF InToTwo
<1>7. CASE i = 4
    <2>1. Own!Next1(c) = Own!Group("apply")
        BY <1>1, <1>3, <1>7
    <2>2. /\ UNCHANGED <<conf, boots, runs>> /\ Own!Leads(c, Own!GroupProgram("apply"))
        BY <2>1, EffectGroup
    <2>3. Own!Leads(c, ClearingAll)
        BY <1>7, <2>2, GroupPrograms DEF InToTwo
    <2>4. At(c, ToTwo, Len(ToTwo)) /\ Len(ToTwo) > 0 /\ IsProgram(ToTwo)
        BY <1>2, <1>7
    <2>5. At(c, ClearingAll, 1)' /\ Others(c)
        BY <2>3, <2>4, LeadsTo, Programs
    <2>6. SqueezeliteGone' /\ conf'.engine = "none" /\ conf'.type = "airplay2"
        BY <1>7, <2>2 DEF InToTwo, SqueezeliteGone, Ready, AsItShould, Receives
    <2> QED
        BY <2>5, <2>6 DEF InClearingAll
<1> QED
    BY <1>2, <1>4, <1>5, <1>6, <1>7

LEMMA ClearingAllStep ==
    ASSUME OwnTypes, NEW c \in Own!Callers, NEW i, InClearingAll(c, i), Moves(c)
    PROVE  Others(c) /\ (InClearingAll(c, i + 1)' \/ (todo'[c] = <<>> /\ Owned'))
<1>1. /\ ClearingAll[1] = Own!Set("node", FALSE) /\ ClearingAll[2] = Own!Stop("replaynet")
      /\ ClearingAll[3] = Own!Set("pipe", FALSE) /\ ClearingAll[4] = Own!Apply("shairport")
    BY DEF ClearingAll
<1>2. /\ i \in 1..4 /\ i \in 1..Len(ClearingAll) /\ Len(ClearingAll) = 4
      /\ At(c, ClearingAll, i) /\ IsProgram(ClearingAll)
    BY Programs DEF InClearingAll
<1>3. /\ Own!Next1(c) = ClearingAll[i]
      /\ Own!Leads(c, <<>>) =>
            /\ Others(c) /\ (i < Len(ClearingAll) => At(c, ClearingAll, i + 1)')
            /\ i = Len(ClearingAll) => todo'[c] = <<>>
    BY <1>2, RunsOn
<1>4. CASE i = 1
    <2>1. Own!Next1(c) = Own!Set("node", FALSE)
        BY <1>1, <1>3, <1>4
    <2>2. /\ conf' = [conf EXCEPT !["node"] = FALSE] /\ UNCHANGED <<boots, runs, changed>>
          /\ Own!Leads(c, <<>>)
        BY <2>1, EffectSet
    <2>3. At(c, ClearingAll, 2)' /\ Others(c)
        BY <1>2, <1>3, <1>4, <2>2
    <2>4. SqueezeliteGone' /\ conf'.engine = "none" /\ conf'.type = "airplay2" /\ ~ conf'.node
        BY <1>4, <2>2 DEF OwnTypes, InClearingAll, SqueezeliteGone
    <2> QED
        BY <1>4, <2>3, <2>4 DEF InClearingAll
<1>5. CASE i = 2
    <2>1. Own!Next1(c) = Own!Stop("replaynet")
        BY <1>1, <1>3, <1>5
    <2>2. /\ boots' = [boots EXCEPT !["replaynet"] = FALSE]
          /\ runs' = [runs EXCEPT !["replaynet"] = "off"]
          /\ UNCHANGED <<conf, changed>> /\ Own!Leads(c, <<>>)
        BY <2>1, EffectStop
    <2>3. At(c, ClearingAll, 3)' /\ Others(c)
        BY <1>2, <1>3, <1>5, <2>2
    <2>4. /\ SqueezeliteGone' /\ conf'.engine = "none" /\ conf'.type = "airplay2" /\ ~ conf'.node
          /\ runs'.replaynet = "off"
        BY <1>5, <2>2 DEF OwnTypes, Own!Services, InClearingAll, SqueezeliteGone
    <2> QED
        BY <1>5, <2>3, <2>4 DEF InClearingAll
<1>6. CASE i = 3
    <2>1. Own!Next1(c) = Own!Set("pipe", FALSE)
        BY <1>1, <1>3, <1>6
    <2>2. /\ conf' = [conf EXCEPT !["pipe"] = FALSE] /\ UNCHANGED <<boots, runs, changed>>
          /\ Own!Leads(c, <<>>)
        BY <2>1, EffectSet
    <2>3. At(c, ClearingAll, 4)' /\ Others(c)
        BY <1>2, <1>3, <1>6, <2>2
    <2>4. /\ SqueezeliteGone' /\ conf'.engine = "none" /\ conf'.type = "airplay2" /\ ~ conf'.node
          /\ runs'.replaynet = "off"
        BY <1>6, <2>2 DEF OwnTypes, InClearingAll, SqueezeliteGone
    <2> QED
        BY <1>6, <2>3, <2>4 DEF InClearingAll
<1>7. CASE i = 4
    <2>1. Own!Next1(c) = Own!Apply("shairport")
        BY <1>1, <1>3, <1>7
    <2>2. /\ UNCHANGED conf /\ Own!Leads(c, <<>>)
          /\ IF conf.airplay THEN Own!Started("shairport") ELSE Own!Stopped("shairport")
        BY <2>1, EffectApply
    <2>3. todo'[c] = <<>> /\ Others(c)
        BY <1>2, <1>3, <1>7, <2>2
    <2>4. conf.type = "airplay2" /\ conf.engine = "none" /\ ~ conf.node
          /\ SqueezeliteGone /\ runs.replaynet = "off"
        BY <1>7 DEF InClearingAll
    <2>5. Receives' /\ SqueezeliteGone' /\ runs'.replaynet = "off"
        BY <2>2, <2>4
        DEF OwnTypes, Own!Services, SqueezeliteGone, Receives, Own!RunsAs, Own!Started, Own!Stopped
    <2>6. OwnedByTwo'
        BY <2>2, <2>4, <2>5 DEF OwnedByTwo
    <2> QED
        BY <2>3, <2>6 DEF Owned
<1> QED
    BY <1>2, <1>4, <1>5, <1>6, <1>7

(* To AirPlay 1. *)
LEMMA ToEngineStep ==
    ASSUME OwnTypes, NEW c \in Own!Callers, NEW i, InToEngine(c, i), Moves(c)
    PROVE  Others(c) /\ (InToEngine(c, i + 1)' \/ InEnsuring(c, 1)')
<1>1. /\ ToEngine[1] = Own!Stop("squeezelite") /\ ToEngine[2] = Own!Set("engine", "replaynet")
      /\ ToEngine[3] = Own!Set("type", "classic") /\ ToEngine[4] = Own!Group("apply")
    BY DEF ToEngine
<1>2. /\ i \in 1..4 /\ i \in 1..Len(ToEngine) /\ Len(ToEngine) = 4
      /\ At(c, ToEngine, i) /\ IsProgram(ToEngine)
    BY Programs DEF InToEngine
<1>3. /\ Own!Next1(c) = ToEngine[i]
      /\ Own!Leads(c, <<>>) =>
            /\ Others(c) /\ (i < Len(ToEngine) => At(c, ToEngine, i + 1)')
            /\ i = Len(ToEngine) => todo'[c] = <<>>
    BY <1>2, RunsOn
<1>4. CASE i = 1
    <2>1. Own!Next1(c) = Own!Stop("squeezelite")
        BY <1>1, <1>3, <1>4
    <2>2. /\ boots' = [boots EXCEPT !["squeezelite"] = FALSE]
          /\ runs' = [runs EXCEPT !["squeezelite"] = "off"]
          /\ UNCHANGED <<conf, changed>> /\ Own!Leads(c, <<>>)
        BY <2>1, EffectStop
    <2>3. At(c, ToEngine, 2)' /\ Others(c)
        BY <1>2, <1>3, <1>4, <2>2
    <2>4. SqueezeliteGone' /\ Ready'
        BY <1>4, <2>2 DEF OwnTypes, Own!Services, InToEngine, SqueezeliteGone, Ready,
                         AsItShould, Receives
    <2> QED
        BY <1>4, <2>3, <2>4 DEF InToEngine
<1>5. CASE i = 2
    <2>1. Own!Next1(c) = Own!Set("engine", "replaynet")
        BY <1>1, <1>3, <1>5
    <2>2. /\ conf' = [conf EXCEPT !["engine"] = "replaynet"] /\ UNCHANGED <<boots, runs, changed>>
          /\ Own!Leads(c, <<>>)
        BY <2>1, EffectSet
    <2>3. At(c, ToEngine, 3)' /\ Others(c)
        BY <1>2, <1>3, <1>5, <2>2
    <2>4. SqueezeliteGone' /\ Ready' /\ conf'.engine = "replaynet"
        BY <1>5, <2>2 DEF OwnTypes, InToEngine, SqueezeliteGone, Ready, AsItShould, Receives
    <2> QED
        BY <1>5, <2>3, <2>4 DEF InToEngine
<1>6. CASE i = 3
    <2>1. Own!Next1(c) = Own!Set("type", "classic")
        BY <1>1, <1>3, <1>6
    <2>2. /\ conf' = [conf EXCEPT !["type"] = "classic"] /\ UNCHANGED <<boots, runs, changed>>
          /\ Own!Leads(c, <<>>)
        BY <2>1, EffectSet
    <2>3. At(c, ToEngine, 4)' /\ Others(c)
        BY <1>2, <1>3, <1>6, <2>2
    <2>4. /\ SqueezeliteGone' /\ Ready'
          /\ conf'.engine = "replaynet" /\ conf'.type = "classic"
        BY <1>6, <2>2 DEF OwnTypes, InToEngine, SqueezeliteGone, Ready, AsItShould, Receives
    <2> QED
        BY <1>6, <2>3, <2>4 DEF InToEngine
<1>7. CASE i = 4
    <2>1. Own!Next1(c) = Own!Group("apply")
        BY <1>1, <1>3, <1>7
    <2>2. /\ UNCHANGED <<conf, boots, runs>> /\ Own!Leads(c, Own!GroupProgram("apply"))
        BY <2>1, EffectGroup
    <2>3. Own!Leads(c, Ensuring)
        BY <1>7, <2>2, GroupPrograms DEF InToEngine
    <2>4. At(c, ToEngine, Len(ToEngine)) /\ Len(ToEngine) > 0 /\ IsProgram(ToEngine)
        BY <1>2, <1>7
    <2>5. At(c, Ensuring, 1)' /\ Others(c)
        BY <2>3, <2>4, LeadsTo, Programs
    <2>6. /\ SqueezeliteGone' /\ Ready'
          /\ conf'.engine = "replaynet" /\ conf'.type = "classic"
        BY <1>7, <2>2 DEF InToEngine, SqueezeliteGone, Ready, AsItShould, Receives
    <2> QED
        BY <2>5, <2>6 DEF InEnsuring
<1> QED
    BY <1>2, <1>4, <1>5, <1>6, <1>7

(* rn_engine_ensure starts shairport anew if it found anything lacking; if not, the
   engine was running, and shairport was what it should be. *)
LEMMA EnsuringStep ==
    ASSUME OwnTypes, NEW c \in Own!Callers, NEW i, InEnsuring(c, i), Moves(c)
    PROVE  Others(c) /\ (InEnsuring(c, i + 1)' \/ (todo'[c] = <<>> /\ Owned'))
<1>1. /\ Ensuring[1] = Own!Ensure("node") /\ Ensuring[2] = Own!Ensure("replaynet")
      /\ Ensuring[3] = Own!Ensure("pipe") /\ Ensuring[4] = Own!Apply("if-changed")
    BY DEF Ensuring
<1>2. /\ i \in 1..4 /\ i \in 1..Len(Ensuring) /\ Len(Ensuring) = 4
      /\ At(c, Ensuring, i) /\ IsProgram(Ensuring)
    BY Programs DEF InEnsuring
<1>3. /\ Own!Next1(c) = Ensuring[i]
      /\ Own!Leads(c, <<>>) =>
            /\ Others(c) /\ (i < Len(Ensuring) => At(c, Ensuring, i + 1)')
            /\ i = Len(Ensuring) => todo'[c] = <<>>
    BY <1>2, RunsOn
<1>4. CASE i = 1
    <2>1. Own!Next1(c) = Own!Ensure("node")
        BY <1>1, <1>3, <1>4
    <2>2. /\ changed' = [changed EXCEPT ![c] = @ \/ Own!Lacking("node")]
          /\ \/ ~ Own!Lacking("node") /\ UNCHANGED <<conf, boots, runs>>
             \/ conf' = [conf EXCEPT !["node"] = TRUE] /\ UNCHANGED <<boots, runs>>
          /\ Own!Leads(c, <<>>)
        BY <2>1, EffectEnsure
    <2>3. At(c, Ensuring, 2)' /\ Others(c)
        BY <1>2, <1>3, <1>4, <2>2
    <2>4. /\ SqueezeliteGone' /\ conf'.engine = "replaynet" /\ conf'.type = "classic"
        BY <1>4, <2>2 DEF OwnTypes, Own!Services, InEnsuring, SqueezeliteGone, Own!Started
    <2>5. Ready'
        BY <1>4, <2>2
        DEF OwnTypes, Own!Services, InEnsuring, Ready, AsItShould, Receives, Own!Lacking,
            Own!Started, Own!RunsAs
    <2> QED
        BY <1>4, <2>3, <2>4, <2>5 DEF InEnsuring
<1>5. CASE i = 2
    <2>1. Own!Next1(c) = Own!Ensure("replaynet")
        BY <1>1, <1>3, <1>5
    <2>2. /\ changed' = [changed EXCEPT ![c] = @ \/ Own!Lacking("replaynet")]
          /\ \/ ~ Own!Lacking("replaynet") /\ UNCHANGED <<conf, boots, runs>>
             \/ Own!Lacking("replaynet") /\ Own!Started("replaynet") /\ UNCHANGED conf
          /\ Own!Leads(c, <<>>)
        BY <2>1, EffectEnsure
    <2>3. At(c, Ensuring, 3)' /\ Others(c)
        BY <1>2, <1>3, <1>5, <2>2
    <2>4. /\ SqueezeliteGone' /\ conf'.engine = "replaynet" /\ conf'.type = "classic"
        BY <1>5, <2>2 DEF OwnTypes, Own!Services, InEnsuring, SqueezeliteGone, Own!Started
    <2>5. changed'[c] \/ AsItShould'
        <3>1. changed'[c] = (changed[c] \/ Own!Lacking("replaynet"))
            BY <2>2 DEF OwnTypes
        <3>2. ASSUME ~ Own!Lacking("replaynet") PROVE AsItShould'
            BY <1>5, <2>2, <3>2 DEF InEnsuring, Ready, AsItShould, Receives, Own!Lacking
        <3> QED
            BY <3>1, <3>2
    <2> QED
        BY <1>5, <2>3, <2>4, <2>5 DEF InEnsuring
<1>6. CASE i = 3
    <2>1. Own!Next1(c) = Own!Ensure("pipe")
        BY <1>1, <1>3, <1>6
    <2>2. /\ changed' = [changed EXCEPT ![c] = @ \/ Own!Lacking("pipe")]
          /\ \/ ~ Own!Lacking("pipe") /\ UNCHANGED <<conf, boots, runs>>
             \/ conf' = [conf EXCEPT !["pipe"] = TRUE] /\ UNCHANGED <<boots, runs>>
          /\ Own!Leads(c, <<>>)
        BY <2>1, EffectEnsure
    <2>3. At(c, Ensuring, 4)' /\ Others(c)
        BY <1>2, <1>3, <1>6, <2>2
    <2>4. /\ SqueezeliteGone' /\ conf'.engine = "replaynet" /\ conf'.type = "classic"
        BY <1>6, <2>2 DEF OwnTypes, Own!Services, InEnsuring, SqueezeliteGone, Own!Started
    <2>5. changed'[c] \/ AsItShould'
        <3>1. changed'[c] = (changed[c] \/ Own!Lacking("pipe"))
            BY <2>2 DEF OwnTypes
        <3>2. changed[c] \/ AsItShould
            BY <1>6 DEF InEnsuring
        <3>3. AsItShould => AsItShould'
            BY <2>2 DEF OwnTypes, AsItShould, Receives
        <3> QED
            BY <3>1, <3>2, <3>3
    <2> QED
        BY <1>6, <2>3, <2>4, <2>5 DEF InEnsuring
<1>7. CASE i = 4
    <2>1. Own!Next1(c) = Own!Apply("if-changed")
        BY <1>1, <1>3, <1>7
    <2>2. /\ UNCHANGED conf /\ Own!Leads(c, <<>>)
          /\ \/ IF conf.airplay THEN Own!Started("shairport") ELSE Own!Stopped("shairport")
             \/ ~ changed[c] /\ UNCHANGED <<boots, runs>>
        BY <2>1, EffectApply
    <2>3. todo'[c] = <<>> /\ Others(c)
        BY <1>2, <1>3, <1>7, <2>2
    <2>4. /\ SqueezeliteGone /\ conf.engine = "replaynet" /\ conf.type = "classic"
          /\ changed[c] \/ AsItShould
        BY <1>7 DEF InEnsuring
    <2>5. SqueezeliteGone' /\ AsItShould'
        <3>1. CASE ~ changed[c] /\ UNCHANGED <<boots, runs>>
            BY <2>2, <2>4, <3>1 DEF SqueezeliteGone, AsItShould, Receives
        <3>2. CASE IF conf.airplay THEN Own!Started("shairport") ELSE Own!Stopped("shairport")
            BY <2>2, <2>4, <3>2 DEF OwnTypes, Own!Services, SqueezeliteGone, AsItShould,
                                    Receives, Own!RunsAs, Own!Started, Own!Stopped
        <3> QED
            BY <2>2, <3>1, <3>2
    <2>6. OwnedByEngine'
        BY <2>2, <2>4, <2>5 DEF OwnedByEngine, AsItShould
    <2> QED
        BY <2>3, <2>6 DEF Owned
<1> QED
    BY <1>2, <1>4, <1>5, <1>6, <1>7

(* A change of the group, on a device that is owned. *)
LEMMA RegroupingStep ==
    ASSUME OwnTypes, NEW c \in Own!Callers, NEW role, InRegrouping(c, role), Moves(c)
    PROVE  Others(c) /\ (InEnsuring(c, 1)' \/ InClearingAll(c, 1)' \/ InClearing(c, 1)')
<1>1. /\ role \in {"apply", "toggle"} /\ At(c, Regrouping(role), 1) /\ Owned
      /\ ~ (role = "toggle" /\ conf.engine = "none") => ~ OwnedByLms
    BY DEF InRegrouping
<1>2. IsProgram(Regrouping(role)) /\ Len(Regrouping(role)) = 1
    BY Programs
<1>3. Own!Next1(c) = Own!Group(role)
    <2>1. Regrouping(role)[1] = Own!Group(role)
        BY DEF Regrouping
    <2>2. 1 \in 1..Len(Regrouping(role))
        BY <1>2
    <2> QED
        BY <1>1, <1>2, <2>1, <2>2, RunsOn
<1>4. UNCHANGED <<conf, boots, runs>> /\ Own!Leads(c, Own!GroupProgram(role))
    BY <1>3, EffectGroup
<1>5. At(c, Regrouping(role), Len(Regrouping(role))) /\ Len(Regrouping(role)) > 0
    BY <1>1, <1>2
<1>6. CASE conf.engine = "replaynet"
    <2>1. OwnedByEngine
        BY <1>1, <1>6 DEF Owned, OwnedByTwo
    <2>2. Own!Leads(c, Ensuring)
        BY <1>4, <1>6, GroupPrograms
    <2>3. At(c, Ensuring, 1)' /\ Others(c)
        BY <1>2, <1>5, <2>2, LeadsTo, Programs
    <2>4. SqueezeliteGone' /\ Ready' /\ conf'.engine = "replaynet" /\ conf'.type = "classic"
        BY <1>4, <2>1 DEF OwnedByEngine, SqueezeliteGone, Ready, AsItShould, Receives
    <2> QED
        BY <2>3, <2>4 DEF InEnsuring
<1>7. CASE conf.engine # "replaynet" /\ role = "apply"
    <2>1. OwnedByTwo
        BY <1>1, <1>7 DEF Owned, OwnedByEngine
    <2>2. Own!Leads(c, ClearingAll)
        BY <1>4, <1>7, GroupPrograms
    <2>3. At(c, ClearingAll, 1)' /\ Others(c)
        BY <1>2, <1>5, <2>2, LeadsTo, Programs
    <2>4. SqueezeliteGone' /\ conf'.engine = "none" /\ conf'.type = "airplay2"
        BY <1>4, <2>1 DEF OwnedByTwo, SqueezeliteGone
    <2> QED
        BY <2>3, <2>4 DEF InClearingAll
<1>8. CASE conf.engine # "replaynet" /\ role = "toggle"
    <2>1. Own!Leads(c, Clearing)
        BY <1>4, <1>8, GroupPrograms
    <2>2. At(c, Clearing, 1)' /\ Others(c)
        BY <1>2, <1>5, <2>1, LeadsTo, Programs
    <2>3. conf.engine = "none"
        BY <1>1, <1>8 DEF Owned, OwnedByTwo, OwnedByEngine
    <2>4. Owned' /\ conf'.engine = "none"
        BY <1>1, <1>4, <2>3
        DEF Owned, OwnedByLms, OwnedByEngine, OwnedByTwo, SqueezeliteGone, Receives
    <2> QED
        BY <2>2, <2>4 DEF InClearing
<1> QED
    BY <1>1, <1>6, <1>7, <1>8

(* Without the engine, taking it out changes nothing. *)
LEMMA ClearingKeeps ==
    ASSUME OwnTypes, Owned, conf.engine = "none",
           \/ conf' = [conf EXCEPT !["node"] = FALSE] /\ UNCHANGED <<boots, runs>>
           \/ conf' = [conf EXCEPT !["pipe"] = FALSE] /\ UNCHANGED <<boots, runs>>
           \/ /\ boots' = [boots EXCEPT !["replaynet"] = FALSE]
              /\ runs' = [runs EXCEPT !["replaynet"] = "off"] /\ UNCHANGED conf
    PROVE  Owned' /\ conf'.engine = "none"
<1>1. CASE OwnedByLms
    <2>1. OwnedByLms' /\ conf'.engine = "none"
        BY <1>1 DEF OwnTypes, Own!Services, OwnedByLms
    <2> QED
        BY <2>1 DEF Owned
<1>2. CASE OwnedByTwo
    <2>1. OwnedByTwo' /\ conf'.engine = "none"
        BY <1>2 DEF OwnTypes, Own!Services, OwnedByTwo, SqueezeliteGone, Receives
    <2> QED
        BY <2>1 DEF Owned
<1> QED
    BY <1>1, <1>2 DEF Owned, OwnedByEngine

LEMMA ClearingStep ==
    ASSUME OwnTypes, NEW c \in Own!Callers, NEW i, InClearing(c, i), Moves(c)
    PROVE  Others(c) /\ (InClearing(c, i + 1)' \/ (todo'[c] = <<>> /\ Owned'))
<1>1. /\ Clearing[1] = Own!Set("node", FALSE) /\ Clearing[2] = Own!Stop("replaynet")
      /\ Clearing[3] = Own!Set("pipe", FALSE)
    BY DEF Clearing
<1>2. /\ i \in 1..3 /\ i \in 1..Len(Clearing) /\ Len(Clearing) = 3
      /\ At(c, Clearing, i) /\ IsProgram(Clearing)
    BY Programs DEF InClearing
<1>3. /\ Own!Next1(c) = Clearing[i]
      /\ Own!Leads(c, <<>>) =>
            /\ Others(c) /\ (i < Len(Clearing) => At(c, Clearing, i + 1)')
            /\ i = Len(Clearing) => todo'[c] = <<>>
    BY <1>2, RunsOn
<1>4. Owned /\ conf.engine = "none"
    BY DEF InClearing
<1>5. Own!Leads(c, <<>>) /\ Owned' /\ conf'.engine = "none"
    <2>1. CASE i = 1
        <3>1. Own!Next1(c) = Own!Set("node", FALSE)
            BY <1>1, <1>3, <2>1
        <3>2. /\ conf' = [conf EXCEPT !["node"] = FALSE] /\ UNCHANGED <<boots, runs, changed>>
              /\ Own!Leads(c, <<>>)
            BY <3>1, EffectSet
        <3>3. Owned' /\ conf'.engine = "none"
            BY <1>4, <3>2, ClearingKeeps
        <3> QED
            BY <3>2, <3>3
    <2>2. CASE i = 2
        <3>1. Own!Next1(c) = Own!Stop("replaynet")
            BY <1>1, <1>3, <2>2
        <3> QED
            BY <1>4, <3>1, EffectStop, ClearingKeeps
    <2>3. CASE i = 3
        <3>1. Own!Next1(c) = Own!Set("pipe", FALSE)
            BY <1>1, <1>3, <2>3
        <3>2. /\ conf' = [conf EXCEPT !["pipe"] = FALSE] /\ UNCHANGED <<boots, runs, changed>>
              /\ Own!Leads(c, <<>>)
            BY <3>1, EffectSet
        <3>3. Owned' /\ conf'.engine = "none"
            BY <1>4, <3>2, ClearingKeeps
        <3> QED
            BY <3>2, <3>3
    <2> QED
        BY <1>2, <2>1, <2>2, <2>3
<1>6. i < 3 => InClearing(c, i + 1)'
    BY <1>2, <1>3, <1>5 DEF InClearing
<1>7. i = 3 => todo'[c] = <<>>
    BY <1>2, <1>3, <1>5
<1> QED
    BY <1>2, <1>3, <1>5, <1>6, <1>7

(* A script that moves stays within its program, goes on to the next, or has left
   the speaker to an owner. *)
LEMMA WithinStep ==
    ASSUME OwnTypes, NEW c \in Own!Callers, Within(c), Moves(c)
    PROVE  Others(c) /\ (Within(c)' \/ (todo'[c] = <<>> /\ Owned'))
<1>1. ASSUME NEW i, InToLms(c, i) PROVE Others(c) /\ (Within(c)' \/ (todo'[c] = <<>> /\ Owned'))
    BY <1>1, ToLmsStep DEF Within, InToLms
<1>2. ASSUME NEW i, InFromLms(c, i) PROVE Others(c) /\ Within(c)'
    BY <1>2, FromLmsStep DEF Within, InFromLms
<1>3. ASSUME NEW i, InToTwo(c, i) PROVE Others(c) /\ Within(c)'
    BY <1>3, ToTwoStep DEF Within, InToTwo
<1>4. ASSUME NEW i, InClearingAll(c, i)
      PROVE  Others(c) /\ (Within(c)' \/ (todo'[c] = <<>> /\ Owned'))
    BY <1>4, ClearingAllStep DEF Within, InClearingAll
<1>5. ASSUME NEW i, InToEngine(c, i) PROVE Others(c) /\ Within(c)'
    BY <1>5, ToEngineStep DEF Within, InToEngine
<1>6. ASSUME NEW i, InEnsuring(c, i)
      PROVE  Others(c) /\ (Within(c)' \/ (todo'[c] = <<>> /\ Owned'))
    BY <1>6, EnsuringStep DEF Within, InEnsuring
<1>7. ASSUME NEW i, InClearing(c, i)
      PROVE  Others(c) /\ (Within(c)' \/ (todo'[c] = <<>> /\ Owned'))
    BY <1>7, ClearingStep DEF Within, InClearing
<1>8. ASSUME NEW role, InRegrouping(c, role) PROVE Others(c) /\ Within(c)'
    BY <1>8, RegroupingStep DEF Within
<1> QED
    BY <1>1, <1>2, <1>3, <1>4, <1>5, <1>6, <1>7, <1>8 DEF Within

(* A script within its program is at work. *)
LEMMA Unfinished ==
    ASSUME NEW program, IsProgram(program), NEW i \in 1..Len(program)
    PROVE  SubSeq(program, i, Len(program)) # <<>>
<1>1. PICK S : program \in Seq(S)
    BY DEF IsProgram
<1>2. Len(program) \in Nat
    BY <1>1, LenProperties
<1>3. \A j \in i..Len(program) : program[j] \in S
    BY <1>1, <1>2, LenProperties
<1>4. Len(SubSeq(program, i, Len(program))) = Len(program) - i + 1
    BY <1>2, <1>3, SubSeqProperties
<1>5. Len(program) - i + 1 # 0
    BY <1>2
<1> QED
    BY <1>4, <1>5

LEMMA WithinWorks == \A c \in Own!Callers : (Within(c) => todo[c] # <<>>)'
<1> SUFFICES ASSUME NEW c \in Own!Callers, Within(c)' PROVE todo'[c] # <<>>
    OBVIOUS
<1>1. ASSUME NEW program, IsProgram(program), NEW i \in 1..Len(program), At(c, program, i)'
      PROVE  todo'[c] # <<>>
    BY <1>1, Unfinished DEF At
<1>2. ASSUME NEW i, InToLms(c, i)' PROVE todo'[c] # <<>>
    BY <1>1, <1>2, Programs DEF InToLms
<1>3. ASSUME NEW i, InFromLms(c, i)' PROVE todo'[c] # <<>>
    BY <1>1, <1>3, Programs DEF InFromLms
<1>4. ASSUME NEW i, InToTwo(c, i)' PROVE todo'[c] # <<>>
    BY <1>1, <1>4, Programs DEF InToTwo
<1>5. ASSUME NEW i, InClearingAll(c, i)' PROVE todo'[c] # <<>>
    BY <1>1, <1>5, Programs DEF InClearingAll
<1>6. ASSUME NEW i, InToEngine(c, i)' PROVE todo'[c] # <<>>
    BY <1>1, <1>6, Programs DEF InToEngine
<1>7. ASSUME NEW i, InEnsuring(c, i)' PROVE todo'[c] # <<>>
    BY <1>1, <1>7, Programs DEF InEnsuring
<1>8. ASSUME NEW i, InClearing(c, i)' PROVE todo'[c] # <<>>
    BY <1>1, <1>8, Programs DEF InClearing
<1>9. ASSUME NEW role, InRegrouping(c, role)' PROVE todo'[c] # <<>>
    <2>1. At(c, Regrouping(role), 1)' /\ 1 \in 1..Len(Regrouping(role))
        BY <1>9, Programs, SMTT(30) DEF InRegrouping
    <2> QED
        BY <1>1, <2>1, Programs
<1> QED
    BY <1>2, <1>3, <1>4, <1>5, <1>6, <1>7, <1>8, <1>9 DEF Within

(* One script at work stays the one at work, or leaves an owner. *)
LEMMA ScriptStep == OwnTypes /\ OneAtWork /\ Own!Script => OneAtWork'
<1> SUFFICES ASSUME OwnTypes, OneAtWork, Own!Script PROVE OneAtWork'
    OBVIOUS
<1>1. PICK c \in Own!Callers : Moves(c)
    BY DEF Own!Script, Moves
<1>2. c \in Own!Working
    BY <1>1 DEF Moves, Own!Sets, Own!Stops, Own!Starts, Own!Restarts, Own!Ensures,
                Own!Groups, Own!Applies, Own!Does
<1>3. Own!Working = {c} /\ Within(c)
    BY <1>2 DEF OneAtWork
<1>4. Others(c) /\ (Within(c)' \/ (todo'[c] = <<>> /\ Owned'))
    BY <1>1, <1>3, WithinStep
<1>5. \A b \in Own!Callers : b # c => todo'[b] = <<>>
    BY <1>3, <1>4 DEF Others, Own!Working
<1>6. CASE Within(c)'
    <2>1. todo'[c] # <<>>
        BY <1>6, WithinWorks
    <2>2. Own!Working' = {c}
        BY <1>5, <2>1 DEF Own!Working
    <2> QED
        BY <1>6, <2>2 DEF OneAtWork
<1>7. CASE todo'[c] = <<>> /\ Owned'
    <2>1. Own!Working' = {}
        BY <1>5, <1>7 DEF Own!Working
    <2> QED
        BY <1>7, <2>1 DEF OneAtWork
<1> QED
    BY <1>4, <1>6, <1>7

(* A script begins where none is at work. *)
LEMMA Begins ==
    ASSUME OwnTypes, Own!Working = {}, NEW c \in Own!Callers, NEW program,
           IsProgram(program), Len(program) > 0, Own!Begin(c, program)
    PROVE  At(c, program, 1)' /\ Own!Working' = {c} /\ UNCHANGED <<conf, boots, runs, changed>>
<1>1. PICK S : program \in Seq(S)
    BY DEF IsProgram
<1>2. todo' = [todo EXCEPT ![c] = program] /\ UNCHANGED <<conf, boots, runs, changed>>
    BY DEF Own!Begin, Own!services
<1>3. todo'[c] = program /\ \A b \in Own!Callers : b # c => todo'[b] = <<>>
    BY <1>2 DEF OwnTypes, Own!Working
<1>4. program # <<>>
    BY <1>1
<1>5. Own!Working' = {c}
    BY <1>3, <1>4 DEF Own!Working
<1>6. SubSeq(program, 1, Len(program)) = program
    BY <1>1, SubSeqFull
<1> QED
    BY <1>2, <1>3, <1>5, <1>6 DEF At

LEMMA OwnedIsReady == Owned => Ready
BY DEF Owned, OwnedByLms, OwnedByEngine, OwnedByTwo, Ready, AsItShould

(* What may be asked for, with no script at work, begins one of the programs. *)
LEMMA AskedStep == OwnerInv /\ Own!Asked /\ ~ disturbed' => OneAtWork'
<1> SUFFICES ASSUME OwnTypes, ~ disturbed => OneAtWork, Own!Asked, ~ disturbed'
             PROVE  OneAtWork'
    BY DEF OwnerInv
<1> DEFINE r == "remote"
<1>1. r \in Own!Callers /\ "knob" \in Own!Callers
    BY DEF Own!Callers
<1>2. ASSUME NEW c \in Own!Callers, Own!Working' = {c}, Within(c)' PROVE OneAtWork'
    BY <1>2 DEF OneAtWork
<1>3. ~ disturbed /\ Own!Working = {} => Owned
    BY DEF OneAtWork
<1> HIDE DEF r
<1>4. CASE Own!Rights(Own!AirplayMode("ap2"))
    <2>1. Own!Begin(r, ToTwo) /\ Own!Working = {}
        BY <1>4, ModePrograms DEF Own!Rights, r
    <2>2. At(r, ToTwo, 1)' /\ Own!Working' = {r}
        BY <1>1, <2>1, Begins, Programs, SMTT(30)
    <2>3. InToTwo(r, 1)'
        BY <2>2 DEF InToTwo
    <2>4. Within(r)'
        BY <2>3 DEF Within
    <2> QED
        BY <1>1, <1>2, <2>2, <2>4
<1>5. CASE Own!Rights(Own!SetLms(TRUE))
    <2>1. Own!Begin(r, ToLms) /\ Own!Working = {}
        BY <1>5, ModePrograms DEF Own!Rights, r
    <2>2. At(r, ToLms, 1)' /\ Own!Working' = {r}
        BY <1>1, <2>1, Begins, Programs, SMTT(30)
    <2>3. InToLms(r, 1)'
        BY <2>2 DEF InToLms
    <2>4. Within(r)'
        BY <2>3 DEF Within
    <2> QED
        BY <1>1, <1>2, <2>2, <2>4
<1>6. CASE Own!Switch(Own!AirplayMode("ap1"))
    <2>1. Own!Begin(r, ToEngine) /\ Own!Working = {} /\ ~ disturbed
        BY <1>6, ModePrograms DEF Own!Switch, r
    <2>2. At(r, ToEngine, 1)' /\ Own!Working' = {r}
        BY <1>1, <2>1, Begins, Programs
    <2>3. UNCHANGED <<conf, boots, runs, changed>>
        BY <2>1 DEF Own!Begin, Own!services
    <2>4. Ready'
        BY <1>3, <2>1, <2>3, OwnedIsReady DEF Ready, AsItShould, Receives
    <2>5. InToEngine(r, 1)'
        BY <2>2, <2>4 DEF InToEngine
    <2>6. Within(r)'
        BY <2>5 DEF Within
    <2> QED
        BY <1>1, <1>2, <2>2, <2>6
<1>7. CASE Own!Switch(Own!SetLms(FALSE))
    <2>1. Own!Begin(r, FromLms) /\ Own!Working = {} /\ ~ disturbed
        BY <1>7, ModePrograms DEF Own!Switch, r
    <2>2. At(r, FromLms, 1)' /\ Own!Working' = {r}
        BY <1>1, <2>1, Begins, Programs, SMTT(30)
    <2>3. UNCHANGED <<conf, boots, runs, changed>>
        BY <2>1 DEF Own!Begin, Own!services
    <2>4. Ready'
        BY <1>3, <2>1, <2>3, OwnedIsReady DEF Ready, AsItShould, Receives
    <2>5. InFromLms(r, 1)'
        BY <2>2, <2>4 DEF InFromLms
    <2>6. Within(r)'
        BY <2>5 DEF Within
    <2> QED
        BY <1>1, <1>2, <2>2, <2>6
<1>8. ASSUME NEW c \in Own!Callers, NEW role \in {"apply", "toggle"}, Own!Regroup(c, role)
      PROVE  OneAtWork'
    <2>1. /\ Own!Begin(c, Regrouping(role)) /\ Own!Working = {} /\ ~ disturbed
          /\ ~ Own!Rouses(role)
        BY <1>8 DEF Own!Regroup, Regrouping
    <2>2. /\ At(c, Regrouping(role), 1)' /\ Own!Working' = {c}
          /\ UNCHANGED <<conf, boots, runs, changed>>
        BY <2>1, Begins, Programs, SMTT(30)
    <2>3. Owned'
        BY <1>3, <2>1, <2>2
        DEF Owned, OwnedByLms, OwnedByEngine, OwnedByTwo, SqueezeliteGone, Receives
    <2>4. (~ (role = "toggle" /\ conf.engine = "none") => ~ OwnedByLms)'
        BY <2>1, <2>2 DEF Own!Rouses, OwnedByLms
    <2>5. InRegrouping(c, role)'
        BY <2>2, <2>3, <2>4 DEF InRegrouping
    <2>6. Within(c)'
        BY <2>5 DEF Within
    <2> QED
        BY <1>2, <2>2, <2>6
<1>9. ASSUME NEW program PROVE ~ Own!Shell(program)
    BY DEF Own!Shell
<1> QED
    BY <1>1, <1>4, <1>5, <1>6, <1>7, <1>8, <1>9 DEF Own!Asked, r

(* A reboot starts what was on, and nothing else. *)
LEMMA RebootStep == OwnerInv /\ Own!Reboot /\ ~ disturbed' => OneAtWork'
<1> SUFFICES ASSUME OwnTypes, ~ disturbed => OneAtWork, Own!Reboot, ~ disturbed'
             PROVE  OneAtWork'
    BY DEF OwnerInv
<1>1. Own!Working = {} /\ ~ disturbed /\ UNCHANGED <<conf, boots>>
    BY DEF Own!Reboot
<1>2. Owned
    BY <1>1 DEF OneAtWork
<1>3. Own!Working' = {}
    BY DEF Own!Reboot, Own!Working
<1>4. /\ runs'.squeezelite = IF boots.squeezelite /\ conf.lms THEN "on" ELSE "off"
      /\ runs'.shairport = IF boots.shairport THEN conf.type ELSE "off"
      /\ runs'.replaynet = IF boots.replaynet /\ conf.node THEN "on" ELSE "off"
    BY DEF Own!Reboot, Own!Services, Own!RunsAs
<1>5. CASE OwnedByLms
    <2>1. OwnedByLms'
        BY <1>1, <1>4, <1>5 DEF OwnedByLms
    <2> QED
        BY <1>3, <2>1 DEF OneAtWork, Owned
<1>6. CASE OwnedByEngine
    <2>1. OwnedByEngine'
        BY <1>1, <1>4, <1>6 DEF OwnedByEngine, SqueezeliteGone, Receives
    <2> QED
        BY <1>3, <2>1 DEF OneAtWork, Owned
<1>7. CASE OwnedByTwo
    <2>1. OwnedByTwo'
        BY <1>1, <1>4, <1>7 DEF OwnedByTwo, SqueezeliteGone, Receives
    <2> QED
        BY <1>3, <2>1 DEF OneAtWork, Owned
<1> QED
    BY <1>2, <1>5, <1>6, <1>7 DEF Owned

(* Scripts that run, begin or are cut short, and all else, keep the invariant. *)
LEMMA OwnerStep == OwnerInv /\ [Next]_vars => OwnerInv'
<1> SUFFICES ASSUME OwnerInv, [Next]_vars PROVE OwnerInv'
    OBVIOUS
<1>1. CASE Own!OwnNext
    <2>1. OwnTypes'
        BY <1>1, TypesKept DEF OwnerInv
    <2>2. ASSUME ~ disturbed' PROVE OneAtWork'
        <3>1. CASE Own!Script
            <4>1. OwnTypes /\ OneAtWork
                BY <2>2, <3>1 DEF OwnerInv, Own!Script
            <4> QED
                BY <3>1, <4>1, ScriptStep
        <3>2. CASE Own!Asked
            BY <2>2, <3>2, AskedStep
        <3>3. CASE Own!Reboot
            BY <2>2, <3>3, RebootStep
        <3> QED
            BY <1>1, <3>1, <3>2, <3>3 DEF Own!OwnNext
    <2> QED
        BY <2>1, <2>2 DEF OwnerInv
<1>2. CASE UNCHANGED ownState
    <2>1. UNCHANGED <<conf, boots, runs, todo, changed, disturbed>>
        BY <1>2 DEF ownState
    <2>2. OwnTypes'
        BY <2>1 DEF OwnerInv, OwnTypes
    <2>3. Owned' = Owned /\ Own!Working' = Own!Working
        BY <2>1 DEF Owned, OwnedByLms, OwnedByEngine, OwnedByTwo, SqueezeliteGone,
                    Receives, Own!Working
    <2>4. ASSUME NEW c PROVE Within(c) => Within(c)'
        BY <2>1, <2>3, ZenonT(60) DEF Within, InToLms, InFromLms, InToTwo, InClearingAll, InToEngine,
            InEnsuring, InClearing, InRegrouping, At, Ready, AsItShould, SqueezeliteGone,
            Receives, OwnedByLms
    <2>5. OneAtWork => OneAtWork'
        BY <2>3, <2>4 DEF OneAtWork
    <2> QED
        BY <2>1, <2>2, <2>5 DEF OwnerInv
<1> QED
    BY <1>1, <1>2, StepOfOwner

(* With no script at work and nothing to excuse it, the speaker is AirPlay's or
   LMS's and never both, AirPlay 2 and the engine do not run together, and somebody
   has the speaker unless AirPlay was turned off: whatever the switches of mode, the
   changes of the group and the reboots were before. *)
THEOREM OwnerTheorem == Spec => []OneOwner
<1>1. Init => OwnerInv
    BY OwnerInit
<1>2. OwnerInv /\ [Next]_vars => OwnerInv'
    BY OwnerStep
<1>3. OwnerInv => OneOwner
    <2> SUFFICES ASSUME OwnerInv, Own!Working = {}, ~ disturbed
                 PROVE  /\ runs.squeezelite = "on" =>
                              runs.shairport = "off" /\ runs.replaynet = "off"
                        /\ runs.replaynet = "on" => runs.shairport # "airplay2"
                        /\ runs.squeezelite = "off" /\ conf.airplay => runs.shairport # "off"
        BY DEF OneOwner, Own!OneOwner
    <2>1. Owned
        BY DEF OwnerInv, OneAtWork
    <2> QED
        BY <2>1 DEF Owned, OwnedByLms, OwnedByEngine, OwnedByTwo, SqueezeliteGone, Receives
<1> QED
    BY <1>1, <1>2, <1>3, PTL DEF Spec

-----------------------------------------------------------------------------
(* The setup AP: why it is up beside a network only if somebody asked for it. *)
Steps == {"idle", "arm", "export", "name", "enable", "handover", "commit", "mark", "reload"}
Rounds == Looking \cup {"raise", "unmark", "confirm", "lower", "disable", "revert", "disarm",
                        "apply"}
Midway == {"enable", "handover", "commit"}      \* set_wifi has edited and not committed

WifiTypes ==
    /\ cfg \in Config /\ saved \in Config /\ live \in Config
    /\ prev \in [dir : BOOLEAN, file : SUBSET Config]
    /\ rpc \in Steps /\ wd \in Rounds /\ target \in Networks \cup {Unset}
    /\ linked \in BOOLEAN /\ reloadDue \in BOOLEAN /\ invited \in BOOLEAN /\ crossed \in BOOLEAN

(* A setup AP beside a network is one the owner asked for, or the race's. *)
Asked(c) == c.ap /\ c.net # Unset => invited \/ crossed

(* So it is in every configuration that can be loaded: only between its first and
   its last edit set_wifi has one that is not, which whoever loads or keeps it races
   with.  The watchdog raises the AP for want of a network. *)
Consented ==
    /\ Asked(live) /\ Asked(saved) /\ \A c \in prev.file : Asked(c)
    /\ Asked(cfg) \/ rpc \in {"enable", "handover"}
    /\ wd \in {"ap_up", "raise"} => cfg.net = Unset \/ crossed
    /\ wd \in {"revert", "apply"} /\ rpc \in Midway => crossed
    /\ reloadDue => invited

WifiInv == WifiTypes /\ Consented

(* What the kinds of configuration the scripts make are. *)
LEMMA Made ==
    ASSUME WifiAssumption
    PROVE  /\ \A n \in Networks \cup {Unset} :
                  Client(n) \in Config /\ Client(n).net = n /\ Client(n).client /\ ~ Client(n).ap
           /\ \A c \in Config : Setup(c) \in Config /\ Setup(c).net = c.net /\ Setup(c).ap
           /\ \A c \in Config : c.net \in Networks \cup {Unset}
BY DEF WifiAssumption, Client, Setup, Config

(* What set_wifi edits, and what a revert takes along of it. *)
LEMMA Edited ==
    ASSUME WifiTypes
    PROVE  /\ \A c \in Config : Staged(c) \in Config
           /\ \A c \in Config : rpc \notin Midway => Staged(c) = c
           /\ rpc \in Keys => WithKey(cfg) \in Config
           /\ rpc = "handover" => ~ WithKey(cfg).ap
<1>1. ASSUME NEW c \in Config PROVE Staged(c) \in Config
    BY <1>1 DEF WifiTypes, Staged, Config
<1>2. ASSUME NEW c \in Config, rpc \notin Midway PROVE Staged(c) = c
    BY <1>2 DEF Staged, Config, Midway
<1>3. ASSUME rpc \in Keys PROVE WithKey(cfg) \in Config
    <2>1. CASE rpc = "name"
        BY <2>1 DEF WifiTypes, WithKey, Config
    <2>2. CASE rpc = "enable"
        BY <2>2 DEF WifiTypes, WithKey, Config
    <2>3. CASE rpc = "handover"
        BY <2>3 DEF WifiTypes, WithKey, Config
    <2> QED
        BY <1>3, <2>1, <2>2, <2>3 DEF Keys
<1>4. ASSUME rpc = "handover" PROVE ~ WithKey(cfg).ap
    BY <1>4 DEF WifiTypes, WithKey, Config
<1> QED
    BY <1>1, <1>2, <1>3, <1>4

(* The device starts with a network that works, or with none. *)
LEMMA WifiBegun == WifiAssumption /\ WifiInit => WifiInv
<1> SUFFICES ASSUME WifiAssumption, WifiInit PROVE WifiInv
    OBVIOUS
<1>1. cfg \in Config /\ ~ cfg.ap
    <2>1. CASE cfg \in {Client(n) : n \in Good}
        <3>1. PICK n \in Good : cfg = Client(n)
            BY <2>1
        <3>2. n \in Networks
            BY DEF WifiAssumption
        <3> QED
            BY <3>1, <3>2, Made
    <2>2. CASE cfg = [net |-> Unset, client |-> FALSE, ap |-> FALSE]
        BY <2>2 DEF Config
    <2> QED
        BY <2>1, <2>2 DEF WifiInit
<1>2. WifiTypes
    BY <1>1 DEF WifiInit, WifiTypes, Disarmed, Steps, Rounds, Looking
<1>3. Consented
    BY <1>1 DEF WifiInit, Consented, Asked, Disarmed, Midway
<1> QED
    BY <1>2, <1>3 DEF WifiInv

(* The steps of set_wifi: when it has edited, the AP it found is gone again. *)
LEMMA SetWifiInv == WifiAssumption /\ WifiInv /\ SetWifi => WifiInv'
<1> SUFFICES ASSUME WifiAssumption, WifiInv, SetWifi PROVE WifiInv'
    OBVIOUS
<1> USE DEF WifiInv
<1>1. UNCHANGED <<reloadDue, invited>> /\ Cross /\ crossed' \in BOOLEAN /\ (crossed => crossed')
    BY DEF SetWifi, Cross, WifiTypes
<1>2. CASE Arm
    <2>1. UNCHANGED <<cfg, saved, live, linked, target, wd>> /\ rpc' \in {"export", "name"}
        BY <1>2 DEF Arm, radio, uci
    <2>2. /\ prev' \in [dir : BOOLEAN, file : SUBSET Config]
          /\ prev'.file \subseteq prev.file
        <3>1. CASE UNCHANGED prev
            BY <3>1 DEF WifiTypes
        <3>2. CASE prev' = [dir |-> TRUE, file |-> {}]
            BY <3>2
        <3> QED
            BY <1>2, <3>1, <3>2 DEF Arm
    <2>3. rpc \notin {"enable", "handover"} /\ rpc' \notin Midway
        BY <1>2, <2>1 DEF Arm, Midway
    <2> QED
        BY <1>1, <2>1, <2>2, <2>3 DEF WifiTypes, Consented, Asked, Steps
<1>3. CASE Export
    <2>1. UNCHANGED <<cfg, saved, live, linked, target, wd>> /\ rpc = "export" /\ rpc' = "name"
        BY <1>3 DEF Export, radio, uci
    <2>2. /\ prev' \in [dir : BOOLEAN, file : SUBSET Config]
          /\ prev'.file \subseteq prev.file \cup {cfg}
        BY <1>3 DEF Export, Snapshot, WifiTypes
    <2> QED
        BY <1>1, <2>1, <2>2 DEF WifiTypes, Consented, Asked, Steps, Midway
<1>4. CASE Edit
    <2>1. UNCHANGED <<saved, live, linked, prev, target, wd>> /\ rpc' \in Midway
        BY <1>4 DEF Edit, Keys, AfterKey, Midway
    <2>2. cfg' \in Config
        BY <1>4, Edited DEF Edit
    <2>3. rpc' = "commit" => ~ cfg'.ap
        BY <1>4, Edited DEF Edit, Keys, AfterKey
    <2>4. wd' \in {"ap_up", "raise", "revert", "apply"} => crossed'
        BY <1>1, <2>1 DEF Cross, Midway
    <2>5. WifiTypes'
        BY <1>1, <2>1, <2>2 DEF WifiTypes, Steps, Midway
    <2> QED
        BY <1>1, <2>1, <2>3, <2>4, <2>5 DEF Consented, Asked, Midway
<1>5. CASE Commit
    <2>1. /\ UNCHANGED <<cfg, live, linked, prev, target, wd>>
          /\ saved' = cfg /\ rpc = "commit" /\ rpc' = "mark"
        BY <1>5 DEF Commit, Commits
    <2> QED
        BY <1>1, <2>1 DEF WifiTypes, Consented, Asked, Steps, Midway
<1>6. CASE Mark
    <2>1. UNCHANGED <<cfg, saved, live, linked, prev, target, wd>> /\ rpc = "mark" /\ rpc' = "reload"
        BY <1>6 DEF Mark, radio, uci
    <2> QED
        BY <1>1, <2>1 DEF WifiTypes, Consented, Asked, Steps, Midway
<1>7. CASE Switch
    <2>1. /\ UNCHANGED <<cfg, saved, prev, target, wd>>
          /\ live' = cfg /\ linked' = FALSE /\ rpc = "reload" /\ rpc' = "idle"
        BY <1>7 DEF Switch, Reload, uci
    <2> QED
        BY <1>1, <2>1 DEF WifiTypes, Consented, Asked, Steps, Midway
<1> QED
    BY <1>2, <1>3, <1>4, <1>5, <1>6, <1>7 DEF SetWifi

(* The steps of the watchdog that leave the owner's consent alone: all but Confirm.
   It raises the AP for want of a network, and what it goes back to was there before. *)
LEMMA WatchdogSteps ==
    ASSUME WifiAssumption, WifiInv, UNCHANGED <<reloadDue, invited, rpc, target>>, Cross,
           Look \/ Raise \/ Unmark \/ Lower \/ Revert \/ Disarm \/ Apply \/ Wakes
    PROVE  WifiInv'
<1> USE DEF WifiInv
<1>1. /\ crossed' \in BOOLEAN /\ (crossed => crossed')
      /\ rpc \in Midway /\ wd' \in {"ap_up", "raise", "revert", "apply"} => crossed'
    BY DEF Cross, WifiTypes, Midway
<1>2. CASE Look
    <2>1. UNCHANGED <<cfg, saved, live, linked, prev>>
        BY <1>2 DEF Look, Looks, radio, uci
    <2>2. wd' \in Rounds \ {"apply"}
        BY <1>2 DEF Look, Looks, Rounds, Looking
    <2>3. wd' = "ap_up" => cfg.net = Unset
        BY <1>2 DEF Look, Looks, NoClient
    <2>4. wd' = "raise" => wd = "ap_up"
        BY <1>2 DEF Look, Looks
    <2>5. Consented'
        BY <1>1, <2>1, <2>2, <2>3, <2>4 DEF Consented, Asked
    <2> QED
        BY <1>1, <2>1, <2>2, <2>5 DEF WifiTypes
<1>3. CASE Raise
    <2>1. /\ UNCHANGED <<live, linked, prev>> /\ cfg' = Setup(cfg) /\ saved' = cfg'
          /\ wd = "raise" /\ wd' = "apply"
        BY <1>3 DEF Raise, Commits
    <2>2. cfg' \in Config /\ cfg'.net = cfg.net
        BY <2>1, Made DEF WifiTypes
    <2>3. cfg.net = Unset \/ crossed
        BY <2>1 DEF Consented
    <2>4. WifiTypes'
        BY <1>1, <2>1, <2>2 DEF WifiTypes, Rounds
    <2> QED
        BY <1>1, <2>1, <2>2, <2>3, <2>4 DEF Consented, Asked
<1>4. CASE Unmark
    <2>1. UNCHANGED <<cfg, saved, live, linked, prev>> /\ wd' = "confirm"
        BY <1>4 DEF Unmark, radio, uci
    <2> QED
        BY <1>1, <2>1 DEF WifiTypes, Consented, Asked, Rounds
<1>5. CASE Lower
    <2>1. /\ UNCHANGED <<live, linked, prev>> /\ cfg' = Client(cfg.net) /\ saved' = cfg'
          /\ wd' = "apply"
        BY <1>5 DEF Lower, Commits
    <2>2. cfg' \in Config /\ ~ cfg'.ap
        BY <2>1, Made DEF WifiTypes
    <2>3. WifiTypes'
        BY <1>1, <2>1, <2>2 DEF WifiTypes, Rounds
    <2> QED
        BY <1>1, <2>1, <2>2, <2>3 DEF Consented, Asked
<1>6. CASE Revert
    <2>1. UNCHANGED <<live, linked, prev>> /\ wd = "revert" /\ wd' = "disarm"
        BY <1>6 DEF Revert, Commits, radio
    <2>2. \/ UNCHANGED <<cfg, saved>>
          \/ \E c \in prev.file : cfg' \in {c, Staged(c)} /\ saved' = cfg'
        BY <1>6 DEF Revert, Commits, radio, uci
    <2>3. CASE UNCHANGED <<cfg, saved>>
        BY <1>1, <2>1, <2>3 DEF WifiTypes, Consented, Asked, Rounds
    <2>4. CASE \E c \in prev.file : cfg' \in {c, Staged(c)} /\ saved' = cfg'
        <3>1. PICK c \in prev.file : cfg' \in {c, Staged(c)} /\ saved' = cfg'
            BY <2>4
        <3>2. c \in Config /\ Asked(c)
            BY DEF WifiTypes, Consented
        <3>3. cfg' \in Config
            BY <3>1, <3>2, Edited
        <3>4. crossed \/ cfg' = c
            BY <2>1, <3>1, <3>2, Edited DEF Consented
        <3>5. WifiTypes'
            BY <1>1, <2>1, <3>1, <3>3 DEF WifiTypes, Rounds
        <3> QED
            BY <1>1, <2>1, <3>1, <3>2, <3>4, <3>5 DEF Consented, Asked
    <2> QED
        BY <2>2, <2>3, <2>4
<1>7. CASE Disarm
    <2>1. UNCHANGED <<cfg, saved, live, linked>> /\ wd' = "apply" /\ prev' = Disarmed
        BY <1>7 DEF Disarm, radio, uci
    <2> QED
        BY <1>1, <2>1 DEF WifiTypes, Consented, Asked, Disarmed, Rounds
<1>8. CASE Apply
    <2>1. /\ UNCHANGED <<cfg, saved, prev>> /\ live' = cfg /\ linked' = FALSE
          /\ wd = "apply" /\ wd' = "sleep"
        BY <1>8 DEF Apply, Reload, uci
    <2>2. Asked(cfg) \/ crossed
        BY <2>1 DEF Consented, Midway
    <2> QED
        BY <1>1, <2>1, <2>2 DEF WifiTypes, Consented, Asked, Rounds, Looking
<1>9. CASE Wakes
    <2>1. UNCHANGED <<cfg, saved, live, linked, prev>> /\ wd' = "look"
        BY <1>9 DEF Wakes, radio, uci
    <2> QED
        BY <1>1, <2>1 DEF WifiTypes, Consented, Asked, Rounds, Looking
<1> QED
    BY <1>2, <1>3, <1>4, <1>5, <1>6, <1>7, <1>8, <1>9

(* With the consent the watchdog drops every configuration that would need it. *)
LEMMA WatchdogInv == WifiAssumption /\ WifiInv /\ Watchdog => WifiInv'
<1> SUFFICES ASSUME WifiAssumption, WifiInv, Watchdog PROVE WifiInv'
    OBVIOUS
<1>1. CASE Confirm
    <2> USE DEF WifiInv
    <2>1. /\ UNCHANGED <<cfg, saved, live, linked, rpc, target, reloadDue>>
          /\ wd = "confirm" /\ wd' = "lower" /\ prev' = Disarmed
        BY <1>1 DEF Confirm, Watchdog, radio, uci
    <2>2. CASE OnlineForGood /\ invited' = FALSE /\ crossed' = FALSE
        <3>1. ~ live.ap /\ ~ cfg.ap /\ ~ saved.ap /\ ~ reloadDue
            BY <2>2 DEF OnlineForGood
        <3>2. WifiTypes'
            BY <2>1, <2>2 DEF WifiTypes, Disarmed, Rounds
        <3> QED
            BY <2>1, <3>1, <3>2 DEF Consented, Asked, Disarmed
    <2>3. CASE Cross /\ UNCHANGED invited
        <3>1. crossed' \in BOOLEAN /\ (crossed => crossed')
            BY <2>3 DEF Cross, WifiTypes
        <3> QED
            BY <2>1, <2>3, <3>1 DEF WifiTypes, Consented, Asked, Disarmed, Rounds
    <2> QED
        BY <2>2, <2>3 DEF Watchdog
<1>2. CASE Look \/ Raise \/ Unmark \/ Lower \/ Revert \/ Disarm \/ Apply \/ Wakes
    <2>1. wd # "confirm" /\ UNCHANGED <<rpc, target>>
        BY <1>2 DEF Look, Looks, Raise, Unmark, Lower, Revert, Disarm, Apply, Wakes
    <2>2. UNCHANGED <<reloadDue, invited>> /\ Cross
        BY <2>1 DEF Watchdog, OnlineForGood
    <2> QED
        BY <1>2, <2>1, <2>2, WatchdogSteps
<1> QED
    BY <1>1, <1>2 DEF Watchdog

(* What the owner, the air, time and the mains do. *)
LEMMA EventInv == WifiAssumption /\ WifiInv /\ (HoldReload \/ Radio \/ Uptime \/ Event) => WifiInv'
<1> SUFFICES ASSUME WifiAssumption, WifiInv, HoldReload \/ Radio \/ Uptime \/ Event PROVE WifiInv'
    OBVIOUS
<1> USE DEF WifiInv
<1>1. CASE HoldReload
    <2>1. /\ UNCHANGED <<cfg, saved, prev, rpc, target, wd, invited, crossed>>
          /\ reloadDue /\ reloadDue' = FALSE /\ live' = cfg /\ linked' = FALSE
        BY <1>1 DEF HoldReload, Reload, uci
    <2> QED
        BY <2>1 DEF WifiTypes, Consented, Asked
<1>2. CASE Radio \/ Uptime
    <2>1. /\ UNCHANGED <<cfg, saved, live, prev, rpc, target, wd, reloadDue, invited, crossed>>
          /\ linked' \in BOOLEAN
        BY <1>2 DEF Radio, Links, Uptime, Tick, past, radio, uci, WifiTypes
    <2> QED
        BY <2>1 DEF WifiTypes, Consented, Asked
<1>3. CASE (\E n \in Networks : Submit(n)) /\ UNCHANGED <<reloadDue, invited, crossed>>
    <2>1. /\ UNCHANGED <<cfg, saved, live, linked, prev, wd>> /\ target' \in Networks
          /\ rpc = "idle" /\ rpc' = "arm"
        BY <1>3 DEF Submit, radio, uci
    <2> QED
        BY <1>3, <2>1 DEF WifiTypes, Consented, Asked, Steps, Midway
<1>4. CASE Drops /\ UNCHANGED <<reloadDue, invited, crossed>>
    <2>1. UNCHANGED <<cfg, saved, live, prev, rpc, target, wd>> /\ linked' = FALSE
        BY <1>4 DEF Drops, uci
    <2> QED
        BY <1>4, <2>1 DEF WifiTypes, Consented, Asked
<1>5. CASE Hold /\ invited' = TRUE /\ UNCHANGED crossed
    <2>1. /\ UNCHANGED <<live, linked, prev, rpc, target, wd>> /\ reloadDue' = TRUE
          /\ cfg' = Setup(cfg) /\ saved' = cfg'
        BY <1>5 DEF Hold, Commits
    <2>2. cfg' \in Config /\ cfg'.net = cfg.net
        BY <2>1, Made DEF WifiTypes
    <2>3. WifiTypes'
        BY <1>5, <2>1, <2>2 DEF WifiTypes
    <2> QED
        BY <1>5, <2>1, <2>2, <2>3 DEF Consented, Asked
<1>6. CASE Reboot /\ UNCHANGED <<invited, crossed>>
    <2>1. /\ cfg' = saved /\ live' = saved /\ saved' = saved /\ linked' = FALSE /\ reloadDue' = FALSE
          /\ prev' = Disarmed /\ rpc' = "idle" /\ wd' = "look" /\ target' = target
        BY <1>6 DEF Reboot
    <2>2. WifiTypes'
        BY <1>6, <2>1 DEF WifiTypes, Disarmed, Steps, Rounds, Looking
    <2> QED
        BY <1>6, <2>1, <2>2 DEF Consented, Asked, Disarmed, Midway
<1> QED
    BY <1>1, <1>2, <1>3, <1>4, <1>5, <1>6 DEF Event

LEMMA WifiKept == WifiAssumption /\ WifiInv /\ [Next]_vars => WifiInv'
<1> SUFFICES ASSUME WifiAssumption, WifiInv, [Next]_vars PROVE WifiInv'
    OBVIOUS
<1>1. CASE SetWifi
    BY <1>1, SetWifiInv
<1>2. CASE Watchdog
    BY <1>2, WatchdogInv
<1>3. CASE HoldReload \/ Radio \/ Uptime \/ Event
    BY <1>3, EventInv
<1>4. CASE UNCHANGED wifiVars
    BY <1>4 DEF wifiVars, WifiInv, WifiTypes, Consented, Asked
<1> QED
    BY <1>1, <1>2, <1>3, <1>4, StepOfWifi DEF WifiNext

(* Whatever the networks, the length of the window and the number of events: no
   loss of the link, no join and no power cut raises the setup AP of a device that
   has a network, unless its owner asked for it or set_wifi was setting the network
   while the watchdog still went by its want of one. *)
THEOREM AntiDeauthTheorem == WifiAssumption => (Spec => []AntiDeauth)
<1> SUFFICES ASSUME WifiAssumption PROVE Spec => []AntiDeauth
    OBVIOUS
<1>1. Init => WifiInv
    BY WifiBegun DEF Init
<1>2. WifiInv /\ [Next]_vars => WifiInv'
    BY WifiKept
<1>3. WifiInv => AntiDeauth
    BY DEF WifiInv, Consented, Asked, AntiDeauth
<1> QED
    BY <1>1, <1>2, <1>3, PTL DEF Spec

-----------------------------------------------------------------------------
(* The way home: what is left to go back to while a join is tried. *)

(* A configuration the device gets home with: the setup AP is up, or the watchdog
   raises it for want of a network, or the network is one that lets it in. *)
Homely(c) == c.ap \/ c.net = Unset \/ (c.client /\ c.net \in Good)

(* There is always a way home: in the configuration, or in the snapshot that the
   watchdog goes back to. *)
WayHome == raced \/ Homely(cfg) \/ (prev.dir /\ \E c \in prev.file : Homely(c))

(* The snapshot is taken before the network is changed, and kept until the watchdog
   went back to it or found the device connected with what it replaced.  While
   set_wifi is at work the watchdog does no more than look, and while it is not, the
   radio runs what is configured, or is about to be reloaded with the AP. *)
SnapshotKept == prev.dir /\ prev.file # {}

Alone ==
    /\ \A c \in prev.file : Homely(c)
    /\ Homely(cfg) \/ SnapshotKept
    /\ prev.dir /\ rpc # "export" => prev.file # {}
    /\ rpc = "export" => prev.dir /\ Homely(cfg)
    /\ rpc \notin {"idle", "arm", "export"} => SnapshotKept
    /\ rpc # "idle" => wd \in Looking
    /\ rpc \in {"idle", "arm", "export", "name"} /\ wd \notin {"disarm", "apply"} =>
          live.net = cfg.net /\ (live = cfg \/ cfg.ap)
    /\ wd \in {"unmark", "confirm", "lower", "disable"} => cfg.net \in Good /\ Homely(cfg)
    /\ wd = "disarm" => Homely(cfg)

WayKept ==
    /\ linked => live.client /\ live.net \in Good
    /\ rpc \notin Midway => saved = cfg
    /\ ~ raced => Alone

LEMMA WayBegun == WifiAssumption /\ WifiInit => WayKept
<1> SUFFICES ASSUME WifiAssumption, WifiInit PROVE WayKept
    OBVIOUS
<1>1. Homely(cfg)
    <2>1. CASE cfg \in {Client(n) : n \in Good}
        BY <2>1 DEF Homely, Client
    <2>2. CASE cfg = [net |-> Unset, client |-> FALSE, ap |-> FALSE]
        BY <2>2 DEF Homely
    <2> QED
        BY <2>1, <2>2 DEF WifiInit
<1> QED
    BY <1>1 DEF WifiInit, WayKept, Alone, SnapshotKept, Disarmed

(* While set_wifi is at work and has met nobody, the watchdog only looks. *)
LEMMA WaySetWifi == WifiInv /\ WayKept /\ SetWifi => WayKept'
<1> SUFFICES ASSUME WifiInv, WayKept, SetWifi PROVE WayKept'
    OBVIOUS
<1>1. ~ raced' => ~ raced /\ Alone /\ (rpc' # "idle" => wd' \in Looking)
    BY DEF SetWifi, Meet, WayKept
<1>2. CASE Arm
    <2>1. UNCHANGED <<cfg, saved, live, linked, wd>> /\ rpc = "arm"
        BY <1>2 DEF Arm, radio, uci
    <2>2. \/ prev.dir /\ rpc' = "name" /\ prev' = prev
          \/ ~ prev.dir /\ rpc' = "export" /\ prev' = [dir |-> TRUE, file |-> {}]
        BY <1>2 DEF Arm
    <2>3. ASSUME ~ raced' PROVE Alone'
        BY <1>1, <2>1, <2>2, <2>3 DEF Alone, SnapshotKept, Homely
    <2> QED
        BY <2>1, <2>2, <2>3 DEF WayKept, Midway
<1>3. CASE Export
    <2>1. UNCHANGED <<cfg, saved, live, linked, wd>> /\ rpc = "export" /\ rpc' = "name"
        BY <1>3 DEF Export, radio, uci
    <2>2. ASSUME ~ raced' PROVE Alone'
        <3>1. prev.dir /\ Homely(cfg)
            BY <1>1, <2>1, <2>2 DEF Alone
        <3>2. prev'.dir /\ prev'.file = {cfg}
            BY <1>3, <3>1 DEF Export, Snapshot, WifiInv, WifiTypes
        <3> QED
            BY <1>1, <2>1, <2>2, <3>1, <3>2 DEF Alone, SnapshotKept, Homely
    <2> QED
        BY <2>1, <2>2 DEF WayKept, Midway
<1>4. CASE Edit
    <2>1. /\ UNCHANGED <<saved, live, linked, prev, wd>>
          /\ rpc \notin {"idle", "arm", "export"} /\ rpc' \in Midway
        BY <1>4 DEF Edit, Keys, AfterKey, Midway
    <2>2. ASSUME ~ raced' PROVE Alone'
        <3>1. SnapshotKept /\ SnapshotKept'
            BY <1>1, <2>1, <2>2 DEF Alone, SnapshotKept
        <3> QED
            BY <1>1, <2>1, <2>2, <3>1 DEF Alone, SnapshotKept, Homely, Midway, Looking
    <2> QED
        BY <2>1, <2>2 DEF WayKept
<1>5. CASE Commit \/ Mark
    <2>1. /\ UNCHANGED <<cfg, live, linked, prev, wd>> /\ rpc' \in {"mark", "reload"}
          /\ rpc \in {"commit", "mark"} /\ (saved' = cfg \/ (rpc = "mark" /\ saved' = saved))
        BY <1>5 DEF Commit, Commits, Mark, radio, uci
    <2>2. ASSUME ~ raced' PROVE Alone'
        BY <1>1, <2>1, <2>2 DEF Alone, SnapshotKept, Homely
    <2> QED
        BY <2>1, <2>2 DEF WayKept, Midway
<1>6. CASE Switch
    <2>1. /\ UNCHANGED <<cfg, saved, prev, wd>> /\ live' = cfg /\ linked' = FALSE
          /\ rpc = "reload" /\ rpc' = "idle"
        BY <1>6 DEF Switch, Reload, uci
    <2>2. ASSUME ~ raced' PROVE Alone'
        BY <1>1, <2>1, <2>2 DEF Alone, SnapshotKept, Homely
    <2> QED
        BY <2>1, <2>2 DEF WayKept, Midway
<1> QED
    BY <1>2, <1>3, <1>4, <1>5, <1>6 DEF SetWifi

(* The snapshot goes only when the configuration gets the device home. *)
LEMMA WayWatchdog == WifiAssumption /\ WifiInv /\ WayKept /\ Watchdog => WayKept'
<1> SUFFICES ASSUME WifiAssumption, WifiInv, WayKept, Watchdog PROVE WayKept'
    OBVIOUS
<1>1. ~ raced' => ~ raced /\ Alone /\ (rpc' # "idle" => wd' \in Looking)
    BY DEF Watchdog, Meet, WayKept
<1>2. UNCHANGED rpc
    BY DEF Watchdog, Look, Looks, Raise, Unmark, Confirm, Lower, Revert, Disarm, Apply, Wakes
<1>3. CASE Look
    <2>1. UNCHANGED <<cfg, saved, live, linked, prev>>
        BY <1>3 DEF Look, Looks, radio, uci
    <2>2. /\ wd' # "confirm" /\ wd' # "lower" /\ wd' # "disarm" /\ wd' # "apply"
          /\ wd \notin {"disarm", "apply"}
        BY <1>3 DEF Look, Looks
    <2>3. wd' = "unmark" => linked
        BY <1>3 DEF Look, Looks
    <2>4. wd' = "disable" => wd = "lower"
        BY <1>3 DEF Look, Looks
    <2>5. ASSUME ~ raced' PROVE Alone'
        <3>1. CASE wd' = "unmark"
            <4>1. rpc = "idle" /\ live.client /\ live.net \in Good
                BY <1>1, <1>2, <2>3, <2>5, <3>1 DEF WayKept, Looking
            <4>2. cfg.net \in Good /\ Homely(cfg)
                BY <1>1, <2>2, <2>5, <4>1 DEF Alone, Homely
            <4> QED
                BY <1>1, <1>2, <2>1, <2>2, <2>5, <3>1, <4>1, <4>2 DEF Alone, SnapshotKept, Homely
        <3>2. CASE wd' # "unmark"
            BY <1>1, <1>2, <2>1, <2>2, <2>4, <2>5, <3>2 DEF Alone, SnapshotKept, Homely
        <3> QED
            BY <3>1, <3>2
    <2> QED
        BY <1>2, <2>1, <2>5 DEF WayKept
<1>4. CASE Raise
    <2>1. /\ UNCHANGED <<live, linked, prev>> /\ cfg' = Setup(cfg) /\ saved' = cfg' /\ wd' = "apply"
        BY <1>4 DEF Raise, Commits
    <2>2. cfg'.ap
        BY <2>1, Made DEF WifiInv, WifiTypes
    <2>3. ASSUME ~ raced' PROVE Alone'
        BY <1>1, <1>2, <2>1, <2>2, <2>3 DEF Alone, SnapshotKept, Homely
    <2> QED
        BY <2>1, <2>3 DEF WayKept
<1>5. CASE Unmark
    <2>1. UNCHANGED <<cfg, saved, live, linked, prev>> /\ wd = "unmark" /\ wd' = "confirm"
        BY <1>5 DEF Unmark, radio, uci
    <2>2. ASSUME ~ raced' PROVE Alone'
        BY <1>1, <1>2, <2>1, <2>2 DEF Alone, SnapshotKept, Homely
    <2> QED
        BY <1>2, <2>1, <2>2 DEF WayKept
<1>6. CASE Confirm
    <2>1. /\ UNCHANGED <<cfg, saved, live, linked>> /\ prev' = Disarmed
          /\ wd = "confirm" /\ wd' = "lower"
        BY <1>6 DEF Confirm, radio, uci
    <2>2. ASSUME ~ raced' PROVE Alone'
        <3>1. rpc = "idle" /\ cfg.net \in Good /\ Homely(cfg)
            BY <1>1, <2>1, <2>2, <1>2 DEF Alone, Looking
        <3> QED
            BY <1>1, <1>2, <2>1, <2>2, <3>1 DEF Alone, SnapshotKept, Homely, Disarmed
    <2> QED
        BY <1>2, <2>1, <2>2 DEF WayKept
<1>7. CASE Lower
    <2>1. /\ UNCHANGED <<live, linked, prev>> /\ cfg' = Client(cfg.net) /\ saved' = cfg'
          /\ wd = "disable" /\ wd' = "apply"
        BY <1>7 DEF Lower, Commits
    <2>2. cfg'.net = cfg.net /\ cfg'.client
        BY <2>1, Made DEF WifiInv, WifiTypes
    <2>3. ASSUME ~ raced' PROVE Alone'
        BY <1>1, <1>2, <2>1, <2>2, <2>3 DEF Alone, SnapshotKept, Homely
    <2> QED
        BY <2>1, <2>3 DEF WayKept
<1>8. CASE Revert
    <2>1. UNCHANGED <<live, linked, prev>> /\ wd = "revert" /\ wd' = "disarm"
        BY <1>8 DEF Revert, Commits, radio
    <2>2. \/ UNCHANGED <<cfg, saved>> /\ prev.file = {}
          \/ \E c \in prev.file : cfg' \in {c, Staged(c)} /\ saved' = cfg'
        BY <1>8 DEF Revert, Commits, radio, uci
    <2>3. rpc \notin Midway => saved' = cfg'
        BY <2>2 DEF WayKept
    <2>4. ASSUME ~ raced' PROVE Alone'
        <3>1. rpc = "idle"
            BY <1>1, <1>2, <2>1, <2>4 DEF Looking
        <3>2. Homely(cfg')
            <4>1. CASE UNCHANGED <<cfg, saved>> /\ prev.file = {}
                BY <1>1, <2>4, <4>1 DEF Alone, SnapshotKept, Homely
            <4>2. CASE \E c \in prev.file : cfg' \in {c, Staged(c)} /\ saved' = cfg'
                <5>1. PICK c \in prev.file : cfg' \in {c, Staged(c)}
                    BY <4>2
                <5>2. c \in Config /\ Homely(c)
                    BY <1>1, <2>4 DEF WifiInv, WifiTypes, Alone
                <5>3. cfg' = c
                    BY <3>1, <5>1, <5>2, Edited DEF WifiInv, Midway
                <5> QED
                    BY <5>2, <5>3
            <4> QED
                BY <2>2, <4>1, <4>2
        <3> QED
            BY <1>1, <1>2, <2>1, <2>4, <3>1, <3>2 DEF Alone, SnapshotKept, Homely
    <2> QED
        BY <1>2, <2>1, <2>3, <2>4 DEF WayKept
<1>9. CASE Disarm
    <2>1. /\ UNCHANGED <<cfg, saved, live, linked>> /\ prev' = Disarmed
          /\ wd = "disarm" /\ wd' = "apply"
        BY <1>9 DEF Disarm, radio, uci
    <2>2. ASSUME ~ raced' PROVE Alone'
        <3>1. rpc = "idle" /\ Homely(cfg)
            BY <1>1, <1>2, <2>1, <2>2 DEF Alone, Looking
        <3> QED
            BY <1>1, <1>2, <2>1, <2>2, <3>1 DEF Alone, SnapshotKept, Homely, Disarmed
    <2> QED
        BY <1>2, <2>1, <2>2 DEF WayKept
<1>10. CASE Apply \/ Wakes
    <2>1. /\ UNCHANGED <<cfg, saved, prev>> /\ wd' \in {"sleep", "look"}
          /\ \/ live' = cfg /\ linked' = FALSE
             \/ wd = "sleep" /\ UNCHANGED <<live, linked>>
        BY <1>10 DEF Apply, Reload, Wakes, radio, uci
    <2>2. ASSUME ~ raced' PROVE Alone'
        BY <1>1, <1>2, <2>1, <2>2 DEF Alone, SnapshotKept, Homely
    <2> QED
        BY <1>2, <2>1, <2>2 DEF WayKept
<1> QED
    BY <1>3, <1>4, <1>5, <1>6, <1>7, <1>8, <1>9, <1>10 DEF Watchdog

LEMMA WayEvent ==
    WifiAssumption /\ WifiInv /\ WayKept /\ (HoldReload \/ Radio \/ Uptime \/ Event) => WayKept'
<1> SUFFICES ASSUME WifiAssumption, WifiInv, WayKept, HoldReload \/ Radio \/ Uptime \/ Event
             PROVE  WayKept'
    OBVIOUS
<1>1. CASE HoldReload
    <2>1. /\ UNCHANGED <<cfg, saved, prev, rpc, wd, raced>> /\ live' = cfg /\ linked' = FALSE
        BY <1>1 DEF HoldReload, Reload, uci
    <2> QED
        BY <2>1 DEF WayKept, Alone, SnapshotKept, Homely
<1>2. CASE Radio \/ Uptime
    <2>1. /\ UNCHANGED <<cfg, saved, live, prev, rpc, wd, raced>>
          /\ linked' => linked \/ (live.client /\ live.net \in Good)
        BY <1>2 DEF Radio, Links, Joinable, Uptime, Tick, past, radio, uci
    <2> QED
        BY <2>1 DEF WayKept, Alone, SnapshotKept, Homely
<1>3. CASE (\E n \in Networks : Submit(n)) /\ Meet
    <2>1. /\ UNCHANGED <<cfg, saved, live, linked, prev, wd>> /\ rpc = "idle" /\ rpc' = "arm"
        BY <1>3 DEF Submit, radio, uci
    <2>2. ~ raced' => ~ raced /\ wd \in Looking
        BY <1>3, <2>1 DEF Meet
    <2> QED
        BY <2>1, <2>2 DEF WayKept, Alone, SnapshotKept, Homely, Midway
<1>4. CASE Drops /\ UNCHANGED raced
    <2>1. UNCHANGED <<cfg, saved, live, prev, rpc, wd, raced>> /\ linked' = FALSE
        BY <1>4 DEF Drops, uci
    <2> QED
        BY <2>1 DEF WayKept, Alone, SnapshotKept, Homely
<1>5. CASE Hold /\ UNCHANGED raced
    <2>1. /\ UNCHANGED <<live, linked, prev, rpc, wd, raced>> /\ cfg' = Setup(cfg) /\ saved' = cfg'
        BY <1>5 DEF Hold, Commits
    <2>2. cfg'.ap /\ cfg'.net = cfg.net
        BY <2>1, Made DEF WifiInv, WifiTypes
    <2> QED
        BY <2>1, <2>2 DEF WayKept, Alone, SnapshotKept, Homely
<1>6. CASE Reboot /\ raced' = (raced \/ prev.dir \/ rpc # "idle")
    <2>1. /\ cfg' = saved /\ live' = saved /\ saved' = saved /\ linked' = FALSE
          /\ prev' = Disarmed /\ rpc' = "idle" /\ wd' = "look"
        BY <1>6 DEF Reboot
    <2>2. ASSUME ~ raced' PROVE Alone'
        <3>1. Homely(cfg) /\ saved = cfg
            BY <1>6, <2>2 DEF WayKept, Alone, SnapshotKept, Midway
        <3> QED
            BY <2>1, <3>1 DEF Alone, SnapshotKept, Homely, Disarmed
    <2> QED
        BY <2>1, <2>2 DEF WayKept
<1> QED
    BY <1>1, <1>2, <1>3, <1>4, <1>5, <1>6 DEF Event

LEMMA WayStep == WifiAssumption /\ WifiInv /\ WayKept /\ [Next]_vars => WayKept'
<1> SUFFICES ASSUME WifiAssumption, WifiInv, WayKept, [Next]_vars PROVE WayKept'
    OBVIOUS
<1>1. CASE SetWifi
    BY <1>1, WaySetWifi
<1>2. CASE Watchdog
    BY <1>2, WayWatchdog
<1>3. CASE HoldReload \/ Radio \/ Uptime \/ Event
    BY <1>3, WayEvent
<1>4. CASE UNCHANGED wifiVars
    BY <1>4 DEF wifiVars, WayKept, Alone, SnapshotKept, Homely
<1> QED
    BY <1>1, <1>2, <1>3, <1>4, StepOfWifi DEF WifiNext

(* Whatever networks the owner names, right or wrong, and whenever the link, the
   knob or the mains come in between: unless set_wifi and the watchdog acted at once
   or a reboot took the snapshot, the device has a configuration it gets home with,
   or the snapshot of one. *)
THEOREM WayHomeTheorem == WifiAssumption => (Spec => []WayHome)
<1> SUFFICES ASSUME WifiAssumption PROVE Spec => []WayHome
    OBVIOUS
<1>1. Init => WifiInv /\ WayKept
    BY WifiBegun, WayBegun DEF Init
<1>2. WifiInv /\ WayKept /\ [Next]_vars => WifiInv' /\ WayKept'
    BY WifiKept, WayStep
<1>3. WayKept => WayHome
    BY DEF WayKept, Alone, SnapshotKept, WayHome
<1> QED
    BY <1>1, <1>2, <1>3, PTL DEF Spec

-----------------------------------------------------------------------------
(* The DMA ring.  hw_params is called once for each hw_free (~Reentry). *)

(* The stream has a ring, a running stereo block and a clock of its rate. *)
SetUp == mapped /\ stereo = "on" /\ clk = rate /\ (le => swap)

Types ==
    /\ nperiods \in Nat /\ nperiods >= 2 /\ own \in [0..nperiods-1 -> BOOLEAN]
    /\ hwIdx \in Nat /\ pos \in Nat /\ alsaPos \in Nat /\ filled \in Int /\ ahead \in Int
    /\ masked \in BOOLEAN /\ status \in BOOLEAN /\ mapped \in BOOLEAN
    /\ le \in BOOLEAN /\ swap \in BOOLEAN
    /\ isr \in {"idle", "walk", "leave"}
    /\ eng \in {"off", "run", "last", "halted", "stray"}
    /\ pcm \in {"closed", "open", "setup", "prepared", "running", "xrun", "freeing"}

(* What the order of the callbacks ensures. *)
Phases ==
    /\ pcm \in {"closed", "open"} => masked
    /\ pcm # "closed" => stereo = "on"
    /\ pcm \in {"setup", "prepared", "running", "xrun"} => SetUp
    /\ pcm \in {"prepared", "running", "xrun"} => ~masked
    /\ ~masked => SetUp
    /\ isr # "idle" => ~masked
    /\ eng \in {"run", "halted"} => pcm = "running"
    /\ pcm = "prepared" => eng = "off"
    /\ eng = "last" => ~masked
    /\ eng = "stray" => masked

(* Arc, place by place. *)
InArc(i) ==
    \/ hwIdx < pos /\ hwIdx <= i /\ i < pos
    \/ hwIdx > pos /\ (i < pos \/ hwIdx <= i)
    \/ hwIdx = pos /\ ~own[hwIdx]

Places ==
    ~masked =>
        /\ hwIdx < nperiods /\ pos < nperiods
        /\ \A i \in 0..nperiods-1 : ~own[i] <=> InArc(i)
        /\ isr # "walk" /\ ~status => own[hwIdx]
        /\ pcm = "prepared" => \A i \in 0..nperiods-1 : own[i]

Counted ==
    pcm \in {"prepared", "running"} => alsaPos = hwIdx /\ filled = ahead + Cardinality(Back)

DmaInv == Types /\ Phases /\ Places /\ Counted

-----------------------------------------------------------------------------
LEMMA BackFinite == ASSUME nperiods \in Nat PROVE IsFiniteSet(Back)
<1>1. IsFiniteSet(0..nperiods-1)
  BY FS_Interval
<1> QED
  BY <1>1, FS_Subset DEF Back

LEMMA InitInv == DmaAssumption /\ DmaInit => DmaInv
<1> SUFFICES ASSUME DmaAssumption, DmaInit PROVE DmaInv
  OBVIOUS
<1>1. Types
  <2>1. nperiods = 2 /\ 0..nperiods-1 = 0..1
    BY DEF DmaInit
  <2>2. own \in [0..nperiods-1 -> BOOLEAN]
    BY <2>1 DEF DmaInit
  <2>3. masked \in BOOLEAN /\ status \in BOOLEAN /\ mapped \in BOOLEAN
        /\ le \in BOOLEAN /\ swap \in BOOLEAN
    BY DEF DmaInit
  <2> QED
    BY <2>1, <2>2, <2>3 DEF Types, DmaInit
<1>2. Phases /\ Places /\ Counted
  BY DEF Phases, Places, Counted, DmaInit
<1> QED
  BY <1>1, <1>2 DEF DmaInv

(* The engine gives back the descriptor it is on. *)
LEMMA CompletesStep == DmaInv /\ EngineCompletes => DmaInv'
<1> SUFFICES ASSUME DmaInv, EngineCompletes PROVE DmaInv'
  OBVIOUS
<1> USE DEF DmaInv, core, ring, engine, i2s
<1>1. ~masked /\ pos < nperiods /\ pos \in 0..nperiods-1 /\ own[pos] /\ pcm # "prepared"
  BY DEF Types, Phases, Places, EngineCompletes
<1>2. Advance(pos) \in Nat /\ Advance(pos) < nperiods
  BY <1>1 DEF Types, Advance
<1>3. Types'
  <2>1. own' \in [0..nperiods'-1 -> BOOLEAN]
    BY DEF Types, EngineCompletes
  <2>2. ahead' \in Int /\ pos' \in Nat /\ eng' \in {"off", "run", "last"}
    BY <1>2 DEF Types, EngineCompletes
  <2> QED
    BY <2>1, <2>2 DEF Types, EngineCompletes
<1>4. Phases'
  BY DEF Types, Phases, SetUp, EngineCompletes
<1>5. Places'
  <2>1. hwIdx' = hwIdx /\ nperiods' = nperiods /\ pos' = Advance(pos) /\ status'
        /\ own' = [own EXCEPT ![pos] = FALSE] /\ pcm' = pcm
    BY DEF EngineCompletes
  <2>2. hwIdx \in 0..nperiods-1 /\ nperiods \in Nat /\ nperiods >= 2 /\ pos \in Nat
    BY <1>1 DEF Types, Places
  <2>3. ASSUME NEW i \in 0..nperiods-1 PROVE ~own'[i] <=> InArc(i)'
    <3>1. /\ ~own[i] <=> InArc(i)
          /\ ~own[pos] <=> InArc(pos)
          /\ ~own[hwIdx] <=> InArc(hwIdx)
      BY <1>1, <2>2 DEF Places
    <3>2. /\ own'[i] <=> i # pos /\ own[i]
          /\ own'[hwIdx] <=> hwIdx # pos /\ own[hwIdx]
      BY <2>1, <2>2 DEF Types
    <3>3. InArc(i)' <=> \/ hwIdx < Advance(pos) /\ hwIdx <= i /\ i < Advance(pos)
                        \/ hwIdx > Advance(pos) /\ (i < Advance(pos) \/ hwIdx <= i)
                        \/ hwIdx = Advance(pos) /\ ~own'[hwIdx]
      BY <2>1 DEF InArc
    <3>4. CASE pos + 1 = nperiods
      <4>1. Advance(pos) = 0
        BY <3>4 DEF Advance
      <4> QED
        BY <1>1, <2>2, <3>1, <3>2, <3>3, <3>4, <4>1 DEF InArc
    <3>5. CASE pos + 1 # nperiods
      <4>1. Advance(pos) = pos + 1
        BY <3>5 DEF Advance
      <4> QED
        BY <1>1, <2>2, <3>1, <3>2, <3>3, <3>5, <4>1 DEF InArc
    <3> QED
      BY <3>4, <3>5
  <2> QED
    BY <1>1, <1>2, <2>1, <2>2, <2>3 DEF Places
<1>6. Counted'
  <2>1. Back' = Back \cup {pos} /\ pos \notin Back
    BY <1>1 DEF Back, EngineCompletes, Types
  <2>2. IsFiniteSet(Back)
    BY BackFinite DEF Types
  <2>3. Cardinality(Back') = Cardinality(Back) + 1 /\ Cardinality(Back) \in Nat
    BY <2>1, <2>2, FS_AddElement, FS_CardinalityType
  <2> QED
    BY <1>1, <2>3 DEF Counted, EngineCompletes, Types
<1> QED
  BY <1>3, <1>4, <1>5, <1>6

LEMMA OtherEngineStep == DmaInv /\ (EngineStrays \/ EngineHalts) => DmaInv'
<1> SUFFICES ASSUME DmaInv, EngineStrays \/ EngineHalts PROVE DmaInv'
  OBVIOUS
<1> USE DEF DmaInv, core, ring, engine, i2s, EngineStrays, EngineHalts
<1>1. Types'
  BY ZenonT(60) DEF Types
<1>2. Phases'
  BY DEF Types, Phases, SetUp
<1>3. Places'
  BY DEF Types, Phases, Places, InArc
<1>4. Counted'
  BY DEF Counted, Back
<1> QED
  BY <1>1, <1>2, <1>3, <1>4

(* The handler.  What it takes is the first place of the arc. *)
LEMMA TakeStep == DmaInv /\ IsrTake => DmaInv'
<1> SUFFICES ASSUME DmaInv, IsrTake PROVE DmaInv'
  OBVIOUS
<1> USE DEF DmaInv, core, ring, engine, i2s
<1>1. /\ ~masked /\ hwIdx \in 0..nperiods-1 /\ pos \in 0..nperiods-1 /\ ~own[hwIdx]
      /\ nperiods \in Nat /\ nperiods >= 2 /\ pcm # "prepared" /\ eng # "stray"
  BY DEF Types, Phases, Places, IsrTake
<1>2. Advance(hwIdx) \in 0..nperiods-1
  BY <1>1 DEF Advance
<1>3. /\ hwIdx' = Advance(hwIdx) /\ nperiods' = nperiods /\ pos' = pos /\ masked' = masked
      /\ own' = [own EXCEPT ![hwIdx] = TRUE] /\ isr' = "walk"
  BY DEF IsrTake, Again
<1>4. Stopped \in {"off", "last"}
  BY <1>1 DEF Stopped, Types
<1>5. Elapsed
  BY DEF IsrTake
<1>6. /\ eng' \in {"off", "run", "last", "halted"}
      /\ pcm' \in {pcm, "xrun"}
      /\ pcm' = pcm => eng' \in {eng, "off", "last"}
      /\ pcm' # pcm => pcm = "running" /\ eng' \in {"off", "last"}
  BY <1>1, <1>4, <1>5 DEF Elapsed, Types
<1>7. /\ alsaPos' \in Nat /\ filled' \in Int /\ ahead' = ahead /\ le' = le /\ rate' = rate
  BY <1>1, <1>2, <1>3, <1>5 DEF Elapsed, Played, Pointer, Since, Types, Advance
<1>8. Types'
  <2>1. own' \in [0..nperiods'-1 -> BOOLEAN]
    BY <1>3 DEF Types
  <2>2. pcm' \in {"closed", "open", "setup", "prepared", "running", "xrun", "freeing"}
    BY <1>6 DEF Types
  <2> QED
    BY <1>1, <1>2, <1>3, <1>6, <1>7, <2>1, <2>2 DEF Types, IsrTake
<1>9. Phases'
  <2>1. SetUp /\ SetUp'
    BY <1>1, <1>7 DEF Phases, SetUp, IsrTake
  <2> QED
    BY <1>1, <1>3, <1>6, <2>1 DEF Phases, SetUp, Types, IsrTake
<1>10. Places'
  <2>1. ASSUME NEW i \in 0..nperiods-1 PROVE ~own'[i] <=> InArc(i)'
    <3>1. /\ ~own[i] <=> InArc(i)
          /\ ~own[pos] <=> InArc(pos)
          /\ ~own[hwIdx] <=> InArc(hwIdx)
          /\ ~own[Advance(hwIdx)] <=> InArc(Advance(hwIdx))
      BY <1>1, <1>2 DEF Places
    <3>2. /\ own'[i] <=> i = hwIdx \/ own[i]
          /\ own'[Advance(hwIdx)] <=> Advance(hwIdx) = hwIdx \/ own[Advance(hwIdx)]
      BY <1>1, <1>2, <1>3 DEF Types
    <3>3. InArc(i)' <=> \/ Advance(hwIdx) < pos /\ Advance(hwIdx) <= i /\ i < pos
                        \/ Advance(hwIdx) > pos /\ (i < pos \/ Advance(hwIdx) <= i)
                        \/ Advance(hwIdx) = pos /\ ~own'[Advance(hwIdx)]
      BY <1>3 DEF InArc
    <3>4. CASE hwIdx + 1 = nperiods
      <4>1. Advance(hwIdx) = 0
        BY <3>4 DEF Advance
      <4> QED
        BY <1>1, <3>1, <3>2, <3>3, <3>4, <4>1 DEF InArc
    <3>5. CASE hwIdx + 1 # nperiods
      <4>1. Advance(hwIdx) = hwIdx + 1
        BY <3>5 DEF Advance
      <4> QED
        BY <1>1, <3>1, <3>2, <3>3, <3>5, <4>1 DEF InArc
    <3> QED
      BY <3>4, <3>5
  <2> QED
    BY <1>1, <1>2, <1>3, <1>6, <2>1 DEF Places
<1>11. Counted'
  <2> SUFFICES ASSUME pcm' \in {"prepared", "running"}
               PROVE  alsaPos' = hwIdx' /\ filled' = ahead' + Cardinality(Back')
    BY DEF Counted
  <2>1. pcm = "running" /\ alsaPos = hwIdx /\ filled = ahead + Cardinality(Back)
    BY <1>1, <1>6 DEF Counted
  <2>2. Since(hwIdx, Advance(hwIdx)) = 1
    BY <1>1 DEF Since, Advance
  <2>3. alsaPos' = hwIdx' /\ filled' = filled - 1
    BY <1>3, <1>5, <2>1, <2>2 DEF Elapsed, Played, Pointer
  <2>4. Back' = Back \ {hwIdx} /\ hwIdx \in Back
    BY <1>1, <1>3 DEF Back, Types
  <2>5. IsFiniteSet(Back)
    BY BackFinite DEF Types
  <2>6. Cardinality(Back') = Cardinality(Back) - 1 /\ Cardinality(Back) \in Nat
    BY <2>4, <2>5, FS_RemoveElement, FS_CardinalityType
  <2> QED
    BY <1>7, <2>1, <2>3, <2>6 DEF Types
<1> QED
  BY <1>8, <1>9, <1>10, <1>11

LEMMA OtherIsrStep == DmaInv /\ (IsrAck \/ IsrEnd \/ IsrReturns) => DmaInv'
<1> SUFFICES ASSUME DmaInv, IsrAck \/ IsrEnd \/ IsrReturns PROVE DmaInv'
  OBVIOUS
<1> USE DEF DmaInv, core, ring, engine, i2s, IsrAck, IsrEnd, IsrReturns, Leave
<1>1. Types'
  <2>1. UNCHANGED <<nperiods, own, hwIdx, pos, alsaPos, filled, ahead, masked, mapped, le, swap,
                    eng, pcm>>
    OBVIOUS
  <2>2. status' \in BOOLEAN /\ isr' \in {"idle", "walk", "leave"}
    BY DEF Types
  <2> QED
    BY <2>1, <2>2 DEF Types
<1>2. Phases'
  BY DEF Types, Phases, SetUp
<1>3. Places'
  <2>1. /\ masked' = masked /\ hwIdx' = hwIdx /\ pos' = pos /\ nperiods' = nperiods
        /\ own' = own /\ pcm' = pcm
    OBVIOUS
  <2>2. ASSUME ~masked', isr' # "walk" /\ ~status' PROVE own[hwIdx]
    <3>1. mapped
      BY <2>1, <2>2 DEF Phases, SetUp
    <3> QED
      BY <2>1, <2>2, <3>1 DEF Places
  <2> QED
    BY <2>1, <2>2 DEF Places, InArc
<1>4. Counted'
  BY DEF Counted, Back
<1> QED
  BY <1>1, <1>2, <1>3, <1>4

(* The callbacks. *)
LEMMA OpenCloseStep == DmaInv /\ (Open \/ Close) => DmaInv'
<1> SUFFICES ASSUME DmaInv, Open \/ Close PROVE DmaInv'
  OBVIOUS
<1> USE DEF DmaInv, core, ring, engine, i2s, Open, Close, Configured
<1>1. masked' = masked /\ masked
  BY DEF Phases
<1>2. Types'
  <2>1. UNCHANGED <<nperiods, own, hwIdx, pos, alsaPos, filled, ahead, masked, mapped, le,
                    status, isr, eng>>
    OBVIOUS
  <2> QED
    BY <2>1 DEF Types
<1>3. Phases'
  BY <1>1 DEF Types, Phases, SetUp
<1>4. Places' /\ Counted'
  BY <1>1 DEF Places, Counted
<1> QED
  BY <1>2, <1>3, <1>4

LEMMA ParamsStep ==
    ASSUME ~Reentry, DmaInv, NEW n \in 2..MaxPeriods, NEW k \in Kinds,
           HwParams(n, k) \/ HwParamsFails(k)
    PROVE  DmaInv'
<1> USE DEF DmaInv, core, ring, engine, i2s, HwParams, HwParamsFails, SetDai, Bereft
<1>1. pcm = "open" /\ masked /\ masked' /\ isr = "idle" /\ isr' = "idle"
  BY DEF Configurable, Phases
<1>2. eng \in {"off", "stray"} /\ eng' = eng
  BY <1>1 DEF Phases, Types, Stopped
<1>3. k.le \in BOOLEAN /\ MaxPeriods \in Nat
  BY DmaAssumption DEF DmaAssumption
<1>4. Types'
  <2>1. CASE HwParams(n, k)
    <3>1. nperiods' \in Nat /\ nperiods' >= 2 /\ own' \in [0..nperiods'-1 -> BOOLEAN]
      BY <1>3, <2>1 DEF Built
    <3>2. le' \in BOOLEAN /\ swap' \in BOOLEAN /\ mapped' \in BOOLEAN
      BY <1>3, <2>1 DEF Types
    <3> QED
      BY <1>2, <2>1, <3>1, <3>2 DEF Types
  <2>2. CASE HwParamsFails(k)
    <3>1. swap' \in BOOLEAN /\ mapped' \in BOOLEAN
      BY <1>3, <2>2 DEF Types
    <3> QED
      BY <1>2, <2>2, <3>1 DEF Types
  <2> QED
    BY <2>1, <2>2
<1>5. Phases'
  BY <1>1, <1>2 DEF Phases, SetUp, Types
<1>6. Places' /\ Counted'
  BY <1>1 DEF Places, Counted
<1> QED
  BY <1>4, <1>5, <1>6

LEMMA FreeStep == DmaInv /\ (HwFree \/ HwFreed) => DmaInv'
<1> SUFFICES ASSUME DmaInv, HwFree \/ HwFreed PROVE DmaInv'
  OBVIOUS
<1> USE DEF DmaInv, core, ring, engine, i2s, HwFree, HwFreed, Bereft
<1>1. eng \in {"off", "last", "stray"} /\ eng' \in {"off", "last", "stray"}
  BY DEF Phases, Types, Stopped
<1>2. Types'
  <2>1. UNCHANGED <<nperiods, own, hwIdx, pos, alsaPos, filled, ahead, le, status, isr, swap>>
    OBVIOUS
  <2>2. masked' \in BOOLEAN /\ mapped' \in BOOLEAN
    BY DEF Types
  <2> QED
    BY <1>1, <2>1, <2>2 DEF Types
<1>3. Phases'
  <2>1. CASE HwFree
    <3>1. eng' = "last" => eng = "last"
      BY <1>1, <2>1 DEF Stopped
    <3>2. eng' = "stray" => eng = "stray"
      BY <1>1, <2>1 DEF Stopped
    <3> QED
      BY <1>1, <2>1, <3>1, <3>2 DEF Phases, SetUp
  <2>2. CASE HwFreed
    BY <1>1, <2>2 DEF Phases, SetUp
  <2> QED
    BY <2>1, <2>2
<1>4. Places'
  <2>1. CASE HwFree
    BY <2>1 DEF Places, InArc
  <2>2. CASE HwFreed
    BY <2>2 DEF Places
  <2> QED
    BY <2>1, <2>2
<1>5. Counted'
  BY DEF Counted
<1> QED
  BY <1>2, <1>3, <1>4, <1>5

(* prepare starts everybody over, whatever the last stream left in hw_idx. *)
LEMMA PrepareStep == DmaInv /\ Prepare => DmaInv'
<1> SUFFICES ASSUME DmaInv, Prepare PROVE DmaInv'
  OBVIOUS
<1> USE DEF DmaInv, core, ring, engine, i2s, Prepare, EngineReset
<1>1. SetUp /\ nperiods \in Nat /\ nperiods >= 2
  BY DEF Phases, Types
<1>2. own' = [i \in 0..nperiods-1 |-> TRUE] /\ nperiods' = nperiods
  BY DEF Built
<1>3. Types'
  <2>1. own' \in [0..nperiods'-1 -> BOOLEAN]
    BY <1>2
  <2>2. UNCHANGED <<nperiods, mapped, le, swap, isr>>
    OBVIOUS
  <2>3. /\ masked' \in BOOLEAN /\ status' \in BOOLEAN
        /\ hwIdx' = 0 /\ pos' = 0 /\ alsaPos' = 0 /\ filled' = 0 /\ ahead' = 0
        /\ eng' = "off" /\ pcm' = "prepared"
    OBVIOUS
  <2> QED
    BY <1>1, <2>1, <2>2, <2>3 DEF Types
<1>4. Phases'
  BY <1>1 DEF Phases, SetUp
<1>5. \A i \in 0..nperiods-1 : own'[i]
  BY <1>2
<1>6. Places'
  <2>1. own'[hwIdx'] /\ hwIdx' = 0 /\ pos' = 0 /\ 0 < nperiods
    BY <1>1, <1>5
  <2> QED
    BY <1>2, <1>5, <2>1 DEF Places, InArc
<1>7. Counted'
  <2>1. Back' = {}
    BY <1>2, <1>5 DEF Back
  <2>2. Cardinality(Back') = 0
    BY <2>1, FS_EmptySet
  <2> QED
    BY <2>2 DEF Counted
<1> QED
  BY <1>3, <1>4, <1>6, <1>7

LEMMA StreamStep == DmaInv /\ (Write \/ Start \/ Drop) => DmaInv'
<1> SUFFICES ASSUME DmaInv, Write \/ Start \/ Drop PROVE DmaInv'
  OBVIOUS
<1> USE DEF DmaInv, core, ring, engine, i2s, Write, Start, Drop
<1>1. UNCHANGED <<nperiods, own, hwIdx, pos, alsaPos, masked, mapped, le, status, isr, swap>>
  OBVIOUS
<1>2. /\ filled' \in Int /\ ahead' \in Int
      /\ filled - ahead = filled' - ahead'
  BY DEF Types
<1>3. eng' \in {"off", "run", "last", "halted", "stray"}
  BY DEF Types, Stopped
<1>4. Types'
  BY <1>1, <1>2, <1>3 DEF Types
<1>5. Phases'
  <2>1. CASE Write
    BY <2>1 DEF Phases, SetUp
  <2>2. CASE Start
    BY <2>2 DEF Phases, SetUp
  <2>3. CASE Drop
    <3>1. eng' \in {"off", "last"} /\ ~masked
      BY <2>3 DEF Phases, Types, Stopped
    <3> QED
      BY <2>3, <3>1 DEF Phases, SetUp
  <2> QED
    BY <2>1, <2>2, <2>3
<1>6. Places'
  BY <1>1 DEF Places, InArc
<1>7. Counted'
  <2>1. /\ Back' = Back
        /\ pcm' \in {"prepared", "running"} => pcm \in {"prepared", "running"}
    BY <1>1 DEF Back
  <2>2. Cardinality(Back) \in Nat
    BY BackFinite, FS_CardinalityType DEF Types
  <2> QED
    BY <1>1, <1>2, <2>1, <2>2 DEF Counted, Types
<1> QED
  BY <1>4, <1>5, <1>6, <1>7

LEMMA StepInv == ~Reentry /\ DmaInv /\ [DmaNext]_dmaVars => DmaInv'
<1> SUFFICES ASSUME ~Reentry, DmaInv, [DmaNext]_dmaVars PROVE DmaInv'
  OBVIOUS
<1>1. CASE Isr
  BY <1>1, TakeStep, OtherIsrStep DEF Isr
<1>2. CASE Engine
  BY <1>2, CompletesStep, OtherEngineStep DEF Engine
<1>3. CASE Callback
  <2>1. CASE Open \/ Close \/ HwFree \/ HwFreed \/ Prepare \/ Write \/ Start \/ Drop
    BY <2>1, OpenCloseStep, FreeStep, PrepareStep, StreamStep
  <2>2. CASE \E n \in 2..MaxPeriods, k \in Kinds : HwParams(n, k)
    BY <2>2, ParamsStep
  <2>3. ASSUME NEW k \in Kinds, HwParamsFails(k) PROVE DmaInv'
    <3>1. 2 \in 2..MaxPeriods
      BY DmaAssumption DEF DmaAssumption
    <3> QED
      BY <2>3, <3>1, ParamsStep
  <2> QED
    BY <1>3, <2>1, <2>2, <2>3 DEF Callback
<1>4. CASE UNCHANGED dmaVars
  BY <1>4 DEF dmaVars, core, ring, engine, i2s, DmaInv, Types, Phases, SetUp, Places, InArc,
              Counted, Back
<1> QED
  BY <1>1, <1>2, <1>3, <1>4 DEF DmaNext

(* The places of the arc are the arc. *)
LEMMA ArcOfPlaces ==
    ASSUME Types, hwIdx < nperiods, pos < nperiods,
           \A i \in 0..nperiods-1 : ~own[i] <=> InArc(i)
    PROVE  Back = Arc
<1> USE DEF Back, Arc, InArc, Types
<1>1. CASE hwIdx < pos
  <2>1. \A i \in 0..nperiods-1 : ~own[i] <=> i \in hwIdx..pos-1
    BY <1>1
  <2>2. hwIdx..pos-1 \subseteq 0..nperiods-1
    BY <1>1
  <2>3. Back = hwIdx..pos-1
    BY <2>1, <2>2
  <2> QED
    BY <1>1, <2>3
<1>2. CASE hwIdx > pos
  <2>1. \A i \in 0..nperiods-1 : ~own[i] <=> i \notin pos..hwIdx-1
    BY <1>2
  <2>2. Back = 0..nperiods-1 \ (pos..hwIdx-1)
    BY <2>1
  <2> QED
    BY <1>2, <2>2
<1>3. CASE hwIdx = pos
  <2>1. \A i \in 0..nperiods-1 : ~own[i] <=> ~own[hwIdx]
    BY <1>3
  <2>2. Back = IF own[hwIdx] THEN {} ELSE 0..nperiods-1
    BY <2>1
  <2> QED
    BY <1>3, <2>2
<1> QED
  BY <1>1, <1>2, <1>3

LEMMA InvAgreed == DmaInv => RingAgreed
<1> SUFFICES ASSUME DmaInv, ~masked PROVE ArcHeld /\ Accounted /\ Honest
  BY DEF RingAgreed
<1>1. ArcHeld
  BY ArcOfPlaces DEF ArcHeld, DmaInv, Places, Types
<1>2. Accounted
  BY DEF Accounted, DmaInv, Places
<1>3. Honest
  BY DEF Honest, DmaInv, Counted
<1> QED
  BY <1>1, <1>2, <1>3

LEMMA InvFed == DmaInv => Fed
  BY DEF DmaInv, Phases, SetUp, Fed, Types

-----------------------------------------------------------------------------
(* Engine, handler and callbacks agree on every descriptor: none is skipped,
   taken twice or left behind, no completion is lost between the acknowledge and
   the walk, and ALSA's count of unplayed periods is right. *)
THEOREM RingAgreedTheorem == ~Reentry => (Spec => []RingAgreed)
<1> SUFFICES ASSUME ~Reentry PROVE Spec => []RingAgreed
  OBVIOUS
<1>1. Init => DmaInv
  BY InitInv, DmaAssumption DEF Init
<1>2. DmaInv /\ [Next]_vars => DmaInv'
  BY StepInv, StepOfDma
<1>3. DmaInv => RingAgreed
  BY InvAgreed
<1> QED
  BY <1>1, <1>2, <1>3, PTL DEF Spec

(* While the engine plays, there is a ring under it and the stereo block is on,
   clocked for the stream and swapping if its samples are little-endian. *)
THEOREM FedTheorem == ~Reentry => (Spec => []Fed)
<1> SUFFICES ASSUME ~Reentry PROVE Spec => []Fed
  OBVIOUS
<1>1. Init => DmaInv
  BY InitInv, DmaAssumption DEF Init
<1>2. DmaInv /\ [Next]_vars => DmaInv'
  BY StepInv, StepOfDma
<1>3. DmaInv => Fed
  BY InvFed
<1> QED
  BY <1>1, <1>2, <1>3, PTL DEF Spec

-----------------------------------------------------------------------------
(* The ring that is freed under the engine. *)

(* The stream of a ring there is, is of one kind. *)
OfOneKind == mapped => \E k \in Kinds : pb = k.bytes /\ rate = k.rate

LEMMA OfOneKindStep == OfOneKind /\ [DmaNext]_dmaVars => OfOneKind'
<1> SUFFICES ASSUME OfOneKind, [DmaNext]_dmaVars PROVE OfOneKind'
    OBVIOUS
<1> USE DEF core, ring, engine, i2s, OfOneKind
<1>1. CASE Isr
    BY <1>1 DEF Isr, IsrAck, IsrTake, IsrEnd, IsrReturns, Elapsed, Played
<1>2. CASE Engine
    BY <1>2 DEF Engine, EngineCompletes, EngineStrays, EngineHalts
<1>3. CASE Open \/ Close \/ HwFree \/ HwFreed \/ Prepare \/ Write \/ Start \/ Drop
    BY <1>3 DEF Open, Close, Configured, HwFree, HwFreed, Prepare, Write, Start, Drop
<1>4. CASE \E n \in 2..MaxPeriods, k \in Kinds : HwParams(n, k)
    BY <1>4 DEF HwParams
<1>5. CASE \E k \in Kinds : HwParamsFails(k)
    BY <1>5 DEF HwParamsFails
<1>6. CASE UNCHANGED dmaVars
    BY <1>6 DEF dmaVars
<1> QED
    BY <1>1, <1>2, <1>3, <1>4, <1>5, <1>6 DEF DmaNext, Callback

(* Only the end of hw_free's wait takes the ring from an engine in a descriptor. *)
LEMMA StraysStep ==
    ASSUME ~Reentry, DmaInv, [DmaNext]_dmaVars, eng' = "stray", eng # "stray"
    PROVE  eng = "last" /\ pcm = "freeing" /\ ~ Covers(FreeDelay)
<1> USE DEF core, ring, engine, i2s
<1>1. \A k \in Kinds : ~ HwParamsFails(k) /\ \A n \in 2..MaxPeriods : ~ HwParams(n, k)
    <2>1. pcm \in Configurable => eng \in {"off", "stray"}
        BY DEF Configurable, DmaInv, Types, Phases
    <2> QED
        BY <2>1 DEF HwParams, HwParamsFails, Bereft, Stopped
<1>2. ~ Isr
    BY DEF Isr, IsrAck, IsrTake, IsrEnd, IsrReturns, Elapsed, Stopped
<1>3. ~ Engine
    BY DEF Engine, EngineCompletes, EngineStrays, EngineHalts
<1>4. ~ (Open \/ Close \/ HwFree \/ Prepare \/ Write \/ Start \/ Drop)
    BY DEF Open, Close, HwFree, Stopped, Prepare, EngineReset, Write, Start, Drop
<1>5. HwFreed
    BY <1>1, <1>2, <1>3, <1>4 DEF DmaNext, Callback, dmaVars
<1> QED
    BY <1>5 DEF HwFreed, Waited, Bereft

(* hw_free takes the ring from an engine in a descriptor only where the period in hand
   is longer than its wait of 20 ms. *)
OnlyLongPeriods ==
    [][eng' = "stray" /\ eng # "stray" => pcm = "freeing" /\ ~ Covers(FreeDelay)]_vars

THEOREM OnlyLongTheorem == ~Reentry => (Spec => OnlyLongPeriods)
<1> SUFFICES ASSUME ~Reentry PROVE Spec => OnlyLongPeriods
    OBVIOUS
<1>1. Init => DmaInv
    BY InitInv, DmaAssumption DEF Init
<1>2. DmaInv /\ [Next]_vars => DmaInv'
    BY StepInv, StepOfDma
<1>3. DmaInv /\ [Next]_vars =>
          [eng' = "stray" /\ eng # "stray" => pcm = "freeing" /\ ~ Covers(FreeDelay)]_vars
    BY StraysStep, StepOfDma
<1> QED
    BY <1>1, <1>2, <1>3, PTL DEF Spec, OnlyLongPeriods

(* Streams of which no period outlasts the wait of hw_free. *)
ShortPeriods == \A k \in Kinds : k.bytes * 1000 <= FreeDelay * 4 * k.rate

(* "let the engine finish its current descriptor before we free the ring": it does, for
   streams of short periods. *)
THEOREM FreedTheorem == ~Reentry /\ ShortPeriods => (Spec => []FreedAfterLast)
<1> SUFFICES ASSUME ~Reentry, ShortPeriods PROVE Spec => []FreedAfterLast
    OBVIOUS
<1> DEFINE I == DmaInv /\ OfOneKind /\ FreedAfterLast
<1>1. Init => I
    <2>1. Init => DmaInv
        BY InitInv, DmaAssumption DEF Init
    <2> QED
        BY <2>1 DEF Init, DmaInit, OfOneKind, FreedAfterLast
<1>2. I /\ [Next]_vars => I'
    <2> SUFFICES ASSUME I, [Next]_vars PROVE I'
        OBVIOUS
    <2>1. DmaInv' /\ OfOneKind'
        BY StepInv, OfOneKindStep, StepOfDma
    <2>2. ASSUME eng' = "stray" PROVE FALSE
        <3>1. eng = "last" /\ ~ Covers(FreeDelay)
            BY <2>2, StraysStep, StepOfDma DEF FreedAfterLast
        <3>2. mapped
            BY <3>1 DEF DmaInv, Phases, SetUp
        <3>3. PICK k \in Kinds : pb = k.bytes /\ rate = k.rate
            BY <3>2 DEF OfOneKind
        <3> QED
            BY <3>1, <3>3 DEF Covers, ShortPeriods
    <2> QED
        BY <2>1, <2>2 DEF FreedAfterLast
<1>3. I => FreedAfterLast
    OBVIOUS
<1> QED
    BY <1>1, <1>2, <1>3, PTL DEF Spec

-----------------------------------------------------------------------------
(* Types. *)

(* No index of the ring leaves the largest ring there is, and ALSA's counts are those
   of a ring: a stream runs only with a period to play. *)
DmaRanges ==
    /\ nperiods =< MaxPeriods /\ pb \in {k.bytes : k \in Kinds}
    /\ hwIdx < MaxPeriods /\ pos < MaxPeriods /\ alsaPos < MaxPeriods
    /\ {rate, clk} \subseteq {k.rate : k \in Kinds} \cup {0}
    /\ filled \in 0..MaxPeriods /\ ahead \in -MaxPeriods..MaxPeriods
    /\ stereo \in {"off", "on"}
    /\ pcm \in {"prepared", "running"} => filled =< nperiods
    /\ pcm = "running" => filled > 0

LEMMA RangesInit == DmaInit => DmaRanges
<1> SUFFICES ASSUME DmaInit PROVE DmaRanges
    OBVIOUS
<1>1. MaxPeriods \in Nat /\ MaxPeriods >= 2
    BY DmaAssumption DEF DmaAssumption
<1> QED
    BY <1>1 DEF DmaInit, DmaRanges

(* What the engine is ahead by is what ALSA counts less what was given back. *)
LEMMA AheadInRange ==
    ASSUME NEW n \in Nat, n >= 2, n =< MaxPeriods, MaxPeriods \in Nat, NEW f \in 0..n,
           NEW a \in Int, NEW B \in SUBSET (0..n-1), f = a + Cardinality(B)
    PROVE  a \in -MaxPeriods..MaxPeriods
<1>1. IsFiniteSet(0..n-1) /\ Cardinality(0..n-1) = n
    <2>1. 0 \in Int /\ n - 1 \in Int /\ ~ (0 > n - 1) /\ n - 1 - 0 + 1 = n
        OBVIOUS
    <2> QED
        BY <2>1, FS_Interval
<1>2. IsFiniteSet(B) /\ Cardinality(B) =< n
    BY <1>1, FS_Subset
<1>3. Cardinality(B) \in Nat
    BY <1>2, FS_CardinalityType
<1> QED
    BY <1>2, <1>3

LEMMA RangesStep == DmaInv /\ DmaInv' /\ DmaRanges /\ [DmaNext]_dmaVars => DmaRanges'
<1> SUFFICES ASSUME DmaInv, DmaInv', DmaRanges, [DmaNext]_dmaVars PROVE DmaRanges'
    OBVIOUS
<1>0. MaxPeriods \in Nat /\ MaxPeriods >= 2 /\ Types /\ Types'
    BY DmaAssumption DEF DmaAssumption, DmaInv
<1> USE DEF core, ring, engine, i2s
<1>1. CASE EngineCompletes
    <2>1. ~masked /\ pos < nperiods /\ pcm # "prepared"
        BY <1>1 DEF DmaInv, Phases, Places, EngineCompletes
    <2>2. pos' < nperiods
        BY <1>0, <1>1, <2>1 DEF EngineCompletes, Advance, Types
    <2>3. /\ UNCHANGED <<nperiods, pb, hwIdx, alsaPos, filled, pcm, rate, clk, stereo>>
          /\ pcm # "running" => ahead' = ahead
        BY <1>1 DEF EngineCompletes
    <2>4. ahead' \in -MaxPeriods..MaxPeriods
        <3>1. CASE pcm = "running"
            <4>1. pcm' \in {"prepared", "running"} /\ nperiods' =< MaxPeriods
                  /\ filled' \in 0..nperiods'
                BY <1>0, <2>3, <3>1 DEF DmaRanges, Types
            <4>2. filled' = ahead' + Cardinality(Back') /\ Back' \in SUBSET (0..nperiods'-1)
                BY <4>1 DEF DmaInv, Counted, Back
            <4>3. nperiods' \in Nat /\ nperiods' >= 2 /\ ahead' \in Int
                BY <1>0 DEF Types
            <4> QED
                BY <1>0, <4>1, <4>2, <4>3, AheadInRange
        <3> QED
            BY <2>3, <3>1 DEF DmaRanges
    <2> QED
        BY <1>0, <2>2, <2>3, <2>4 DEF DmaRanges, Types
<1>2. CASE EngineStrays \/ EngineHalts
    BY <1>2 DEF EngineStrays, EngineHalts, DmaRanges
<1>3. CASE IsrAck \/ IsrEnd \/ IsrReturns
    BY <1>3 DEF IsrAck, IsrEnd, IsrReturns, Leave, DmaRanges
<1>4. CASE IsrTake
    <2>1. ~masked /\ hwIdx < nperiods /\ hwIdx \in Nat /\ nperiods \in Nat /\ nperiods >= 2
        BY <1>0, <1>4 DEF DmaInv, Phases, Places, IsrTake, Types
    <2>2. hwIdx' = (IF hwIdx + 1 = nperiods THEN 0 ELSE hwIdx + 1) /\ hwIdx' < nperiods
        BY <1>4, <2>1 DEF IsrTake, Advance
    <2>3. UNCHANGED <<nperiods, pb, pos, clk, stereo>>
        BY <1>4 DEF IsrTake
    <2>4. UNCHANGED <<rate, ahead>>
        BY <1>4 DEF IsrTake, Elapsed, Played
    <2>5. CASE pcm # "running" /\ UNCHANGED <<core, eng>>
        BY <1>0, <2>1, <2>2, <2>3, <2>5 DEF DmaRanges, Types
    <2>6. CASE pcm = "running" /\ Played /\ (pcm' = "running" => filled' > 0)
                /\ pcm' \in {"running", "xrun"}
        <3>1. alsaPos = hwIdx
            BY <2>6 DEF DmaInv, Counted
        <3>2. Since(hwIdx, hwIdx') = 1
            BY <2>1, <2>2 DEF Since
        <3>3. filled' = filled - 1 /\ alsaPos' = hwIdx'
            BY <2>6, <3>1, <3>2 DEF Played, Pointer
        <3>4. filled \in Nat /\ filled > 0 /\ filled =< nperiods /\ nperiods =< MaxPeriods
            BY <1>0, <2>6 DEF DmaRanges
        <3>5. alsaPos' < MaxPeriods /\ filled' \in 0..MaxPeriods /\ filled' =< nperiods
            BY <1>0, <2>1, <2>2, <3>3, <3>4
        <3> QED
            BY <1>0, <2>1, <2>2, <2>3, <2>4, <2>6, <3>4, <3>5 DEF DmaRanges
    <2> QED
        BY <1>4, <2>5, <2>6 DEF IsrTake, Elapsed
<1>5. CASE Open \/ Close
    BY <1>5 DEF Open, Close, Configured, DmaRanges
<1>6. CASE HwFree \/ HwFreed
    BY <1>6 DEF HwFree, HwFreed, DmaRanges
<1>7. CASE Prepare
    BY <1>0, <1>7 DEF Prepare, EngineReset, DmaRanges, Types
<1>8. CASE Write
    <2>1. filled' = filled + 1 /\ filled' \in 0..nperiods /\ nperiods' = nperiods
          /\ pcm' = pcm /\ pcm' \in {"prepared", "running"} /\ nperiods' =< MaxPeriods
        BY <1>0, <1>8 DEF Write, DmaRanges, Types
    <2>2. filled' = ahead' + Cardinality(Back') /\ Back' \in SUBSET (0..nperiods'-1)
        BY <2>1 DEF DmaInv, Counted, Back
    <2>3. nperiods' \in Nat /\ nperiods' >= 2 /\ ahead' \in Int
        BY <1>0 DEF Types
    <2>4. ahead' \in -MaxPeriods..MaxPeriods
        BY <1>0, <2>1, <2>2, <2>3, AheadInRange
    <2> QED
        BY <1>0, <1>8, <2>1, <2>4 DEF Write, DmaRanges, Types
<1>9. CASE Start \/ Drop
    BY <1>0, <1>9 DEF Start, Drop, DmaRanges, Types
<1>10. CASE \E n \in 2..MaxPeriods, k \in Kinds : HwParams(n, k)
    <2>1. PICK n \in 2..MaxPeriods, k \in Kinds : HwParams(n, k)
        BY <1>10
    <2> QED
        BY <1>0, <2>1 DEF HwParams, SetDai, DmaRanges
<1>11. CASE \E k \in Kinds : HwParamsFails(k)
    <2>1. PICK k \in Kinds : HwParamsFails(k)
        BY <1>11
    <2> QED
        BY <1>0, <2>1 DEF HwParamsFails, SetDai, DmaRanges
<1>12. CASE UNCHANGED dmaVars
    BY <1>12 DEF dmaVars, DmaRanges
<1> QED
    BY <1>1, <1>2, <1>3, <1>4, <1>5, <1>6, <1>7, <1>8, <1>9, <1>10, <1>11, <1>12
    DEF DmaNext, Isr, Engine, Callback

LEMMA RangesAreTypes == DmaInv /\ DmaRanges => DmaTypeOK
<1> SUFFICES ASSUME DmaInv, DmaRanges PROVE DmaTypeOK
    OBVIOUS
<1>1. MaxPeriods \in Nat /\ MaxPeriods >= 2 /\ Types
    BY DmaAssumption DEF DmaAssumption, DmaInv
<1> QED
    BY <1>1 DEF DmaRanges, DmaTypeOK, Types

(* The radio's deadline and what is counted. *)
WifiRanges == joining \in 0..Window /\ raced \in BOOLEAN /\ events \in 0..MaxEvents

LEMMA WifiRangesStep == WifiAssumption /\ WifiInv /\ WifiRanges /\ [Next]_vars => WifiRanges'
<1> SUFFICES ASSUME WifiAssumption, WifiInv, WifiRanges, [Next]_vars PROVE WifiRanges'
    OBVIOUS
<1>1. Window \in Nat /\ MaxEvents \in Nat
    BY DEF WifiAssumption
<1>2. CASE SetWifi
    <2>1. joining' \in 0..Window
        BY <1>1, <1>2 DEF SetWifi, Arm, Export, Edit, Commit, Mark, Switch, WifiRanges
    <2>2. raced' \in BOOLEAN
        BY <1>2 DEF SetWifi, Meet, WifiRanges
    <2> QED
        BY <1>2, <2>1, <2>2 DEF SetWifi, WifiRanges
<1>3. CASE Watchdog
    <2>1. joining' \in 0..Window
        BY <1>1, <1>3
        DEF Watchdog, Look, Looks, Raise, Unmark, Confirm, Lower, Revert, Disarm, Apply, Wakes,
            WifiRanges
    <2>2. raced' \in BOOLEAN
        BY <1>3 DEF Watchdog, Meet, WifiRanges
    <2> QED
        BY <1>3, <2>1, <2>2 DEF Watchdog, WifiRanges
<1>4. CASE HoldReload \/ Radio \/ Uptime
    BY <1>1, <1>4 DEF HoldReload, Radio, Uptime, Links, Tick, past, WifiRanges
<1>5. CASE Event
    <2>1. joining' \in 0..Window
        BY <1>1, <1>5 DEF Event, Submit, Drops, Hold, Reboot, WifiRanges
    <2>2. raced' \in BOOLEAN
        BY <1>1, <1>5 DEF Event, Meet, WifiRanges
    <2>3. events' \in 0..MaxEvents
        BY <1>1, <1>5 DEF Event, WifiRanges
    <2> QED
        BY <2>1, <2>2, <2>3 DEF WifiRanges
<1>6. CASE UNCHANGED wifiVars
    BY <1>6 DEF wifiVars, WifiRanges
<1> QED
    BY <1>2, <1>3, <1>4, <1>5, <1>6, StepOfWifi DEF WifiNext

(* Every index, age, count and level of the device stays in range, whatever the
   sizes, thresholds and bounds. *)
THEOREM TypesTheorem == ~Reentry => (Spec => []TypeOK)
<1> SUFFICES ASSUME ~Reentry PROVE Spec => []TypeOK
    OBVIOUS
<1> DEFINE I == /\ device \in Devices /\ DmaInv /\ DmaRanges /\ DialState /\ VolInv /\ FlagInv
                /\ WifiInv /\ WifiRanges
<1>1. Init => I
    <2> SUFFICES ASSUME Init PROVE I
        OBVIOUS
    <2>1. DmaInv /\ DmaRanges
        BY InitInv, RangesInit, DmaAssumption DEF Init
    <2>2. WifiInv
        BY WifiBegun, WifiAssumption DEF Init
    <2>3. WifiRanges
        <3>1. Window \in Nat /\ MaxEvents \in Nat
            BY WifiAssumption DEF WifiAssumption
        <3>2. joining = 0 \/ joining = Window
            BY DEF Init, WifiInit
        <3>3. raced = FALSE /\ events = 0
            BY DEF Init, WifiInit
        <3>4. joining \in 0..Window /\ events \in 0..MaxEvents
            BY <3>1, <3>2, <3>3
        <3> QED
            BY <3>3, <3>4 DEF WifiRanges
    <2>4. DialState /\ VolInv /\ FlagInv
        BY DialStateInit, VolumeInit, FlagsInit, DialAssumption, LevelAssumption, WaitAssumption
    <2> QED
        BY <2>1, <2>2, <2>3, <2>4 DEF Init
<1>2. I /\ [Next]_vars => I'
    <2> SUFFICES ASSUME I, [Next]_vars PROVE I'
        OBVIOUS
    <2>1. device' \in Devices
        BY DEF Next, vars, DmaStep, DialStep, LedStep, VolStep, FlagStep, WifiStep, OwnStep
    <2>2. DmaInv'
        BY StepInv, StepOfDma
    <2>3. DmaRanges'
        BY <2>2, RangesStep, StepOfDma
    <2>4. DialState' /\ VolInv' /\ FlagInv'
        BY DialStateStep, VolumeStep, FlagsStep, DialAssumption, LevelAssumption, WaitAssumption
    <2>5. WifiInv' /\ WifiRanges'
        BY WifiKept, WifiRangesStep, WifiAssumption
    <2> QED
        BY <2>1, <2>2, <2>3, <2>4, <2>5
<1>3. I => TypeOK
    <2> SUFFICES ASSUME I PROVE TypeOK
        OBVIOUS
    <2>1. DmaTypeOK
        BY RangesAreTypes
    <2>2. WifiTypeOK
        BY DEF WifiInv, WifiTypes, WifiRanges, WifiTypeOK
    <2> QED
        BY <2>1, <2>2 DEF DialState, DialInv, VolInv, FlagInv, TypeOK
<1> QED
    BY <1>1, <1>2, <1>3, PTL DEF Spec

-----------------------------------------------------------------------------
(* An engine that stalled. *)

(* An engine that gave up is in a running stream that has nothing left to play, and the
   handler is at work or due: every descriptor is back, or the walk is taking them. *)
AllBack == \A i \in 0..nperiods-1 : ~own[i]
Noticed == eng = "halted" => ahead <= 0 /\ (isr = "walk" \/ (status /\ AllBack))

LEMMA CountOfRing == ASSUME NEW n \in Nat, n >= 2 PROVE Cardinality(0..n-1) = n
<1>1. 0 \in Int /\ n - 1 \in Int /\ ~ (0 > n - 1) /\ n - 1 - 0 + 1 = n
    OBVIOUS
<1> QED
    BY <1>1, FS_Interval

LEMMA HaltsStep == DmaInv /\ DmaRanges /\ EngineHalts => Noticed'
<1> SUFFICES ASSUME DmaInv, DmaRanges, EngineHalts PROVE Noticed'
    OBVIOUS
<1>1. Types /\ pcm = "running" /\ ~masked /\ ~own[pos]
    BY DEF DmaInv, Phases, EngineHalts
<1>2. pos \in 0..nperiods-1 /\ hwIdx \in 0..nperiods-1
    BY <1>1 DEF DmaInv, Places, Types
<1>3. \A i \in 0..nperiods-1 : ~own[i] <=> InArc(i)
    BY <1>1 DEF DmaInv, Places
<1>4. hwIdx = pos
    BY <1>1, <1>2, <1>3 DEF InArc, Types
<1>5. AllBack
    BY <1>1, <1>3, <1>4 DEF InArc, AllBack
<1>6. ahead <= 0
    <2>1. filled = ahead + nperiods
        <3>1. Back = 0..nperiods-1
            BY <1>5 DEF AllBack, Back
        <3>2. Cardinality(Back) = nperiods
            BY <1>1, <3>1, CountOfRing DEF Types
        <3> QED
            BY <1>1, <3>2 DEF DmaInv, Counted
    <2> QED
        BY <1>1, <2>1 DEF DmaRanges, Types
<1>7. isr = "walk" \/ status
    BY <1>1, <1>4 DEF DmaInv, Places
<1> QED
    BY <1>5, <1>6, <1>7 DEF EngineHalts, core, ring, Noticed, AllBack

(* A walk does not end with the engine halted: the stream would go on with nothing. *)
LEMMA WalkEnds == DmaInv /\ DmaRanges /\ Noticed /\ eng = "halted" => ~ IsrEnd
<1> SUFFICES ASSUME DmaInv, DmaRanges, Noticed, eng = "halted", IsrEnd PROVE FALSE
    OBVIOUS
<1>1. Types /\ pcm = "running" /\ ~masked /\ mapped /\ own[hwIdx]
    BY DEF DmaInv, Phases, SetUp, IsrEnd
<1>2. hwIdx \in 0..nperiods-1 /\ pos \in 0..nperiods-1
      /\ \A i \in 0..nperiods-1 : ~own[i] <=> InArc(i)
    BY <1>1 DEF DmaInv, Places, Types
<1>3. hwIdx = pos
    BY <1>1, <1>2 DEF InArc, Types
<1>4. Back = {}
    BY <1>1, <1>2, <1>3 DEF InArc, Back
<1>5. filled = ahead + 0
    BY <1>1, <1>4, FS_EmptySet DEF DmaInv, Counted
<1> QED
    BY <1>1, <1>5 DEF Noticed, DmaRanges, Types

LEMMA NoticedStep ==
    DmaInv /\ DmaInv' /\ DmaRanges /\ DmaRanges' /\ Noticed /\ [DmaNext]_dmaVars => Noticed'
<1> SUFFICES ASSUME DmaInv, DmaInv', DmaRanges, DmaRanges', Noticed, [DmaNext]_dmaVars,
                    eng' = "halted"
             PROVE  Noticed'
    BY DEF Noticed
<1> USE DEF core, ring, engine, i2s
<1>1. CASE eng # "halted"
    <2>1. EngineHalts
        <3>1. ~ Isr
            BY <1>1 DEF Isr, IsrAck, IsrTake, IsrEnd, IsrReturns, Elapsed, Stopped
        <3>2. ~ EngineCompletes /\ ~ EngineStrays
            BY <1>1 DEF EngineCompletes, EngineStrays
        <3>3. ~ (Open \/ Close \/ HwFree \/ HwFreed \/ Prepare \/ Write \/ Start \/ Drop)
            BY <1>1 DEF Open, Close, HwFree, HwFreed, Bereft, Stopped, Prepare, EngineReset,
                        Write, Start, Drop
        <3>4. \A k \in Kinds : ~ HwParamsFails(k) /\ \A n \in 2..MaxPeriods : ~ HwParams(n, k)
            BY <1>1 DEF HwParams, HwParamsFails, Bereft, Stopped
        <3> QED
            BY <1>1, <3>1, <3>2, <3>3, <3>4 DEF DmaNext, Callback, Engine, dmaVars
    <2> QED
        BY <2>1, HaltsStep
<1>2. CASE eng = "halted"
    <2>0. /\ Types /\ Types' /\ pcm = "running" /\ pcm' = "running"
          /\ ahead <= 0 /\ (isr = "walk" \/ (status /\ AllBack))
        BY <1>2 DEF DmaInv, Phases, Noticed
    <2>1. CASE IsrAck
        BY <2>0, <2>1 DEF IsrAck, Noticed
    <2>2. CASE IsrTake
        BY <2>0, <2>2 DEF IsrTake, Again, Elapsed, Played, Noticed
    <2>3. CASE IsrEnd
        BY <1>2, <2>3, WalkEnds
    <2>4. CASE IsrReturns
        BY <2>0, <2>4 DEF IsrReturns, Leave, Noticed, AllBack
    <2>5. CASE Engine
        BY <1>2, <2>5 DEF Engine, EngineCompletes, EngineStrays, EngineHalts
    <2>6. CASE Write
        <3>1. status /\ AllBack /\ filled < nperiods
            BY <2>0, <2>6 DEF Write
        <3>2. Back = 0..nperiods-1
            BY <3>1 DEF AllBack, Back
        <3>3. Cardinality(Back) = nperiods
            BY <2>0, <3>2, CountOfRing DEF Types
        <3>4. filled = ahead + nperiods
            BY <2>0, <3>3 DEF DmaInv, Counted
        <3>5. ahead + 1 <= 0
            BY <2>0, <3>1, <3>4 DEF Types
        <3> QED
            BY <2>6, <3>1, <3>5 DEF Write, Noticed, AllBack
    <2>7. CASE Open \/ Close \/ HwFree \/ HwFreed \/ Prepare \/ Start \/ Drop
        BY <2>0, <2>7 DEF Open, Close, Configured, HwFree, HwFreed, Prepare, Start, Drop
    <2>8. ASSUME NEW k \in Kinds
          PROVE  ~ HwParamsFails(k) /\ \A n \in 2..MaxPeriods : ~ HwParams(n, k)
        BY <2>0 DEF HwParams, HwParamsFails
    <2>9. CASE UNCHANGED dmaVars
        BY <2>0, <2>9 DEF dmaVars, Noticed, AllBack
    <2> QED
        BY <2>1, <2>2, <2>3, <2>4, <2>5, <2>6, <2>7, <2>8, <2>9 DEF DmaNext, Callback, Isr
<1> QED
    BY <1>1, <1>2

(* An engine that overran the ring and gave up is never out of the handler's sight: an
   interrupt is due or the handler is in its walk, and the walk does not end before it has
   stopped the stream. *)
StallSeen == eng = "halted" => ~masked /\ pcm = "running" /\ (isr = "walk" \/ status)
StallEnds == [][eng = "halted" /\ isr = "walk" => isr' = "walk" \/ pcm' # "running"]_vars

THEOREM StallTheorem == ~Reentry => (Spec => []StallSeen /\ StallEnds)
<1> SUFFICES ASSUME ~Reentry PROVE Spec => []StallSeen /\ StallEnds
    OBVIOUS
<1> DEFINE I == DmaInv /\ DmaRanges /\ Noticed
<1>1. Init => I
    <2>1. Init => DmaInv /\ DmaRanges
        BY InitInv, RangesInit, DmaAssumption DEF Init
    <2> QED
        BY <2>1 DEF Init, DmaInit, Noticed
<1>2. I /\ [Next]_vars => I'
    <2> SUFFICES ASSUME I, [Next]_vars PROVE I'
        OBVIOUS
    <2>1. DmaInv' /\ DmaRanges'
        BY StepInv, RangesStep, StepOfDma
    <2> QED
        BY <2>1, NoticedStep, StepOfDma
<1>3. I => StallSeen
    BY DEF DmaInv, Types, Phases, Noticed, StallSeen
<1>4. I /\ [Next]_vars => [eng = "halted" /\ isr = "walk" => isr' = "walk" \/ pcm' # "running"]_vars
    <2> SUFFICES ASSUME I, [DmaNext]_dmaVars, eng = "halted", isr = "walk"
                 PROVE  isr' = "walk"
        BY StepOfDma
    <2>1. ~ IsrEnd
        BY WalkEnds
    <2> QED
        BY <2>1 DEF DmaNext, Isr, IsrAck, IsrTake, Again, IsrReturns, Engine, EngineCompletes,
                    EngineStrays, EngineHalts, Callback, Open, Close, HwFree, HwFreed, Prepare,
                    Write, Start, Drop, HwParams, HwParamsFails, dmaVars
<1> QED
    BY <1>1, <1>2, <1>3, <1>4, PTL DEF Spec, StallEnds
=============================================================================
