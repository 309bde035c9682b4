------------------------------- MODULE Volume -------------------------------
(***************************************************************************)
(* The volume as several programs share it: ALSA's "Master", the file      *)
(* /var/run/beep/volume the knob starts from.  beepd watches Master and    *)
(* keeps the file in step; scripts forked by the knob, a tap, the AirPlay  *)
(* hook and the web app set Master first and the file after it; shairport  *)
(* with the ALSA backend sets Master alone.  Levels are those of the LED   *)
(* ring, to which the knob snaps.  The muted flag, which a tap sets last   *)
(* and only the ring looks at, is a flag of RingFlags.                     *)
(*                                                                         *)
(* beep-action, the hook and the web backend are shell scripts of the same *)
(* repository: one step for each command that touches the shared state.    *)
(***************************************************************************)
EXTENDS Integers

CONSTANTS Top,      \* bound: the highest level (24 on the ring)
          Scripts,  \* bound: scripts that run at once
          HoldOff   \* watches within 600 ms of a knob turn

VARIABLES master, file, premute,
          script,      \* what each running script still has to do
          mixer,       \* has beepd got hold of Master?
          lastMaster,  \* last_master, None before the first read
          hold,        \* watches for which a knob turn is still recent
          pending,     \* pending_turn, its sign
          seen,        \* the level beepd is about to write, or None
          excused      \* history: two changes of Master met, or a watch passed
                       \* over one that nobody else will write

volVars == <<master, file, premute, script, mixer, lastMaster, hold, pending, seen,
             excused>>

None == -1
Levels == 0..Top
Idle == [todo |-> "nothing", level |-> 0]
Running == {s \in Scripts : script[s] # Idle}
Quiet == Running = {} /\ seen = None /\ lastMaster = master /\ pending = 0
ReadMaster == IF mixer THEN master ELSE None
DefaultLevel == 1             \* 30 %

VolInit ==
    /\ master \in Levels /\ file \in Levels /\ premute = 0
    /\ script = [s \in Scripts |-> Idle]
    /\ mixer \in BOOLEAN /\ lastMaster = None /\ hold = 0 /\ pending = 0 /\ seen = None /\ excused = FALSE

(* Two changes meet when the second comes before beepd has seen the first. *)
Meets == excused \/ Running # {} \/ seen # None \/ lastMaster \notin {None, master}

(* A script begins. *)
Begin(s, level) ==
    /\ script[s] = Idle
    /\ script' = [script EXCEPT ![s] = [todo |-> "set", level |-> level]]
    /\ excused' = Meets

SetMaster(s) ==
    /\ script[s].todo = "set"
    /\ master' = script[s].level
    /\ script' = [script EXCEPT ![s].todo = "write"]
    /\ UNCHANGED <<file, premute, mixer, lastMaster, hold, pending, seen, excused>>

WriteFile(s) ==
    /\ script[s].todo = "write"
    /\ file' = script[s].level
    /\ script' = [script EXCEPT ![s] = Idle]
    /\ UNCHANGED <<master, premute, mixer, lastMaster, hold, pending, seen, excused>>

(* The knob: beepd adds up detents and forks a turn, which takes one step from
   the level in the file, whatever the number of detents. *)
Knob(d) ==
    /\ seen = None
    /\ pending' = IF pending + d > 1 THEN 1 ELSE IF pending + d < -1 THEN -1 ELSE pending + d
    /\ hold' = HoldOff
    /\ UNCHANGED <<master, file, premute, script, mixer, lastMaster, seen, excused>>

SteppedFreely(level, d) == level + d                                  \* fault
Stepped(level, d) ==
    IF level + d > Top THEN Top ELSE IF level + d < 0 THEN 0 ELSE level + d

TurnKnob(s) ==
    /\ seen = None /\ pending # 0
    /\ Begin(s, Stepped(file, pending))
    /\ pending' = 0
    /\ UNCHANGED <<master, file, premute, mixer, lastMaster, hold, seen>>

(* A tap: save and zero, or bring back what was saved. *)
Premute(cur) == IF cur > 0 THEN cur ELSE premute
Restored == IF premute = 0 THEN DefaultLevel ELSE premute

Tap(s) ==
    /\ premute' = Premute(master)
    /\ \/ master > 0 /\ Begin(s, 0)
       \/ master = 0 /\ Begin(s, Restored)
    /\ UNCHANGED <<master, file, mixer, lastMaster, hold, pending, seen>>

(* The AirPlay hook and the web slider; the sender itself, under ALSA. *)
Remote(s, level) ==
    /\ Begin(s, level)
    /\ UNCHANGED <<master, file, premute, mixer, lastMaster, hold, pending, seen>>

Sender(level) ==
    /\ level # master
    /\ master' = level
    /\ excused' = Meets
    /\ UNCHANGED <<file, premute, script, mixer, lastMaster, hold, pending, seen>>

(* beepd looks at Master; it leaves the file alone while a turn may be under way,
   and does not come back to the change afterwards. *)
TrustedAtStart(m) == lastMaster # None /\ m # lastMaster              \* fault
Changed(m) == m # lastMaster

Watch ==
    /\ seen = None /\ ReadMaster # None
    /\ hold' = IF hold > 0 THEN hold - 1 ELSE 0
    /\ lastMaster' = ReadMaster
    /\ seen' = IF Changed(ReadMaster) /\ hold = 0 THEN ReadMaster ELSE None
    /\ excused' = (excused \/ (Changed(master) /\ hold > 0 /\ Running = {}))
    /\ UNCHANGED <<master, file, premute, script, mixer, pending>>

WriteSeen ==
    /\ seen # None
    /\ file' = seen /\ seen' = None
    /\ UNCHANGED <<master, premute, script, mixer, lastMaster, hold, pending, excused>>

(* Where ALSA was not up when beepd started, beepd tries again now and then. *)
MixerOpens ==
    /\ ~ mixer /\ mixer' = TRUE
    /\ UNCHANGED <<master, file, premute, script, lastMaster, hold, pending, seen,
                   excused>>

(* beepd dies and is started again; what it knew is gone. *)
Restart ==
    /\ mixer' \in BOOLEAN /\ lastMaster' = None /\ hold' = 0 /\ pending' = 0 /\ seen' = None
    /\ excused' = (excused /\ Running # {})
    /\ UNCHANGED <<master, file, premute, script>>

VolNext ==
    \/ \E d \in {-1, 1} : Knob(d)
    \/ \E s \in Scripts : SetMaster(s) \/ WriteFile(s) \/ TurnKnob(s) \/ Tap(s)
    \/ \E s \in Scripts, level \in Levels : Remote(s, level)
    \/ \E level \in Levels : Sender(level)
    \/ Watch \/ WriteSeen \/ MixerOpens \/ Restart

VolSpec == VolInit /\ [][VolNext]_volVars
=============================================================================
