------------------------------ MODULE MCDevice ------------------------------
(***************************************************************************)
(* The programs of the device that share nothing but the box: the DMA      *)
(* driver, the dial, the LED ring's pictures and flags, the volume, and    *)
(* the scripts that switch the radio and the owner of the speaker.  A      *)
(* behaviour is one of a single one of them; the others stay where they    *)
(* start.                                                                  *)
(***************************************************************************)
EXTENDS DmaRing, WifiSwitch, Sequences, FiniteSets

CONSTANTS Devices,      \* which of them
          MultiTap, ArmShow, HoldWifi, HoldReset, PulseFor, VolHold, SleepAfter,
          BootDone, Toggles, Flaky,
          Top, Scripts, HoldOff, Wait

VARIABLES device,
          up, held, cntDown, cntUp, asked, failures, btnAge, pulseAge, tapAge, tapCount,
          volAge, activeAge, bootAge, led, shown, fired, realUps, whole, unheard,
          frame,
          master, file, premute, script, mixer, lastMaster, hold, pending, seen,
          excused,
          flag, flagFile, left, loops, copy, meant, steady,
          conf, boots, runs, todo, changed, disturbed

Dial == INSTANCE Dial WITH ring <- shown
Vol == INSTANCE Volume
Leds == INSTANCE LedRing
Flg == INSTANCE RingFlags WITH file <- flagFile
Own == INSTANCE AudioOwner WITH excused <- disturbed

(* The thresholds of a hold are in order, and the animation at power-on is over
   long before the first of them that counts; a deadline is in the future. *)
ASSUME DialAssumption ==
    /\ {MultiTap, ArmShow, HoldWifi, HoldReset, PulseFor, VolHold, SleepAfter, BootDone,
        Toggles, Flaky} \subseteq Nat
    /\ ArmShow < HoldWifi /\ BootDone < HoldWifi /\ HoldWifi < HoldReset
ASSUME LevelAssumption == Top \in Nat \ {0} /\ HoldOff \in Nat
ASSUME WaitAssumption == Wait \in Nat \ {0}

dialState == <<up, held, cntDown, cntUp, asked, failures, btnAge, pulseAge, tapAge,
               tapCount, volAge, activeAge, bootAge, led, shown, fired, realUps, whole,
               unheard>>
volState == <<master, file, premute, script, mixer, lastMaster, hold, pending,
              seen, excused>>
flagState == <<flag, flagFile, left, loops, copy, meant, steady>>
ownState == <<conf, boots, runs, todo, changed, disturbed>>
vars == <<device, dmaVars, dialState, frame, volState, flagState, wifiVars, ownState>>

Init ==
    /\ device \in Devices
    /\ DmaInit /\ Dial!DialInit /\ Leds!LedInit /\ Vol!VolInit /\ Flg!FlagsInit
    /\ WifiInit /\ Own!OwnInit
    /\ device # "dma" => \A k \in Kinds : pb <= k.bytes
    /\ device # "volume" => master = 0 /\ file = 0 /\ mixer
    /\ device # "flags" => flag = "muted"
    /\ device # "wifi" => cfg.net = Unset

DmaStep == device = "dma" /\ DmaNext
           /\ UNCHANGED <<device, dialState, frame, volState, flagState, wifiVars, ownState>>
DialStep == device = "dial" /\ Dial!DialNext
            /\ UNCHANGED <<device, dmaVars, frame, volState, flagState, wifiVars, ownState>>
LedStep == device = "leds" /\ Leds!NextFrame
           /\ UNCHANGED <<device, dmaVars, dialState, volState, flagState, wifiVars, ownState>>
VolStep == device = "volume" /\ Vol!VolNext
           /\ UNCHANGED <<device, dmaVars, dialState, frame, flagState, wifiVars, ownState>>
FlagStep == device = "flags" /\ Flg!FlagsNext
            /\ UNCHANGED <<device, dmaVars, dialState, frame, volState, wifiVars, ownState>>
WifiStep == device = "wifi" /\ WifiNext
            /\ UNCHANGED <<device, dmaVars, dialState, frame, volState, flagState, ownState>>
OwnStep == device = "owner" /\ Own!OwnNext
           /\ UNCHANGED <<device, dmaVars, dialState, frame, volState, flagState, wifiVars>>

Next == DmaStep \/ DialStep \/ LedStep \/ VolStep \/ FlagStep \/ WifiStep \/ OwnStep

(* Interrupts are served, programs run on and time passes, in the part that runs. *)
Spec ==
    /\ Init /\ [][Next]_vars /\ WF_dmaVars(Isr)
    /\ WF_wifiVars(device = "wifi" /\ SetWifi)
    /\ WF_wifiVars(device = "wifi" /\ Watchdog)
    /\ WF_wifiVars(device = "wifi" /\ HoldReload)
    /\ WF_wifiVars(device = "wifi" /\ Radio)
    /\ WF_wifiVars(device = "wifi" /\ Uptime)

DmaTypeOK ==
    /\ pcm \in {"closed", "open", "setup", "prepared", "running", "xrun", "freeing"}
    /\ mapped \in BOOLEAN /\ nperiods \in 2..MaxPeriods /\ pb \in {k.bytes : k \in Kinds}
    /\ own \in [0..nperiods-1 -> BOOLEAN] /\ hwIdx \in 0..MaxPeriods-1
    /\ masked \in BOOLEAN /\ status \in BOOLEAN /\ isr \in {"idle", "walk", "leave"}
    /\ eng \in {"off", "run", "last", "halted", "stray"} /\ pos \in 0..MaxPeriods-1
    /\ alsaPos \in 0..MaxPeriods-1 /\ filled \in 0..MaxPeriods
    /\ ahead \in -MaxPeriods..MaxPeriods
    /\ {rate, clk} \subseteq {k.rate : k \in Kinds} \cup {0}
    /\ stereo \in {"off", "on"} /\ {le, swap} \subseteq BOOLEAN

DialTypeOK ==
    /\ up \in BOOLEAN /\ held \in 0..Dial!Cap
    /\ cntDown \in 0..Dial!MaxCount+1 /\ cntUp \in 0..Dial!MaxCount+1
    /\ asked \in BOOLEAN /\ failures \in 0..Flaky
    /\ btnAge \in Dial!None..Dial!Cap /\ pulseAge \in 0..PulseFor
    /\ tapAge \in Dial!None..MultiTap /\ tapCount \in 0..3
    /\ volAge \in 0..VolHold /\ activeAge \in 0..SleepAfter
    /\ bootAge \in 0..BootDone /\ led \in BOOLEAN /\ whole \in BOOLEAN
    /\ fired \subseteq {"tap", "double_tap", "phys_confirm", "hold", "factory_reset"}

VolTypeOK ==
    /\ master \in Vol!Levels /\ file \in Vol!Levels
    /\ premute \in Vol!Levels /\ hold \in 0..HoldOff /\ pending \in -1..1
    /\ script \in [Scripts -> [todo : {"nothing", "set", "write"}, level : Vol!Levels]]
    /\ lastMaster \in {Vol!None} \cup Vol!Levels /\ seen \in {Vol!None} \cup Vol!Levels
    /\ excused \in BOOLEAN /\ mixer \in BOOLEAN

FlagsTypeOK ==
    /\ flagFile \in {"absent", "empty", "yes", "no"} /\ left \in 0..Wait
    /\ loops \in 0..11 /\ {copy, meant} \subseteq BOOLEAN

WifiTypeOK ==
    /\ {cfg, saved, live} \subseteq Config
    /\ {linked, reloadDue, invited, crossed, raced} \subseteq BOOLEAN
    /\ prev \in [dir : BOOLEAN, file : SUBSET Config] /\ joining \in 0..Window
    /\ target \in Networks \cup {Unset} /\ events \in 0..MaxEvents

(* Every variable is in range: no index, age, count or level leaves it. *)
TypeOK == device \in Devices /\ DmaTypeOK /\ DialTypeOK /\ VolTypeOK /\ FlagsTypeOK
          /\ WifiTypeOK

MCKinds == {[bytes |-> 1024, rate |-> 44100, le |-> TRUE],
            [bytes |-> 4092, rate |-> 44100, le |-> FALSE],
            [bytes |-> 4092, rate |-> 48000, le |-> TRUE]}

(* An engine that overran the whole ring and gave up is noticed: the stream does
   not go on "running" in silence. *)
StallReported == eng = "halted" ~> pcm # "running"

(* "let the engine finish its current descriptor before we free the ring". *)
FreedAfterLast == eng # "stray"

(* The taps counted towards a gesture (three of them confirm that somebody is
   there) are never more than the releases there were, even when frames are late
   or lost. *)
TapsMeant == tapCount <= realUps

(* A hold or a factory reset is fired only when the button was down, without a
   release, for as long as the gesture asks, less a poll; wherever presses and
   releases met in one poll, and provided no frame was lost since the button was
   last at rest. *)
HoldsMeant ==
    LET least == IF "factory_reset" \in fired' THEN HoldReset ELSE HoldWifi
    IN whole /\ fired' \cap {"hold", "factory_reset"} # {} => ~up /\ held >= least - 1

(* No gesture without the finger. *)
NoPhantom == []TapsMeant /\ [][HoldsMeant]_vars

(* A hold or a reset is announced: unless the ring shows the setup comet, the
   poll before it showed the arming ring of that tier, whatever else went on. *)
Armed ==
    [][/\ "hold" \in fired' => led \/ shown \in {"arm-wifi", "arm-reset"}
       /\ "factory_reset" \in fired' => led \/ shown \in {"arm-reset", "arm-solid"}]_vars

(* The input does not go dead: what the user did waits for no more polls than
   the failed transfers cost. *)
Heard == unheard <= 2 * Flaky + 1

(* Changes of Master that do not meet, and that no watch passes over during the
   hold-off of the knob, leave the file at Master once all is quiet: through
   restarts of beepd, and whether or not the one who changed it writes it. *)
FileTrue == Vol!Quiet /\ ~excused => file = master

(* No brightness leaves a byte, where it would wrap to its opposite, and a spark
   stays below the level the stock firmware found to flicker.  "So the two are
   never confused": whatever frames a glance catches, the setup comet is neither
   the Wi-Fi spinner nor a group being joined.  Releasing the button does what the
   ring showed: no two lengths of a hold that fire different actions look the same.
   And "the arc advances exactly one LED per step" of the knob. *)
Pictures == device = "leds" =>
    Leds!InRange /\ Leds!ToldApart /\ Leds!TiersDiffer /\ Leds!OneLed

(* What stands for half a second the ring shows, and a join that never comes to
   play ends when its time is over: see RingFlags. *)
UpToDate == Flg!UpToDate

(* Whatever network is asked for, the device ends up where somebody can get at it,
   provided that set_wifi and the watchdog never acted at the same time and no
   reboot took the snapshot. *)
Home == device = "wifi" => <>raced \/ <>[]Reachable

(* The speaker is AirPlay's or LMS's, never both: see AudioOwner. *)
OneOwner == Own!OneOwner

(* "If it never connects (e.g. wrong password) the speaker automatically returns to
   its previous network, or to this setup network if it had none." *)
NeverStranded == device = "wifi" => <>[]Reachable
=============================================================================
