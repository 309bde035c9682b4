-------------------------------- MODULE Dial --------------------------------
(***************************************************************************)
(* The input half of beepd: the loop that polls the STM8's press and       *)
(* release counts, folds them into gestures, and picks what the LED ring   *)
(* shows.  The unit of time is one poll (42 ms, as long as the loop is not *)
(* held up): the code compares now_ms; its times (the press, the last tap, *)
(* the last activity) are kept as ages in polls, capped where no threshold *)
(* can tell them apart.                                                    *)
(*                                                                         *)
(* External, as beepd uses them: the button under the user's finger, the   *)
(* counters of the STM8 and the control files the ring's flags come from.  *)
(***************************************************************************)
EXTENDS Integers, Sequences

CONSTANTS MultiTap,      \* MULTI_TAP_MS, in polls
          ArmShow,       \* ARM_SHOW_MS
          HoldWifi,      \* HOLD_WIFI_MS
          HoldReset,     \* HOLD_RESET_MS
          PulseFor,      \* BTN_PULSE_MS
          VolHold,       \* VOL_HOLD_MS
          SleepAfter,    \* SLEEP_AFTER_MS
          BootDone,      \* BOOT_DONE_MS
          Toggles,       \* bound: changes of the button between two polls
          Flaky          \* bound: polls that fail between two that are served

VARIABLES up, held,          \* the button: released? how long since it changed
          cntDown, cntUp,    \* the STM8's counts since it was last read
          asked,             \* the last LED write requested the next frame
          failures,          \* polls with a failed transfer since a frame was served
          btnAge,            \* t - btn_down_at, or None
          pulseAge,          \* t - btn_pulse_ms
          tapAge, tapCount,  \* t - last_tap_at, or None; tap_count
          volAge, activeAge, \* t - last_vol_ms, t - last_active_ms
          bootAge,           \* t - t0
          led,               \* led_mode as the last poll saw it
          ring,              \* what the ring shows
          fired,             \* the gestures of the last poll
          realUps, whole, unheard \* history: releases since no tap was pending;
                             \* no frame missing since the button was last at
                             \* rest; polls the counts have been waiting for

dialVars == <<up, held, cntDown, cntUp, asked, failures, btnAge, pulseAge, tapAge, tapCount, volAge,
              activeAge, bootAge, led, ring, fired, realUps, whole, unheard>>

None == -1
Cap == HoldReset + 2
Older(age, cap) == IF age = None \/ age >= cap THEN age ELSE age + 1
MaxCount == 4                 \* counts above it are taken for noise

DialInit ==
    /\ up = TRUE /\ held = 0 /\ cntDown = 0 /\ cntUp = 0 /\ asked = FALSE /\ failures = 0
    /\ btnAge = None /\ pulseAge = PulseFor /\ tapAge = None /\ tapCount = 0
    /\ volAge = VolHold /\ activeAge = 0 /\ bootAge = 0 /\ led = FALSE
    /\ ring = "boot" /\ fired = {} /\ realUps = 0 /\ whole = TRUE /\ unheard = 0

(* The user: k changes of the button since the last poll. *)
Capped(n, cap) == IF n > cap THEN cap ELSE n
Presses(k) == IF up THEN (k + 1) \div 2 ELSE k \div 2
Releases(k) == k - Presses(k)
UpAfter(k) == IF k % 2 = 0 THEN up ELSE ~up

(* The edges of one poll: every press first, then every release, whatever their
   order was.  A release ends a hold of its length, or counts as a tap. *)
Sane(n) == IF n > MaxCount THEN 0 ELSE n
HoldWhenArmed(age) == IF age >= HoldReset THEN {"factory_reset"}
                      ELSE IF age >= ArmShow THEN {"hold"} ELSE {}    \* fault
HoldOf(age) == CASE age >= HoldReset -> {"factory_reset"}
                 [] age >= HoldWifi /\ age < HoldReset -> {"hold"}
                 [] OTHER -> {}
Burst(age) == IF age # None /\ age <= MultiTap THEN tapCount + 1 ELSE 1

(* The window has lapsed: the taps counted so far are a gesture. *)
Lapsed(age) == age > MultiTap
TapOf(n) == CASE n >= 3 -> {"phys_confirm"} [] n = 2 -> {"double_tap"}
              [] OTHER -> {"tap"}

(* The ladder of the ring, highest first.  Its lowest flags (muted, joining,
   connecting) are read from files others write, every twelfth poll, playing every
   sixth: any of them may hold.  Which of them shows is RingFlags' question. *)
ArmTier(h) == CASE h < HoldWifi -> "arm-wifi"
                [] h >= HoldWifi /\ h < HoldReset -> "arm-reset"
                [] OTHER -> "arm-solid"
Arming(h) == <<ArmTier(h), h >= ArmShow>>
Adjusting == <<"volume", volAge' < VolHold>>
FeedbackTurnFirst(h) == <<Adjusting, Arming(h)>>                               \* fault
Feedback(h) ==
    <<Arming(h), <<"pulse", pulseAge' < PulseFor>>, Adjusting>>
Resting(playing) ==
    {"flag", CASE playing -> "party"
               [] ~playing /\ activeAge' < SleepAfter -> "breathe"
               [] OTHER -> "sleep"}
Claims(ap, h) ==
    << <<"boot", bootAge' < BootDone>>, <<"ap", ap>> >> \o Feedback(h)
Shown(ap, playing, h) ==
    LET claims == Claims(ap, h)
        first == {i \in 1..Len(claims) :
                    claims[i][2] /\ \A j \in 1..i-1 : ~claims[j][2]}
    IN IF first = {} THEN Resting(playing) ELSE {claims[i][1] : i \in first}

(* The press counts a poll hands over, and when a release is a tap. *)
PressedAt(d) == IF d > 0 THEN 0 ELSE Older(btnAge, Cap)
AfterEdges(d, u) == IF u > 0 THEN None ELSE PressedAt(d)
IsTap(d, u) == u > 0 /\ PressedAt(d) # None /\ HoldOf(PressedAt(d)) = {}
HoldFired(d, u) == IF u > 0 THEN HoldOf(PressedAt(d)) ELSE {}

Counted(d, u, age) == IF IsTap(d, u) THEN Burst(age) ELSE tapCount

(* One turn of the loop on the counts d and u: edges, the lapse of the window,
   activity, and the ring.  The volume may have been moved, by the knob or by anyone
   else. *)
Turn(d, u) ==
    LET age == Older(tapAge, MultiTap + 1)
        count == Counted(d, u, age)
        since == IF IsTap(d, u) THEN 0 ELSE age
    IN \E ap, playing, moved \in BOOLEAN :
        /\ btnAge' = AfterEdges(d, u)
        /\ pulseAge' = IF d > 0 THEN 0 ELSE Older(pulseAge, PulseFor)
        /\ fired' = HoldFired(d, u) \cup IF Lapsed(since) THEN TapOf(count) ELSE {}
        /\ tapAge' = IF Lapsed(since) THEN None ELSE since
        /\ tapCount' = IF Lapsed(since) THEN 0 ELSE Capped(count, 3)
        /\ volAge' = IF moved THEN 0 ELSE Older(volAge, VolHold)
        /\ bootAge' = Older(bootAge, BootDone)
        /\ activeAge' = IF playing \/ volAge' < VolHold \/ btnAge' # None
                        THEN 0 ELSE Older(activeAge, SleepAfter)
        /\ led' = ap
        /\ ring' \in Shown(ap, playing, btnAge')

(* The LED write that ends the turn asks for the next frame, whether or not this
   one brought a click (protocol v1), unless the write fails. *)
RequestIfHeard(heard) == heard                                        \* fault
Request(heard) == TRUE
Ask(heard, before) ==
    \/ asked' = Request(heard) /\ failures' = before
    \/ asked' = FALSE /\ before < Flaky /\ failures' = before + 1

(* The poll reads and clears the counts; a frame not asked for is empty; a failed
   transfer leaves the counts for the next, or loses them. *)
PollServed(k) ==
    LET d == cntDown + Presses(k)
        u == cntUp + Releases(k)
    IN /\ asked
       /\ Turn(Sane(d), Sane(u)) /\ Ask(Sane(d) + Sane(u) > 0, 0)
       /\ cntDown' = 0 /\ cntUp' = 0
       /\ whole' = ((whole /\ d <= MaxCount /\ u <= MaxCount)
                     \/ (UpAfter(k) /\ btnAge' = None))

Counting(k) == /\ cntDown' = Capped(cntDown + Presses(k), MaxCount + 1)
               /\ cntUp' = Capped(cntUp + Releases(k), MaxCount + 1)

PollUnserved(k) ==
    /\ ~asked
    /\ Turn(0, 0) /\ Ask(FALSE, failures)
    /\ Counting(k) /\ whole' = FALSE

PollFails(k) ==
    /\ asked /\ failures < Flaky
    /\ Turn(0, 0)
    /\ asked' \in {Request(FALSE), FALSE} /\ failures' = failures + 1
    /\ whole' = FALSE
    /\ Counting(k) \/ (cntDown' = 0 /\ cntUp' = 0)

User(k) ==
    /\ up' = UpAfter(k)
    /\ held' = IF k = 0 THEN Capped(held + 1, Cap) ELSE 0
    /\ realUps' = IF tapAge = None /\ cntUp = 0 THEN Capped(Releases(k), 5)
                  ELSE Capped(realUps + Releases(k), 5)

Waiting == IF cntDown' + cntUp' = 0 THEN 0 ELSE Capped(unheard + 1, 2 * Flaky + 3)

Poll == \E k \in 0..Toggles :
    /\ User(k)
    /\ PollServed(k) \/ PollUnserved(k) \/ PollFails(k)
    /\ unheard' = Waiting

DialNext == Poll
DialSpec == DialInit /\ [][DialNext]_dialVars
=============================================================================
