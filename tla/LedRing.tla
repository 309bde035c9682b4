------------------------------- MODULE LedRing -------------------------------
(***************************************************************************)
(* What the LED ring of beepd shows: the frames of the animations that     *)
(* main() chooses among, and the arithmetic that takes a knob's detent     *)
(* through beep-action and ALSA's Master to the arc.  A picture gives the  *)
(* brightness of the 24 LEDs before it is stored in a uint8_t.             *)
(*                                                                         *)
(* External: beep-action is a script of the repository; Master gives back  *)
(* the percentage it was set to, or one beside it.                         *)
(***************************************************************************)
EXTENDS Integers, Sequences

VARIABLE frame     \* anim

NLed == 24
Leds == 0..(NLed - 1)
Bottom == 12       \* LED_BOT
Cycle == 9240      \* every animation's period divides it

LedInit == frame = 0
NextFrame == frame' = (frame + 1) % Cycle
LedSpec == LedInit /\ [][NextFrame]_frame

-----------------------------------------------------------------------------
(* Heads with tails. *)

(* The tail of a comet whose head is at LED h, as a picture. *)
Comet(tail, h) ==
    [i \in Leds |-> LET d == (h - i) % NLed IN IF d < Len(tail) THEN tail[d + 1] ELSE 0]

SetupComet(f) == Comet(<<255, 130, 55, 22, 8>>, f % NLed)

Orbit(f) == [i \in Leds |-> CASE i = f % NLed -> 255
                              [] i = (f - 1) % NLed -> 70
                              [] OTHER -> 10]

(* Two heads from the top to the bottom, then a flash.  The stores go tail by
   tail, so of two on one LED the later, that is the dimmer, stays. *)
JoinTail == <<255, 110, 40>>
LastStore(i, a, b) ==
    LET here == {d \in 0..2 : (a - d) % NLed = i \/ (b + d) % NLed = i}
    IN IF here = {} THEN 0 ELSE JoinTail[1 + CHOOSE d \in here : \A e \in here : e <= d]

Joining(f) ==
    LET ph == f % (NLed \div 2 + 10)
        into == ph - NLed \div 2
    IN [i \in Leds |-> IF into < 0 THEN LastStore(i, ph, (NLed - ph) % NLed)
                       ELSE 255 - (into * 255) \div 10]

-----------------------------------------------------------------------------
(* Breaths: a triangle wave over the whole ring, or over the two LEDs that
   straddle the bottom. *)
Triangle(f, period) == LET ph == f % period IN IF ph < period \div 2 THEN ph ELSE period - ph

BottomPair == {Bottom, Bottom - 1}
PairAt(level, pair) == [i \in Leds |-> IF i \in pair THEN level ELSE 0]

Muted(f) == [i \in Leds |-> 8 + Triangle(f, 84)]
Breathe(f) == PairAt(4 + Triangle(f, 84), BottomPair)
SleepShifted(f) == PairAt(3 + Triangle(f, 120) \div 2, {Bottom + 1, Bottom})  \* fault
Sleep(f) == PairAt(3 + Triangle(f, 120) \div 2, BottomPair)

-----------------------------------------------------------------------------
(* Feedback.  Division of a negative number rounds towards zero, which only the
   clamps below see. *)
Within(x, low, high) == IF x < low THEN low ELSE IF x > high THEN high ELSE x

(* A press flashes the ring, for 350 ms and whatever is left of the poll. *)
PulseLevel(ms) ==
    Within(IF ms < 175 THEN (ms * 255) \div 175 ELSE ((350 - ms) * 255) \div 175, 0, 255)

(* The arming ring: it fills towards setup, then over a brighter track towards the
   factory reset, and is solid from there on. *)
Filled(lit, track) == [i \in Leds |-> IF i < lit THEN 255 ELSE track]
ArmRing(held) ==
    CASE held < 10000 -> Filled((held * NLed) \div 10000, 6)
      [] held >= 10000 /\ held < 30000 -> Filled(((held - 10000) * NLed) \div 20000, 90)
      [] OTHER -> Filled(NLed, 90)

(* A spark of party mode rises for a quarter of its life and fades. *)
PartyCap == 250
SparkLevel(life, age) ==
    LET on == IF life \div 4 < 1 THEN 1 ELSE life \div 4
    IN IF age >= life THEN 0
       ELSE Within(IF age < on THEN (PartyCap * age) \div on
                   ELSE (PartyCap * (life - age)) \div (life - on), 0, PartyCap)

(* The arc: from the bottom, clockwise; and one turn of the knob, which snaps to
   the levels the arc can show. *)
Lit(percent) == (percent * NLed + 50) \div 100
Arc(percent) == [i \in Leds |-> IF (i - Bottom) % NLed < Lit(percent) THEN 255 ELSE 10]

Turned(percent, step) ==
    (Within(Lit(percent) + step, 0, NLed) * 100 + NLed \div 2) \div NLed

-----------------------------------------------------------------------------
(* The promises, on the current frame against all others (MCDevice states them). *)
InRange ==
    /\ \A show \in {SetupComet(frame), Orbit(frame), Joining(frame), Muted(frame),
                    Breathe(frame), Sleep(frame)} : \A i \in Leds : show[i] \in 0..255
    /\ PulseLevel(frame % 392) \in 0..255
    /\ SparkLevel(6 + (frame % 19), (frame \div 19) % 25) \in 0..PartyCap

ToldApart ==
    /\ LET joining == {Orbit(frame), Joining(frame)}
       IN \A f \in 0..(NLed - 1) : SetupComet(f) \notin joining
    /\ \A i \in Leds : Breathe(frame)[i] > 0 <=> Sleep(frame)[i] > 0

Tier(held) == (IF held >= 10000 THEN 1 ELSE 0) + (IF held >= 30000 THEN 1 ELSE 0)
TiersDiffer ==
    LET held == 4 * (frame % 8000)
    IN \A other \in {400, 9999, 10000, 20000, 29999, 30000} :
        Tier(held) # Tier(other) => ArmRing(held) # ArmRing(other)

OneLed ==
    LET percent == frame % 101
    IN \A step \in {-1, 1}, off \in {-1, 0, 1} :
        Lit(Within(Turned(percent, step) + off, 0, 100)) = Within(Lit(percent) + step, 0, NLed)
=============================================================================
