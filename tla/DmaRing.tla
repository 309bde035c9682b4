------------------------------ MODULE DmaRing ------------------------------
(***************************************************************************)
(* The playback half of the beep-i2s driver: a ring of DMA descriptors     *)
(* shared by the MBOX engine, the interrupt handler and the ALSA           *)
(* callbacks.  The engine gives a descriptor back by clearing its OWN bit  *)
(* and raising the status bit; the handler takes it from hw_idx onwards.   *)
(* There is one CPU: a callback runs only while no handler does, but the   *)
(* engine runs beside both.                                                *)
(*                                                                         *)
(* External, as the driver uses them: the engine, the stereo block and the *)
(* ALSA core (its states, its pointer update and the stop on an xrun).     *)
(***************************************************************************)
EXTENDS Integers, FiniteSets

CONSTANTS MaxPeriods,   \* bound: descriptors in a ring (BEEP_PERIODS_MAX)
          Kinds,        \* what streams may be: bytes of a period (up to
                        \* BEEP_PERIOD_BYTES_MAX), rate (of clk_cfg), little-endian?
          Reentry       \* is hw_params called again without an hw_free?

ASSUME DmaAssumption ==
    /\ MaxPeriods \in Nat /\ MaxPeriods >= 2
    /\ Kinds \subseteq [bytes : Nat \ {0}, rate : Nat \ {0}, le : BOOLEAN]
    /\ Reentry \in BOOLEAN

VARIABLES pcm,      \* the ALSA core's state of the substream
          mapped,   \* b->ring and b->ss are set
          nperiods, \* b->nperiods
          pb,       \* b->period_bytes
          own,      \* the OWN bits: is descriptor i the engine's?
          hwIdx,    \* b->hw_idx
          masked,   \* the completion interrupt is off
          status,   \* the completion bit of INT_STATUS
          isr,      \* the handler: "idle", "walk" or "leave"
          eng,      \* the engine: "off", "run", "last" (told to stop), "halted",
                  \* or "stray": finishing a descriptor that was freed
          pos,      \* the descriptor the engine is on
          alsaPos,  \* the core's hardware pointer, in periods
          filled,   \* periods the core believes unplayed
          ahead,    \* periods written that the engine has not completed
          rate, le, \* the stream's rate and byte order
          clk,      \* the divider in CLK_DIV (0: never set)
          stereo,   \* CONFIG: "off" or "on"
          swap      \* and its PCM_SWAP bit

core == <<pcm, alsaPos, filled, ahead, rate, le>>
ring == <<mapped, nperiods, pb, own, hwIdx>>
engine == <<eng, pos, status, masked>>
i2s == <<clk, stereo, swap>>
dmaVars == <<core, ring, engine, i2s, isr>>

DmaInit ==
    /\ pcm = "closed" /\ mapped = FALSE /\ nperiods = 2
    /\ pb \in {k.bytes : k \in Kinds} /\ own = [i \in 0..1 |-> TRUE] /\ hwIdx = 0
    /\ masked = TRUE /\ status = FALSE /\ isr = "idle" /\ eng = "off" /\ pos = 0
    /\ alsaPos = 0 /\ filled = 0 /\ ahead = 0 /\ rate = 0 /\ clk = 0
    /\ stereo = "off" /\ swap = FALSE /\ le = FALSE

(* The engine. *)
Advance(i) == IF i + 1 = nperiods THEN 0 ELSE i + 1

(* It finishes a descriptor it owns; told to stop, it goes no further. *)
EngineCompletes ==
    /\ eng \in {"run", "last"} /\ own[pos]
    /\ own' = [own EXCEPT ![pos] = FALSE]
    /\ pos' = Advance(pos)
    /\ status' = TRUE
    /\ eng' = IF eng = "last" THEN "off" ELSE eng
    /\ ahead' = IF pcm = "running" THEN ahead - 1 ELSE ahead
    /\ UNCHANGED <<mapped, nperiods, pb, hwIdx, masked, isr, pcm, alsaPos, filled,
                   rate, le, i2s>>

(* The ring was freed under it: what it reads and writes is nobody's. *)
EngineStrays ==
    /\ eng = "stray"
    /\ eng' = "off" /\ status' = TRUE
    /\ UNCHANGED <<core, ring, pos, masked, i2s, isr>>

(* A descriptor it does not own: it waits for it, or gives up for good. *)
EngineHalts ==
    /\ eng = "run" /\ ~own[pos]
    /\ eng' = "halted"
    /\ UNCHANGED <<core, ring, pos, status, masked, i2s, isr>>

(* CONTROL_STOP takes effect at the end of the descriptor in hand. *)
Unstopped == eng                                                      \* fault
Stopped == CASE eng \in {"run", "last"} -> IF own[pos] THEN "last" ELSE "off"
             [] eng = "halted" -> "off"
             [] OTHER -> eng

(* Its ring is freed while it may be in a descriptor. *)
Bereft(e) == IF e = "last" THEN "stray" ELSE e

(* The RESET module, then DESC_BASE at the first descriptor. *)
EngineReset == eng' = "off" /\ status' = FALSE /\ pos' = 0

(* The ALSA core, told that a period elapsed: it asks for the pointer, takes off
   what was played since, and on an empty buffer stops the stream. *)
Pointer == hwIdx'
Since(i, j) == IF j >= i THEN j - i ELSE j - i + nperiods

Played == /\ filled' = filled - Since(alsaPos, Pointer)
          /\ alsaPos' = Pointer
          /\ UNCHANGED <<ahead, rate, le>>

Elapsed ==
    \/ pcm # "running" /\ UNCHANGED <<core, eng>>
    \/ pcm = "running" /\ Played /\ filled' > 0 /\ UNCHANGED <<pcm, eng>>
    \/ pcm = "running" /\ Played /\ filled' <= 0
       /\ pcm' = "xrun" /\ eng' = Stopped

(* The handler: acknowledge first, then walk. *)
IsrAck ==
    /\ isr = "idle" /\ status /\ ~masked
    /\ status' = FALSE /\ isr' = "walk"
    /\ UNCHANGED <<core, ring, eng, pos, masked, i2s>>

Once == "idle"                                                        \* fault
Again == "walk"

IsrTake ==
    /\ isr = "walk" /\ mapped /\ ~own[hwIdx]
    /\ own' = [own EXCEPT ![hwIdx] = TRUE]
    /\ hwIdx' = Advance(hwIdx)
    /\ isr' = Again
    /\ Elapsed
    /\ UNCHANGED <<mapped, nperiods, pb, pos, status, masked, i2s>>

IsrEnd ==
    /\ isr = "walk" /\ (mapped => own[hwIdx])
    /\ isr' = "leave"
    /\ UNCHANGED <<core, ring, engine, i2s>>

(* The engine may complete a descriptor between the last look and the return. *)
LeaveAcking == status' = FALSE                                        \* fault
Leave == UNCHANGED status

IsrReturns ==
    /\ isr = "leave"
    /\ isr' = "idle" /\ Leave
    /\ UNCHANGED <<core, ring, eng, pos, masked, i2s>>

(* The callbacks, in the order the core calls them.  The first to open and the
   last to close write the whole of CONFIG. *)
Configured(state, on) == pcm' = state /\ stereo' = on /\ swap' = FALSE

Open ==
    /\ isr = "idle" /\ pcm = "closed" /\ Configured("open", "on")
    /\ UNCHANGED <<alsaPos, filled, ahead, rate, le, ring, engine, clk, isr>>

Close ==
    /\ isr = "idle" /\ pcm = "open" /\ Configured("closed", "off")
    /\ UNCHANGED <<alsaPos, filled, ahead, rate, le, ring, engine, clk, isr>>

Configurable == {"open"} \cup (IF Reentry THEN {"setup", "prepared"} ELSE {})

(* The DAI sets the divider and the word; it turns the swap on for little-endian
   samples, and off for none. *)
SetDai(k) == clk' = k.rate /\ swap' = (swap \/ k.le)

(* A descriptor for each period, all of them the engine's. *)
Built(n) == [i \in 0..n-1 |-> TRUE]

(* Then the component builds a ring of whole periods; hw_idx is left as the last
   stream left it. *)
HwParams(n, k) ==
    /\ isr = "idle" /\ pcm \in Configurable
    /\ SetDai(k) /\ rate' = k.rate /\ le' = k.le
    /\ mapped' = TRUE /\ nperiods' = n /\ pb' = k.bytes /\ eng' = Bereft(eng)
    /\ own' = Built(n)
    /\ pcm' = "setup"
    /\ UNCHANGED <<hwIdx, alsaPos, filled, ahead, pos, status, masked, stereo, isr>>

(* No memory for the ring: the core undoes it by hw_free. *)
HwParamsFails(k) ==
    /\ isr = "idle" /\ pcm \in Configurable
    /\ SetDai(k) /\ mapped' = FALSE /\ eng' = Bereft(Stopped)
    /\ pcm' = "freeing"
    /\ UNCHANGED <<nperiods, pb, own, hwIdx, alsaPos, filled, ahead, rate, le, pos, status,
                   masked, stereo, isr>>

(* hw_free stops the engine, waits 20 ms, masks the interrupt, lets a handler
   finish and frees the ring.  The wait covers the descriptor in hand when the
   period is no longer than that (4 bytes a frame). *)
FreeDelay == 20
Covers(ms) == pb * 1000 <= ms * 4 * rate

HwFree ==
    /\ isr = "idle" /\ pcm = "setup"
    /\ eng' = Stopped /\ pcm' = "freeing"
    /\ UNCHANGED <<alsaPos, filled, ahead, rate, le, ring, pos, status, masked, i2s, isr>>

Waited == Covers(FreeDelay) => eng # "last"

HwFreed ==
    /\ isr = "idle" /\ pcm = "freeing" /\ Waited
    /\ masked' = TRUE /\ mapped' = FALSE /\ eng' = Bereft(eng) /\ pcm' = "open"
    /\ UNCHANGED <<nperiods, pb, own, hwIdx, alsaPos, filled, ahead, rate, le, pos, status,
                   i2s, isr>>

Prepare ==
    /\ isr = "idle" /\ pcm \in {"setup", "prepared", "xrun"}
    /\ EngineReset /\ hwIdx' = 0
    /\ own' = Built(nperiods)
    /\ masked' = FALSE
    /\ pcm' = "prepared" /\ alsaPos' = 0 /\ filled' = 0 /\ ahead' = 0
    /\ UNCHANGED <<mapped, nperiods, pb, rate, le, i2s, isr>>

(* The application writes a period, starts, or drops the stream. *)
Write ==
    /\ isr = "idle" /\ pcm \in {"prepared", "running"} /\ filled < nperiods
    /\ filled' = filled + 1 /\ ahead' = ahead + 1
    /\ UNCHANGED <<pcm, alsaPos, rate, le, ring, engine, i2s, isr>>

Start ==
    /\ isr = "idle" /\ pcm = "prepared" /\ filled > 0
    /\ pcm' = "running" /\ eng' = "run"
    /\ UNCHANGED <<alsaPos, filled, ahead, rate, le, ring, pos, status, masked, i2s, isr>>

Drop ==
    /\ isr = "idle" /\ pcm \in {"prepared", "running", "xrun"}
    /\ pcm' = "setup"
    /\ eng' = IF pcm = "running" THEN Stopped ELSE eng
    /\ UNCHANGED <<alsaPos, filled, ahead, rate, le, ring, pos, status, masked, i2s, isr>>

Isr == IsrAck \/ IsrTake \/ IsrEnd \/ IsrReturns
Engine == EngineCompletes \/ EngineStrays \/ EngineHalts
Callback ==
    \/ Open \/ Close \/ HwFree \/ HwFreed \/ Prepare \/ Write \/ Start \/ Drop
    \/ \E n \in 2..MaxPeriods, k \in Kinds : HwParams(n, k)
    \/ \E k \in Kinds : HwParamsFails(k)

DmaNext == Isr \/ Engine \/ Callback
DmaSpec == DmaInit /\ [][DmaNext]_dmaVars
DmaFairSpec == DmaSpec /\ WF_dmaVars(Isr)

-----------------------------------------------------------------------------
(* The descriptors given back by the engine and not yet taken by the handler. *)
Back == {i \in 0..nperiods-1 : ~own[i]}

(* From hw_idx on, going round, up to where the engine is. *)
Arc == CASE hwIdx < pos -> hwIdx..pos-1
         [] hwIdx > pos -> 0..nperiods-1 \ (pos..hwIdx-1)
         [] OTHER -> IF own[hwIdx] THEN {} ELSE 0..nperiods-1

(* The handler's index stays inside the ring, and what the engine gave back is
   exactly the arc from it to the engine: no descriptor is skipped, taken twice or
   left behind, streams of other lengths before it included. *)
ArcHeld == hwIdx < nperiods /\ Back = Arc

(* No completion is lost between the acknowledge and the walk: with no handler
   running and no interrupt due, nothing given back is waiting. *)
Accounted == isr = "idle" /\ ~status => own[hwIdx]

(* What ALSA believes unplayed is what the engine has not played and what the
   handler has still to report. *)
Honest == pcm = "running" => filled = ahead + Cardinality(Back)

(* Engine, handler and callbacks agree on every descriptor, in every state of a
   stream whose interrupt is on. *)
RingAgreed == ~masked => ArcHeld /\ Accounted /\ Honest

(* While the engine plays there is a ring under it, and the stereo block is on,
   clocked for the stream and swapping if its samples are little-endian. *)
Fed == eng \in {"run", "last"} =>
           mapped /\ stereo = "on" /\ clk = rate /\ (le => swap)
=============================================================================
