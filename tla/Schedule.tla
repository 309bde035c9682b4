------------------------------- MODULE Schedule -------------------------------
(***************************************************************************)
(* The closed loop that keeps one room on the shared schedule: phase 2 of  *)
(* run_sink_alsa with the drop/insert servo, the DAC's queue behind it and *)
(* the network before it.  The unit of time is a frame: in a tick the      *)
(* schedule advances by one, the source sends one and the DAC plays one.   *)
(* Audio is counted, not told apart; that the label is true is Playout's   *)
(* matter, so nothing is lost here: no more is on its way than the ring    *)
(* holds.  A step of the sink takes no time unless it blocks.              *)
(*                                                                         *)
(* External: the ALSA core and the DAC (a queue that starts playing when   *)
(* it holds a period and stops when it runs dry), the network and the      *)
(* scheduler, which are rough or calm and may always turn rough again.     *)
(***************************************************************************)
EXTENDS Integers

CONSTANTS Period,    \* RN_ALSA_PERIOD_FRAMES
          Target,    \* RN_BUFFER_NS, in frames
          Deadband,  \* RN_SYNC_DEADBAND
          MaxStep,   \* RN_SYNC_MAXSTEP
          Floor,     \* RN_SYNC_FLOOR
          Pause,     \* RN_CORR_PERIOD_NS
          DacMax,    \* RN_ALSA_BUF_NS
          RingMax,   \* RN_RING_BYTES
          Jitter,    \* frames a calm network is late by, at most
          Skews      \* the schedule against the arrival of audio (transit, theta)

VARIABLES
    lag,      \* where the schedule is, less played_src
    skew,     \* the constant part of it
    flight,   \* frames sent and not yet read
    depth,    \* frames in the ring
    queue,    \* frames in the DAC's queue: snd_pcm_delay
    playing,  \* is the DAC running?
    place,    \* "look", "servo", "period", "write" or "wait"
    toWrite,  \* frames of alsa_write still to be taken
    silence,  \* they are silence
    since,    \* time since last_corr
    fresh,    \* a new epoch comes with the next frame
    calm,     \* no preemption, no stalled feed, a timely network
    drifted   \* the DAC's clock has slipped a frame since the servo could last act

schedVars == <<lag, skew, flight, depth, queue, playing, place, toWrite, silence, since,
               fresh, calm, drifted>>
audio == <<flight, depth, queue, playing>>
env == <<skew, calm>>

Lesser(a, b) == IF a < b THEN a ELSE b
Bounded(n) == LET m == RingMax + DacMax IN IF n > m THEN m ELSE n

(* The anchor: the newest frame's time, as the ring's head has it. *)
Anchored(inFlight, held) == inFlight + held - Target + skew

SchedInit ==
    /\ skew \in Skews /\ flight = 0 /\ depth \in 0..RingMax
    /\ lag = Anchored(0, depth)
    /\ queue = 0 /\ playing = FALSE
    /\ place = "look" /\ toWrite = 0 /\ silence = FALSE
    /\ since = Pause /\ fresh = TRUE /\ calm = FALSE /\ drifted = FALSE

(* All that has arrived is read; a new epoch (or the start) anchors afresh and
   caps the ring. *)
Read(n) ==
    /\ n <= flight /\ depth + n <= RingMax
    /\ calm => flight - n <= Jitter
    /\ flight' = flight - n

Look(n) ==
    /\ place = "look" \/ (place = "wait" /\ n > 0)
    /\ place' = "servo"
    /\ Read(n)
    /\ \/ /\ fresh /\ n > 0
          /\ depth' = Lesser(depth + n, Target)
          /\ lag' = Anchored(flight', depth')
          /\ since' = Pause /\ fresh' = FALSE
       \/ /\ ~ (fresh /\ n > 0)
          /\ depth' = depth + n
          /\ UNCHANGED <<lag, since, fresh>>
    /\ UNCHANGED <<queue, playing, toWrite, silence, env, drifted>>

(* err: what leaves the DAC now is the queue behind the label. *)
WithoutQueue == lag                                                   \* fault
Err == lag + queue
Due == since = Pause

(* Behind: skip ahead, but never below the floor. *)
Skip == LET most == Lesser(Err, MaxStep) IN Lesser(most, depth - Floor)

ServoBehind ==
    /\ place = "servo" /\ Due /\ Err > Deadband
    /\ \/ Skip > 0 /\ depth' = depth - Skip /\ lag' = lag - Skip
       \/ Skip <= 0 /\ UNCHANGED <<depth, lag>>
    /\ since' = 0 /\ drifted' = FALSE /\ place' = "period"
    /\ UNCHANGED <<flight, queue, playing, toWrite, silence, fresh, env>>

(* Ahead: hold with silence, a period at most. *)
ServoAhead ==
    /\ place = "servo" /\ Due /\ Err < -Deadband
    /\ toWrite' = Lesser(Lesser(-Err, MaxStep), Period)
    /\ silence' = TRUE /\ place' = "write"
    /\ since' = 0 /\ drifted' = FALSE
    /\ UNCHANGED <<lag, audio, fresh, env>>

ServoRests ==
    /\ place = "servo" /\ (Due => Err \in -Deadband..Deadband)
    /\ place' = "period"
    /\ drifted' = (drifted /\ ~ Due)
    /\ UNCHANGED <<lag, audio, toWrite, silence, since, fresh, env>>

(* A period goes out if the ring has one. *)
PlayPeriod ==
    /\ place = "period"
    /\ \/ /\ depth >= Period
          /\ depth' = depth - Period /\ toWrite' = Period /\ silence' = FALSE
          /\ place' = "write"
       \/ /\ depth < Period
          /\ place' = "wait"
          /\ UNCHANGED <<depth, toWrite, silence>>
    /\ UNCHANGED <<lag, flight, queue, playing, since, fresh, env, drifted>>

(* alsa_open sets the DAC to start upon one period. *)
Started(queued) == playing \/ queued >= Period

(* alsa_write: what fits in the queue is taken, after an underrun too; played_src
   moves on when all of a period is. *)
Write ==
    /\ place = "write" /\ toWrite > 0 /\ queue < DacMax
    /\ LET n == Lesser(toWrite, DacMax - queue)
       IN /\ queue' = queue + n /\ toWrite' = toWrite - n
          /\ playing' = Started(queue')
    /\ UNCHANGED <<lag, flight, depth, place, silence, since, fresh, env, drifted>>

Written ==
    /\ place = "write" /\ toWrite = 0
    /\ \/ silence /\ place' = "period" /\ UNCHANGED lag
       \/ ~ silence /\ place' = "look" /\ lag' = lag - Period
    /\ UNCHANGED <<audio, toWrite, silence, since, fresh, env, drifted>>

-----------------------------------------------------------------------------
(* Time. *)

Blocked == place = "wait" \/ (place = "write" /\ toWrite > 0 /\ queue = DacMax)

(* A frame of the DAC's time: it plays one (one more or none, where its clock
   slips), or has none to play and stops. *)
Plays(n) ==
    \/ playing /\ queue >= n /\ queue' = queue - n /\ UNCHANGED playing
    \/ playing /\ queue < n /\ queue' = 0 /\ playing' = FALSE
    \/ ~ playing /\ n = 1 /\ UNCHANGED <<queue, playing>>

Slip(n) == IF n = 1 THEN UNCHANGED drifted ELSE ~ drifted /\ drifted' = TRUE

Tick(n, sent) ==
    /\ Blocked \/ ~ calm
    /\ Plays(n) /\ Slip(n)
    /\ flight + depth + sent <= RingMax - (IF calm THEN 0 ELSE Period + 1)
    /\ flight' = flight + sent
    /\ lag' = Bounded(lag + 1)
    /\ since' = Lesser(since + 1, Pause)
    /\ fresh' = (fresh \/ sent = 0)
    /\ place' = IF place = "wait" THEN "look" ELSE place
    /\ UNCHANGED <<depth, toWrite, silence, env>>

(* The source sends a frame; or its feed has stopped, and an epoch will begin.  No
   more is on its way than the ring holds, with room for a period in rough weather. *)
TimePasses == \E n \in 0..2 : Tick(n, 1)
FeedStalls == ~ calm /\ Tick(1, 0)

Weather == /\ calm' \in BOOLEAN
           /\ UNCHANGED <<lag, skew, audio, place, toWrite, silence, since, fresh, drifted>>

SchedNext ==
    \/ \E n \in 0..RingMax : Look(n)
    \/ ServoBehind \/ ServoAhead \/ ServoRests \/ PlayPeriod \/ Write \/ Written
    \/ TimePasses \/ FeedStalls \/ Weather

(* The sink's thread gets to run, data that is there is read, and time goes on. *)
Servo == ServoBehind \/ ServoAhead \/ ServoRests
SinkRuns == Servo \/ PlayPeriod \/ Write \/ Written
SinkReads == \E n \in 0..RingMax : Look(n)

(* Once the host and the network are calm for good, the DAC is kept playing and
   what leaves it is on the schedule, within the deadband and the frame by which
   the two clocks may have slipped since the servo last looked. *)
Late == lag + queue
OnSchedule == place = "servo" => Late \in -(Deadband + 1)..(Deadband + 1)
InSync == <>[]calm => <>[](playing /\ OnSchedule)
=============================================================================
