------------------------------ MODULE Resampler ------------------------------
(***************************************************************************)
(* The playout of a sink with --resample: frames go from the ring into a   *)
(* window (rn_rsmp_feed), a period of output is interpolated from it       *)
(* (rn_rsmp_pull) at a step the servo trims, and gross errors are snapped  *)
(* by dropping from the ring or by playing silence.  A frame is its source *)
(* index, so the model knows what the code only counts.  What the clock    *)
(* and the DAC queue say (err) may be anything.                            *)
(***************************************************************************)
EXTENDS Integers, Sequences, FiniteSets

CONSTANTS Period,     \* RN_ALSA_PERIOD_FRAMES
          Margin,     \* 64: the window is fed up to Period + Margin frames
          Window,     \* RN_RSMP_WIN
          FeedChunk,  \* RN_RSMP_FEED_CHUNK
          Unit,       \* 65536, a step of one frame
          StepFine,   \* RN_RSMP_STEP_FINE
          Slew,       \* RN_RSMP_SLEW
          RingFloor,  \* RN_SYNC_FLOOR
          RingCap,    \* frames kept upon a re-anchor (RN_BUFFER_NS)
          Reads,      \* bound: the numbers of frames read at once
          MaxFrames   \* bound: frames of the source

VARIABLES win,        \* rs.win up to rs.win_n
          ri, frac, step, \* rs.ri, rs.frac, rs.step
          queued,     \* the frames of the ring
          arrived,    \* the source index after the newest frame read
          playedSrc, labelled, \* played_src, have_played
          stage,      \* "drain", "feed", "servo" or "output"
          eofSeen,    \* eof
          out         \* the last output: where each frame was taken, in 1/Unit,
                      \* Stale for a frame that was not written

rsVars == <<win, ri, frac, step, queued, arrived, playedSrc, labelled, stage, eofSeen, out>>

Stale == -1
WinN == Len(win)
Unconsumed == WinN - ri

RsInit ==
    /\ win = <<>> /\ ri = 1 /\ frac = 0 /\ step = Unit
    /\ queued = <<>> /\ arrived = 0 /\ playedSrc = 0 /\ labelled = FALSE
    /\ stage = "drain" /\ eofSeen = FALSE /\ out = <<>>

(* Everything there is to read goes into the ring; then the head of the ring is
   labelled if it is not, from the newest index and the length. *)
Label(ring, next) ==
    IF ~ labelled /\ ring # <<>>
    THEN labelled' = TRUE /\ playedSrc' = next - Len(ring)
    ELSE UNCHANGED <<labelled, playedSrc>>

ReadFrames(k) ==
    /\ stage = "drain" /\ ~ eofSeen /\ arrived + k <= MaxFrames
    /\ queued' = queued \o [i \in 1..k |-> arrived + i - 1]
    /\ arrived' = arrived + k
    /\ eofSeen' \in BOOLEAN
    /\ Label(queued', arrived')
    /\ stage' = "feed"
    /\ UNCHANGED <<win, ri, frac, step, out>>

ReadNothing ==
    /\ stage = "drain" /\ eofSeen
    /\ stage' = "feed"
    /\ UNCHANGED <<win, ri, frac, step, queued, arrived, playedSrc, labelled, eofSeen, out>>

(* A new epoch, or the start: cap the ring, label it afresh, undo the trim. *)
Reanchor(k) ==
    /\ stage = "drain" /\ ~ eofSeen /\ k > 0 /\ arrived + k <= MaxFrames
    /\ LET all == queued \o [i \in 1..k |-> arrived + i - 1]
           over == IF Len(all) > RingCap THEN Len(all) - RingCap ELSE 0
       IN queued' = SubSeq(all, over + 1, Len(all))
    /\ arrived' = arrived + k
    /\ labelled' = TRUE /\ playedSrc' = arrived' - Len(queued')
    /\ step' = Unit /\ eofSeen' \in BOOLEAN
    /\ stage' = "feed"
    /\ UNCHANGED <<win, ri, frac, out>>

(* rn_rsmp_feed: when the window is full, what was consumed goes, all but one
   frame of history; what does not fit even then is lost. *)
CompactShort == <<SubSeq(win, ri + 1, WinN), 1>>                      \* fault: one too few
Compacted == <<SubSeq(win, ri, WinN), 1>>

Feed(frames) ==
    LET full == WinN + Len(frames) > Window
        kept == IF full THEN Compacted[1] ELSE win
        room == Window - Len(kept)
    IN /\ win' = kept \o SubSeq(frames, 1, IF Len(frames) > room THEN room ELSE Len(frames))
       /\ ri' = IF full THEN Compacted[2] ELSE ri

Smallest(S) == CHOOSE n \in S : \A m \in S : n <= m
Take == Smallest({Len(queued), FeedChunk, Window - Unconsumed - 4})

FeedWindow ==
    /\ stage = "feed"
    /\ \/ /\ Unconsumed < Period + Margin /\ Take > 0
          /\ Feed(SubSeq(queued, 1, Take))
          /\ queued' = SubSeq(queued, Take + 1, Len(queued))
          /\ playedSrc' = playedSrc + Take
          /\ UNCHANGED stage
       \/ /\ Unconsumed >= Period + Margin \/ Take <= 0
          /\ stage' = "servo"
          /\ UNCHANGED <<win, ri, queued, playedSrc>>
    /\ UNCHANGED <<frac, step, arrived, labelled, eofSeen, out>>

(* The servo: a gross error drops frames from the ring, above the floor, or plays
   silence, and undoes the trim; a small one moves the step, no faster than the
   slew and no further than the clamp. *)
DropCounted(d) == d

SnapBehind == \E d \in 0..Len(queued) :
    /\ d <= Len(queued) - RingFloor \/ d = 0
    /\ queued' = SubSeq(queued, d + 1, Len(queued))
    /\ playedSrc' = playedSrc + DropCounted(d)
    /\ step' = Unit

SnapAhead == step' = Unit /\ UNCHANGED <<queued, playedSrc>>

Clamp(x, bound) == IF x > bound THEN bound ELSE IF x < -bound THEN -bound ELSE x
SlewedOnly(d) == step + Clamp(d, Slew)                                \* fault
Trimmed(d) == step + Clamp(Unit + Clamp(d, StepFine) - step, Slew)

Trim == \E d \in -(StepFine + 1)..(StepFine + 1) :
    step' = Trimmed(d) /\ UNCHANGED <<queued, playedSrc>>

Servo ==
    /\ stage = "servo" /\ stage' = "output"
    /\ \/ labelled /\ (SnapBehind \/ SnapAhead \/ Trim)
       \/ ~ labelled /\ UNCHANGED <<queued, playedSrc, step>>
    /\ UNCHANGED <<win, ri, frac, arrived, labelled, eofSeen, out>>

(* rn_rsmp_pull: output frame k is interpolated k steps on, if the window reaches
   two frames beyond; then the others are not written.  The caller does not look
   at how many were. *)
At(k) == frac + k * step
Reaches(k) == ri + At(k) \div Unit + 2 < WinN
Produced == Cardinality({k \in 0..(Period - 1) : Reaches(k)})

Output ==
    /\ stage = "output"
    /\ IF Unconsumed >= Period + 3
       THEN /\ out' = [k \in 1..Period |->
                         IF Reaches(k - 1)
                         THEN win[ri + At(k - 1) \div Unit + 1] * Unit + (At(k - 1) % Unit)
                         ELSE Stale]
            /\ ri' = ri + At(Produced) \div Unit
            /\ frac' = At(Produced) % Unit
            /\ stage' = "drain"
       ELSE /\ stage' = IF eofSeen THEN "done" ELSE "drain"
            /\ out' = <<>>
            /\ UNCHANGED <<ri, frac>>
    /\ UNCHANGED <<win, step, queued, arrived, playedSrc, labelled, eofSeen>>

RsNext ==
    \/ \E k \in Reads : ReadFrames(k) \/ Reanchor(k)
    \/ ReadNothing \/ FeedWindow \/ Servo \/ Output

RsSpec == RsInit /\ [][RsNext]_rsVars
=============================================================================
