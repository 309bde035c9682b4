------------------------------ MODULE MCStreams ------------------------------
(***************************************************************************)
(* What happens to audio between one source and one sink, part by part:    *)
(* the parts share nothing but messages and frames, which each of them     *)
(* abstracts in its own way.  A behaviour is one of a single part; the     *)
(* others stay where they start.                                           *)
(***************************************************************************)
EXTENDS ClockSync, PcmRing

CONSTANTS Streams,      \* which of the parts
          Degrade, Recover, Mode,
          NetMax, RingMax, Buffer, Floor, MaxStep, MaxTrack, MaxEpoch,
          ChunkFrames, FrameBytes, HeaderLen, FixedLen, PongLen, Slack, SockMax, MaxSent, MaxIndex,
          RsPeriod, Margin, Window, FeedChunk, Unit, StepFine, Slew, RingFloor, RingCap,
          Reads, MaxFrames,
          Sinks, Enough, DownMax, MaxPings,
          Base, One, Peak, Deadband, MaxStepAt,
          PaceChunk, Second, Rate, Width, Uptime, MaxClock, MaxSamples,
          SdPeriod, SdTarget, SdDeadband, SdMaxStep, SdFloor, SdPause, SdDacMax, SdRingMax,
          SdJitter, SdSkews

VARIABLES stream,
          ema, cleanChunks, codec,
          track, epoch, closed, net, doing, ring, rxNext, rxEpoch, anchored, anchorEpoch,
          reanchor, played, havePlayed, eof, clean,
          fanned, wireTrack, missed, sentN, out, sock, gone, stage, msg, buf, rxNextSrc, received, ended,
          win, ri, frac, step, queued, arrived, playedSrc, labelled, rsStage, eofSeen, rsOut,
          late, fan, up, down, waiting, hsPongs, phase,
          clock, paceStart, sent, isFifo, at, since,
          lag, skew, flight, depth, queue, playing, place, toWrite, silence, sinceCorr,
          fresh, calm, drifted

Cod == INSTANCE Codec WITH clean <- cleanChunks
Play == INSTANCE MCPlayout WITH pc <- doing
Wire == INSTANCE Wire WITH track <- wireTrack
Rs == INSTANCE Resampler WITH Period <- RsPeriod, stage <- rsStage, out <- rsOut
Hs == INSTANCE Handshake WITH pongs <- hsPongs
Num == INSTANCE Numbers
Pace == INSTANCE Pacing WITH ChunkFrames <- PaceChunk, samples <- sent
Sched == INSTANCE Schedule WITH
    Period <- SdPeriod, Target <- SdTarget, Deadband <- SdDeadband, MaxStep <- SdMaxStep,
    Floor <- SdFloor, Pause <- SdPause, DacMax <- SdDacMax, RingMax <- SdRingMax,
    Jitter <- SdJitter, Skews <- SdSkews, since <- sinceCorr

(* What the parts need of their sizes.  The codec's thresholds are those of the code,
   200 and 600, or slower ones: in 112 chunks without a skip the average decays so far
   that the next skip alone does not bring it to 200. *)
WireAssumption ==
    /\ ChunkFrames \in Nat \ {0} /\ FrameBytes \in Nat \ {0} /\ HeaderLen \in Nat \ {0}
    /\ FixedLen \in Nat \ {0} /\ PongLen \in Nat \ {0} /\ Slack \in Nat
    /\ SockMax \in Nat /\ MaxSent \in Nat /\ MaxIndex \in Nat
RsAssumption ==
    /\ RsPeriod \in Nat \ {0} /\ Margin \in Nat /\ Window \in Nat \ {0} /\ FeedChunk \in Nat
    /\ Unit \in Nat \ {0} /\ StepFine \in Nat /\ StepFine < Unit /\ Slew \in Nat
    /\ RingFloor \in Nat \ {0} /\ RingCap \in Nat \ {0}
    /\ Reads \subseteq Nat /\ MaxFrames \in Nat
PaceAssumption ==
    /\ PaceChunk \in Nat /\ Second \in Nat /\ Rate \in Nat \ {0} /\ Width \in Nat \ {0}
    /\ Uptime \in Nat \ {0} /\ MaxSamples \in Nat /\ MaxClock \in Nat /\ Uptime <= MaxClock
CodecThresholds == Mode = "adaptive" /\ Degrade >= 200 /\ Recover >= 112
HsAssumption == Enough \in Nat /\ MaxPings \in Nat
SchedAssumption ==
    /\ SdPeriod \in Nat /\ SdTarget \in Nat /\ SdDeadband \in Nat /\ SdMaxStep \in Nat
    /\ SdFloor \in Nat /\ SdPause \in Nat /\ SdDacMax \in Nat /\ SdRingMax \in Nat
    /\ SdJitter \in Nat /\ SdSkews \subseteq Int
    /\ \A s \in SdSkews : SdPeriod + s <= SdTarget + SdDacMax

(* Chunks, periods and the ring itself are whole frames. *)
FramesAssumption ==
    /\ FrameBytes \in Nat \ {0} /\ RingBytes % FrameBytes = 0
    /\ \A p \in Chunks : Len(p) % FrameBytes = 0
    /\ \A n \in Amounts : n % FrameBytes = 0

ASSUME StreamsAssumption ==
    /\ Cod!CodecAssumption /\ Play!PlayoutAssumption
    /\ WireAssumption /\ RsAssumption /\ PaceAssumption /\ CodecThresholds
    /\ Num!NumbersAssumption /\ HsAssumption /\ SchedAssumption /\ FramesAssumption

MCOffset == -3     \* odd and negative: rounding shows
MCChunks == {<<1, 2>>, <<3, 4, 5, 6>>}

clockState == <<now, lastPing, inflight, pings, server, pongs, have, locked, samples,
                theta, bestRtt, pc>>
ringState == <<rbuf, rhead, rcount, took>>
codecState == <<ema, cleanChunks, codec>>
playState == <<track, epoch, closed, net, doing, ring, rxNext, rxEpoch, anchored,
               anchorEpoch, reanchor, played, havePlayed, eof, clean>>
wireState == <<fanned, wireTrack, missed, sentN, out, sock, gone, stage, msg, buf, rxNextSrc,
               received, ended>>
rsState == <<win, ri, frac, step, queued, arrived, playedSrc, labelled, rsStage, eofSeen,
             rsOut>>
hsState == <<late, fan, up, down, waiting, hsPongs, phase>>
paceState == <<clock, paceStart, sent, isFifo, at, since>>
schedState == <<lag, skew, flight, depth, queue, playing, place, toWrite, silence,
                sinceCorr, fresh, calm, drifted>>

allVars == <<stream, clockState, ringState, codecState, playState, wireState, rsState,
             hsState, paceState, schedState>>

(* One memory stands for all that the ring may start from, and a part that does
   not run starts in one state. *)
StreamsInit ==
    /\ stream \in Streams
    /\ rbuf = [k \in 0..(RingBytes - 1) |-> 1]
    /\ Init /\ RingInit /\ Cod!Init /\ Play!Init /\ Wire!WireInit /\ Rs!RsInit
    /\ Hs!HsInit /\ Pace!PaceInit /\ Sched!SchedInit
    /\ stream # "handshake" => late
    /\ stream # "wire" => wireTrack = 0 /\ ~fanned
    /\ stream # "pacing" => isFifo
    /\ stream # "schedule" => depth = 0

ClockStep == stream = "clock" /\ Next /\ UNCHANGED
    <<stream, ringState, codecState, playState, wireState, rsState, hsState,
     paceState, schedState>>
RingStep == stream = "ring" /\ RingNext /\ UNCHANGED
    <<stream, clockState, codecState, playState, wireState, rsState, hsState, paceState,
     schedState>>
CodecStep == stream = "codec" /\ Cod!Next /\ UNCHANGED
    <<stream, clockState, ringState, playState, wireState, rsState, hsState, paceState,
     schedState>>
PlayStep == stream = "playout" /\ Play!Next /\ UNCHANGED
    <<stream, clockState, ringState, codecState, wireState, rsState, hsState, paceState,
     schedState>>
WireStep == stream = "wire" /\ Wire!WireNext /\ UNCHANGED
    <<stream, clockState, ringState, codecState, playState, rsState, hsState, paceState,
     schedState>>
RsStep == stream = "resampler" /\ Rs!RsNext /\ UNCHANGED
    <<stream, clockState, ringState, codecState, playState, wireState, hsState, paceState,
     schedState>>
HsStep == stream = "handshake" /\ Hs!HsNext /\ UNCHANGED
    <<stream, clockState, ringState, codecState, playState, wireState, rsState, paceState,
     schedState>>
PaceStep == stream = "pacing" /\ Pace!PaceNext /\ UNCHANGED
    <<stream, clockState, ringState, codecState, playState, wireState, rsState, hsState,
     schedState>>
SchedStep == stream = "schedule" /\ Sched!SchedNext /\ UNCHANGED
    <<stream, clockState, ringState, codecState, playState, wireState, rsState, hsState,
      paceState>>

StreamsNext == ClockStep \/ RingStep \/ CodecStep \/ PlayStep \/ WireStep \/ RsStep
               \/ HsStep \/ PaceStep \/ SchedStep

(* The fairness of each part, while it is the one that runs. *)
Runs(part, action) == stream = part /\ action

StreamsSpec ==
    /\ StreamsInit /\ [][StreamsNext]_allVars
    /\ WF_playState(Runs("playout", Play!Prebuffer))
    /\ WF_playState(Runs("playout", Play!StartPlayout))
    /\ WF_playState(Runs("playout", Play!ClosedEarly))
    /\ WF_playState(Runs("playout", Play!Drain))
    /\ WF_playState(Runs("playout", Play!Drained))
    /\ WF_playState(Runs("playout", Play!Period))
    /\ WF_wireState(Runs("wire", Wire!Player))
    /\ WF_hsState(Runs("handshake", Hs!FanoutLoop))
    /\ \A s \in Sinks : /\ WF_hsState(Runs("handshake", Hs!PingDue(s)))
                        /\ WF_hsState(Runs("handshake", Hs!Read(s)))
    /\ WF_schedState(Runs("schedule", Sched!SinkReads))
    /\ WF_schedState(Runs("schedule", Sched!SinkRuns))
    /\ WF_schedState(Runs("schedule", Sched!TimePasses))

-----------------------------------------------------------------------------
(* Pushed and popped in whole frames, the ring never gets out of step with them,
   also where it wraps: half a frame off would be noise until the next anchor. *)
Aligned == rhead % FrameBytes = 0 /\ rcount % FrameBytes = 0

(* Every variable is in its range: no index, count or buffer leaves it, the
   payload a player accepts fits its buffer, the resampler reads inside its
   window, and the ring stays in step with the frames. *)
AllTypeOK ==
    /\ Aligned
    /\ TypeOK /\ RingTypeOK /\ Cod!TypeOK /\ Play!TypeOK
    /\ Len(sock) <= SockMax /\ Len(buf) <= Wire!Need
    /\ Len(win) <= Window /\ ri \in 1..Window /\ frac \in 0..(Unit - 1)
    /\ step \in (Unit - StepFine)..(Unit + StepFine)
    /\ late \in BOOLEAN /\ up \in [Sinks -> 0..MaxPings]
    /\ hsPongs \in [Sinks -> 0..Enough]
    /\ sent \in 0..MaxSamples /\ clock \in Uptime..MaxClock

(* The group does not flap between codecs: "A lone skip must NOT flip (no flap)",
   and back to raw only after a whole window without a skip: see Codec. *)
NoFlapping == Cod!NeverOnALoneSkip /\ Cod!RecoversSlowly

(* However TCP splits and delays the bytes, and wherever the source's process dies
   or the connection is reset, the player takes a prefix of the messages sent, each
   of them whole, and its stream ends as clean only if the source closed it. *)
Promised == Wire!Promise!ChanSpec

(* The index the player counts on to, from frames decoded or bytes received, is short
   of the index in the next chunk by the frames it was not sent before that chunk, to
   the frame: what went before a member joined its fan-out, and what the fan-out
   skipped.  A standalone source's peer misses nothing. *)
Contiguous ==
    [][received' # received /\ received'.kind = "audio" =>
           /\ received'.track = rxNextSrc + received'.missed
           /\ received'.missed > 0 => fanned]_wireState

(* A player whose source is gone comes to the end of the stream, and a playout
   whose stream has ended plays its ring out and exits: the room can be joined
   again. *)
Ends == Play!Finishes /\ (gone # "no" ~> ended # "open")

(* Whatever the feed does and whoever gets stuck, a sink that goes on reading
   comes to anchor: its PINGs are answered even while the source never waits. *)
Starts == stream = "handshake" => Hs!Starts

-----------------------------------------------------------------------------
(* The frames still to be played: what is left in the window, then the ring. *)
Upcoming == SubSeq(win, ri + 1, Len(win)) \o queued
NoSplice == \A i \in 1..(Len(Upcoming) - 1) : Upcoming[i + 1] = Upcoming[i] + 1
Position == win[ri + 1] * Unit + frac

(* The resampler's label is the source index of the head of the ring, whatever the
   window holds, provided the servo's last snap has been played. *)
LabelHonest ==
    labelled /\ Rs!Unconsumed > 0 /\ NoSplice => win[ri + 1] = playedSrc - Rs!Unconsumed

(* While nothing is lost, the label either servo steers by is the source index of
   the frame at the head of the ring: see MCPlayout. *)
LabelTrue == Play!LabelTrue /\ LabelHonest

(* The sound is continuous: every period starts where the one before it ended, to
   a fraction of a frame, through feeding and compacting of the window and a step
   that moves; only a re-anchor and the servo's snap make a seam. *)
Seamless ==
    [][/\ NoSplice /\ rsStage \notin {"drain", "servo"} => NoSplice'
       /\ Rs!Unconsumed > 0 /\ NoSplice =>
            \/ Position' = Position /\ rsOut' \in {rsOut, <<>>}
            \/ /\ \A k \in 1..RsPeriod : rsOut'[k] \in {Position + (k - 1) * step, Rs!Stale}
               /\ Position' = Position + Rs!Produced * step]_rsState

(* "the ALSA caller checks the return count and never emits a partial period from
   stale samples". *)
FullPeriods == \A k \in 1..Len(rsOut) : rsOut[k] # Rs!Stale

-----------------------------------------------------------------------------
(* Integers and headers are read as they were written, and another magic or version
   is no header; samples keep their values and their order on hosts of both byte
   orders; the interpolation has no jump at a frame and leaves a straight line
   straight; one decision of the drift controller brings the error back into the
   deadband: see Numbers. *)
Arithmetic == stream = "numbers" =>
    Num!WireKept /\ Num!SamplesKept /\ Num!Smooth /\ Num!Steady

(* The source waits no longer for a chunk than a chunk lasts, and does not send
   ahead of real time: see Pacing. *)
Paced == Pace!NoStall /\ Pace!NoBurst

(* Once host and network are calm, the room gets onto the schedule and stays there,
   whatever it has been through: see Schedule. *)
InSync == stream = "schedule" => Sched!InSync
=============================================================================
