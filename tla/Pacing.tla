------------------------------- MODULE Pacing -------------------------------
(***************************************************************************)
(* How a source keeps to real time: run_fanout, and run_source for a file, *)
(* wait before each chunk until the clock reaches pace_start plus the time *)
(* of all samples sent; the pipe's writer may be slow, hurried or gone,    *)
(* and when it comes back pace_start is computed anew.                     *)
(***************************************************************************)
EXTENDS Integers

CONSTANTS ChunkFrames, \* RN_CHUNK_FRAMES
          Second,      \* 1000000000
          Rate,        \* RN_RATE
          Width,       \* 2^64
          Uptime,      \* the clock when the source starts, CLOCK_MONOTONIC
          MaxClock,    \* bound on the clock
          MaxSamples   \* bound on the samples sent

VARIABLES clock,       \* real_now_ns()
          paceStart,   \* pace_start, 0 before the first chunk
          samples,     \* track_samples
          isFifo,      \* src_is_fifo
          at,          \* "pace", "read", "reopen" or "done"
          since        \* history: clock and samples when pace_start was set

paceVars == <<clock, paceStart, samples, isFifo, at, since>>

PaceInit ==
    /\ clock = Uptime /\ paceStart = 0 /\ samples = 0 /\ isFifo \in BOOLEAN
    /\ at = "pace" /\ since = <<Uptime, 0>>

(* track_samples * 1000000000ull / RN_RATE *)
Nanos(n) == ((n * Second) % Width) \div Rate

Target == (IF paceStart = 0 THEN clock ELSE paceStart) + Nanos(samples)

ClockTicks == /\ clock < MaxClock /\ clock' = clock + 1
              /\ UNCHANGED <<paceStart, samples, isFifo, at, since>>

(* The first chunk is due at once; the others when the clock reaches them. *)
DueNow == clock >= Target

BeginChunk ==
    /\ at = "pace" /\ DueNow /\ at' = "read"
    /\ paceStart' = IF paceStart = 0 THEN clock ELSE paceStart
    /\ since' = IF paceStart = 0 THEN <<clock, samples>> ELSE since
    /\ UNCHANGED <<clock, samples, isFifo>>

(* A whole chunk, or what came before the writer closed the pipe. *)
ReadAndSend(n) ==
    /\ at = "read" /\ samples + n <= MaxSamples
    /\ samples' = samples + n
    /\ at' = IF n = ChunkFrames THEN "pace" ELSE IF isFifo THEN "reopen" ELSE "done"
    /\ UNCHANGED <<clock, paceStart, isFifo, since>>

(* open() returns when there is a writer again. *)
NotAgain == paceStart                                                 \* fault
StartAgain == clock - Nanos(samples)

Reopens ==
    /\ at = "reopen" /\ at' = "pace"
    /\ paceStart' = StartAgain
    /\ since' = <<clock, samples>>
    /\ UNCHANGED <<clock, samples, isFifo>>

(* run_source: the one player has gone. *)
PlayerGone == /\ at = "pace" /\ ~isFifo /\ at' = "done"
              /\ UNCHANGED <<clock, paceStart, samples, isFifo, since>>

PaceNext == \/ ClockTicks \/ BeginChunk \/ Reopens \/ PlayerGone
            \/ \E n \in 0..ChunkFrames : ReadAndSend(n)

-----------------------------------------------------------------------------
ChunkNanos == (ChunkFrames * Second) \div Rate + 1

(* The source never goes silent of itself: it waits for a chunk no longer than a
   chunk lasts, after any number of gaps, and of any length. *)
NoStall == at = "pace" => Target - clock <= ChunkNanos

(* Nor does it send ahead of real time: since the last gap, no more than has been
   played and one chunk, as long as the product of track_samples and 10^9 is
   within its 64 bits (116 hours). *)
NoBurst ==
    samples * Second < Width =>
        Nanos(samples) - Nanos(since[2]) <= clock - since[1] + ChunkNanos
=============================================================================
