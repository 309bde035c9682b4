------------------------------ MODULE Handshake ------------------------------
(***************************************************************************)
(* How sinks come to play while a source feeds them: the loop of           *)
(* run_fanout, which paces, answers PINGs and sends chunks to whoever can  *)
(* take one, and phase 1 of run_sink_alsa, which keeps one PING in flight  *)
(* until enough PONGs have come and then waits for a chunk to anchor on.   *)
(* Sinks that are stuck stop reading, at any time and for good.            *)
(***************************************************************************)
EXTENDS Integers, Sequences, FiniteSets

CONSTANTS Sinks,
          Enough,    \* RN_LOCK_MIN_SAMPLES
          DownMax,   \* chunks a connection holds on the way to a sink
          MaxPings   \* bound: PINGs of a sink without a PONG read

VARIABLES late,      \* is the pacing target in the past (a fast feed)?
          fan,       \* the fan-out: "pace", "drain", "read" or "send"
          up, down,  \* PINGs to the source; chunks and PONGs to each sink
          waiting,   \* inflight_t1 >= 0
          pongs,     \* ce.samples
          phase      \* "lock", "anchored" or "stuck"

hsVars == <<late, fan, up, down, waiting, pongs, phase>>
linkVars == <<waiting, pongs, phase>>

HsInit ==
    /\ late \in BOOLEAN /\ fan = "pace"
    /\ up = [s \in Sinks |-> 0] /\ down = [s \in Sinks |-> <<>>]
    /\ waiting = [s \in Sinks |-> FALSE] /\ pongs = [s \in Sinks |-> 0]
    /\ phase = [s \in Sinks |-> "lock"]

Count(s, kind) == Cardinality({i \in 1..Len(down[s]) : down[s][i] = kind})

-----------------------------------------------------------------------------
(* The fan-out. *)

(* source_answer_ping, for n[s] PINGs of each sink s: a PONG is small, and fits where
   a chunk no longer does. *)
Answered(n) == /\ up' = [s \in Sinks |-> up[s] - n[s]]
               /\ down' = [s \in Sinks |-> down[s] \o [i \in 1..n[s] |-> "pong"]]

Asking == {s \in Sinks : up[s] > 0}
OneOf(s) == [r \in Sinks |-> IF r = s THEN 1 ELSE 0]

(* The pacing wait serves PINGs while the target lies ahead. *)
PaceServe == /\ fan = "pace" /\ ~ late
             /\ \E s \in Asking : Answered(OneOf(s))
             /\ UNCHANGED <<late, fan, linkVars>>

PaceOver == /\ fan = "pace" /\ fan' = "drain"
            /\ UNCHANGED <<late, up, down, linkVars>>

(* Then whatever the time every PING that has come is answered: the inner loop polls
   again after each. *)
NobodyDrained == [s \in Sinks |-> 0]                                  \* fault
Drained == up

Drain == /\ fan = "drain" /\ fan' = "read"
         /\ Answered(Drained)
         /\ UNCHANGED <<late, linkVars>>

(* A chunk comes from the FIFO, early or late. *)
ReadChunk == /\ fan = "read" /\ fan' = "send"
             /\ late' \in BOOLEAN
             /\ UNCHANGED <<up, down, linkVars>>

(* It goes to the sinks that can take it now; the others miss it. *)
Writable == {s \in Sinks : Count(s, "chunk") < DownMax}
Served == Writable

SendChunk == /\ fan = "send"
             /\ down' = [s \in Sinks |-> IF s \in Served THEN Append(down[s], "chunk")
                                         ELSE down[s]]
             /\ fan' = "pace"
             /\ UNCHANGED <<late, up, linkVars>>

FanoutLoop == PaceOver \/ Drain \/ ReadChunk \/ SendChunk

-----------------------------------------------------------------------------
(* A sink. *)

(* A PING when none is in flight, or the one in flight is given up on. *)
Ping(s) == /\ phase[s] = "lock" /\ up[s] + Count(s, "pong") < MaxPings
           /\ waiting' = [waiting EXCEPT ![s] = TRUE]
           /\ up' = [up EXCEPT ![s] = @ + 1]
           /\ UNCHANGED <<late, fan, down, pongs, phase>>

PingDue(s) == ~ waiting[s] /\ Ping(s)
PingAgain(s) == waiting[s] /\ Ping(s)

(* A message: a PONG counts, a chunk anchors once there are enough. *)
Read(s) == /\ phase[s] # "stuck" /\ down[s] # <<>>
           /\ down' = [down EXCEPT ![s] = Tail(@)]
           /\ \/ /\ Head(down[s]) = "pong"
                 /\ pongs' = [pongs EXCEPT ![s] = IF @ < Enough THEN @ + 1 ELSE @]
                 /\ waiting' = [waiting EXCEPT ![s] = FALSE]
                 /\ UNCHANGED phase
              \/ /\ Head(down[s]) = "chunk"
                 /\ phase' = IF pongs[s] = Enough THEN [phase EXCEPT ![s] = "anchored"]
                                                  ELSE phase
                 /\ UNCHANGED <<pongs, waiting>>
           /\ UNCHANGED <<late, fan, up>>

Sticks(s) == /\ phase[s] # "stuck"
             /\ phase' = [phase EXCEPT ![s] = "stuck"]
             /\ UNCHANGED <<late, fan, up, down, waiting, pongs>>

HsNext == \/ PaceServe \/ FanoutLoop
          \/ \E s \in Sinks : PingDue(s) \/ PingAgain(s) \/ Read(s) \/ Sticks(s)

HsSpec ==
    /\ HsInit /\ [][HsNext]_hsVars
    /\ WF_hsVars(FanoutLoop)
    /\ \A s \in Sinks : WF_hsVars(PingDue(s)) /\ WF_hsVars(Read(s))

(* Whatever the feed does and whoever gets stuck, a sink that goes on reading
   comes to anchor: its PINGs are answered even while the source never waits. *)
Starts == \A s \in Sinks : []<>(phase[s] \in {"anchored", "stuck"})
=============================================================================
