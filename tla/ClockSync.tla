------------------------------ MODULE ClockSync ------------------------------
(***************************************************************************)
(* The clock lock of a sink: phase 1 of run_sink_alsa sends PINGs, the     *)
(* source answers them when its loop gets to it (source_answer_ping), and  *)
(* the estimator keeps the sample of the least round trip until the        *)
(* playout is anchored.  The two clocks differ by a constant Offset;       *)
(* messages travel in order and take any time.  Times are clock ticks.     *)
(***************************************************************************)
EXTENDS Integers, Sequences

CONSTANTS
    Offset,       \* source clock - sink clock
    LockSamples,  \* RN_LOCK_MIN_SAMPLES
    LockPing,     \* RN_LOCK_PING_NS
    PingTimeout,  \* RN_PING_TIMEOUT_NS
    MaxTime       \* bound on the sink's clock

ASSUME ClockAssumption ==
    /\ Offset \in Int /\ LockSamples \in Nat
    /\ LockPing \in Nat /\ PingTimeout \in Nat /\ MaxTime \in Nat

VARIABLES
    now,       \* the sink's clock
    lastPing,  \* last_ping
    inflight,  \* inflight_t1, or -1
    pings,     \* PINGs on their way: t1
    server,    \* <<>>, or the PING being answered: <<[t1, rx]>>
    pongs,     \* PONGs on their way: [t1, rx, tx]
    have, locked, samples, theta, bestRtt,   \* struct clock_est
    pc         \* where the loop is: "ping" or "read"

est == <<have, locked, samples, theta, bestRtt>>
vars == <<now, lastPing, inflight, pings, server, pongs, est, pc>>

Init ==
    /\ now = LockPing /\ lastPing = 0 /\ inflight = -1
    /\ pings = <<>> /\ server = <<>> /\ pongs = <<>>
    /\ have = FALSE /\ locked = FALSE /\ samples = 0 /\ theta = 0 /\ bestRtt = 0
    /\ pc = "ping"

Tick ==
    /\ now < MaxTime
    /\ now' = now + 1
    /\ UNCHANGED <<lastPing, inflight, pings, server, pongs, est, pc>>

-----------------------------------------------------------------------------
(* The sink. *)

(* A ping unanswered for too long counts as lost; one is sent if none is in
   flight and the last was a while ago. *)
Ping ==
    /\ pc = "ping" /\ pc' = "read"
    /\ LET lost    == inflight >= 0 /\ now - lastPing >= PingTimeout
           waiting == inflight >= 0 /\ ~ lost
       IN  IF ~ waiting /\ now - lastPing >= LockPing
           THEN /\ inflight' = now /\ lastPing' = now
                /\ pings' = Append(pings, now)
           ELSE /\ inflight' = IF waiting THEN inflight ELSE -1
                /\ UNCHANGED <<lastPing, pings>>
    /\ UNCHANGED <<now, server, pongs, est>>

(* x / 2 in C rounds towards zero. *)
Half(x) == IF x >= 0 THEN x \div 2 ELSE -((-x) \div 2)

(* The round trip of a ping less the time the source sat on it. *)
RoundTrip(p) == (now - p.t1) - (p.tx - p.rx)

OneWay(p) == p.rx - p.t1                                    \* fault: way back ignored
Estimate(p) == Half((p.rx - p.t1) + (p.tx - now))

BetterAnyTime(p) == ~ have \/ RoundTrip(p) < bestRtt         \* fault: lock not heeded
Better(p) == ~ locked /\ (~ have \/ RoundTrip(p) < bestRtt)

(* sink_handle_pong: whichever ping it answers, none is in flight any more. *)
HandlePong(p) ==
    /\ inflight' = -1
    /\ samples' = IF locked THEN samples ELSE samples + 1
    /\ \/ Better(p) /\ have' = TRUE /\ bestRtt' = RoundTrip(p) /\ theta' = Estimate(p)
       \/ ~ Better(p) /\ UNCHANGED <<have, bestRtt, theta>>
    /\ UNCHANGED locked

ReadPong ==
    /\ pc = "read" /\ pongs # <<>>
    /\ HandlePong(Head(pongs))
    /\ pongs' = Tail(pongs)
    /\ pc' = "ping"
    /\ UNCHANGED <<now, lastPing, pings, server>>

(* A chunk: the playout is anchored and the offset frozen, if it can be. *)
ReadAudio ==
    /\ pc = "read"
    /\ locked' = (locked \/ (have /\ samples >= LockSamples))
    /\ pc' = "ping"
    /\ UNCHANGED <<now, lastPing, inflight, pings, server, pongs,
                   have, samples, theta, bestRtt>>

(* poll times out, 20 ms *)
NothingToRead ==
    /\ pc = "read" /\ pongs = <<>> /\ pc' = "ping"
    /\ UNCHANGED <<now, lastPing, inflight, pings, server, pongs, est>>

-----------------------------------------------------------------------------
(* The source. *)

ServerReads ==
    /\ server = <<>> /\ pings # <<>>
    /\ server' = <<[t1 |-> Head(pings), rx |-> now + Offset]>>
    /\ pings' = Tail(pings)
    /\ UNCHANGED <<now, lastPing, inflight, pongs, est, pc>>

ServerReplies ==
    /\ server # <<>>
    /\ pongs' = Append(pongs, [t1 |-> server[1].t1, rx |-> server[1].rx,
                               tx |-> now + Offset])
    /\ server' = <<>>
    /\ UNCHANGED <<now, lastPing, inflight, pings, est, pc>>

Next ==
    \/ Tick \/ Ping \/ ReadPong \/ ReadAudio \/ NothingToRead
    \/ ServerReads \/ ServerReplies

Spec == Init /\ [][Next]_vars

-----------------------------------------------------------------------------
Served == [t1 : Nat, rx : Int]
Pong == [t1 : Nat, rx : Int, tx : Int]

TypeOK ==
    /\ now \in Nat /\ lastPing \in Nat /\ inflight \in Nat \cup {-1}
    /\ pings \in Seq(Nat)
    /\ server \in Seq(Served) /\ Len(server) <= 1
    /\ pongs \in Seq(Pong)
    /\ have \in BOOLEAN /\ locked \in BOOLEAN /\ samples \in Nat
    /\ theta \in Int /\ bestRtt \in Nat
    /\ pc \in {"ping", "read"}

(* However late the pings are answered and the answers read, and whichever of
   several outstanding pings an answer belongs to, the offset a sink locks is
   off by no more than half the least round trip it saw, and rounding. *)
OffsetBound ==
    have => /\ 2 * (theta - Offset) <= bestRtt + 1
            /\ 2 * (Offset - theta) <= bestRtt + 1

(* The anchor's schedule is computed from theta once: from then on no late
   answer moves it, and it rests on enough samples. *)
Frozen ==
    [][/\ locked => UNCHANGED <<theta, bestRtt, locked>>
       /\ locked' => have' /\ samples' >= LockSamples]_vars
=============================================================================
