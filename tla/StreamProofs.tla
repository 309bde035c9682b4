---------------------------- MODULE StreamProofs ----------------------------
(***************************************************************************)
(* What happens to audio between a source and a sink, for sizes, clocks    *)
(* and thresholds of any value: the clock lock, the codec, the jitter      *)
(* buffer, the pacing, the two playouts with their labels, the resampler's *)
(* continuity, the ranges of all the parts (the wire is in WireProofs),    *)
(* the handshake and the schedule servo.  Each part has an inductive       *)
(* invariant of its own, kept by the steps of the part and untouched by    *)
(* the others'.                                                            *)
(***************************************************************************)
EXTENDS WireProofs, FiniteSetTheorems

(* A step of the whole is one of a part, or leaves the part alone. *)
LEMMA StepOfCodec == [StreamsNext]_allVars => Cod!Next \/ UNCHANGED codecState
BY DEF StreamsNext, allVars, ClockStep, RingStep, CodecStep, PlayStep, WireStep, RsStep,
       HsStep, PaceStep, SchedStep
LEMMA StepOfRing == [StreamsNext]_allVars => RingNext \/ UNCHANGED ringState
BY DEF StreamsNext, allVars, ClockStep, RingStep, CodecStep, PlayStep, WireStep, RsStep,
       HsStep, PaceStep, SchedStep
LEMMA StepOfResampler == [StreamsNext]_allVars => Rs!RsNext \/ UNCHANGED rsState
BY DEF StreamsNext, allVars, ClockStep, RingStep, CodecStep, PlayStep, WireStep, RsStep,
       HsStep, PaceStep, SchedStep
LEMMA StepOfPacing == [StreamsNext]_allVars => Pace!PaceNext \/ UNCHANGED paceState
BY DEF StreamsNext, allVars, ClockStep, RingStep, CodecStep, PlayStep, WireStep, RsStep,
       HsStep, PaceStep, SchedStep

-----------------------------------------------------------------------------
(* The clock lock. *)

(* The timestamps of a message on its way are in the order its journey took
   them: sent by t1, read by rx, answered by tx, not after now. *)
ServerInOrder == \A i \in 1..Len(server) : server[i].t1 + Offset <= server[i].rx
                                       /\ server[i].rx <= now + Offset
PongsInOrder == \A i \in 1..Len(pongs) : /\ pongs[i].t1 + Offset <= pongs[i].rx
                                        /\ pongs[i].rx <= pongs[i].tx
                                        /\ pongs[i].tx <= now + Offset
PingsInOrder == \A i \in 1..Len(pings) : pings[i] <= now

InOrder == PingsInOrder /\ ServerInOrder /\ PongsInOrder

(* A lock rests on enough samples, and a sample on an estimate. *)
LockEarned == locked => have /\ samples >= LockSamples

ClockInv == TypeOK /\ InOrder /\ OffsetBound /\ LockEarned

(* Halving in C is off by half a unit at most. *)
LEMMA HalfBound == ASSUME NEW x \in Int
                   PROVE  Half(x) \in Int /\ 2 * Half(x) <= x + 1 /\ x <= 2 * Half(x) + 1
BY DEF Half

(* One sample: the offset it yields is off by half its round trip at most. *)
LEMMA SampleBound ==
    ASSUME NEW t1 \in Int, NEW rx \in Int, NEW tx \in Int, NEW t4 \in Int, NEW o \in Int,
           t1 + o <= rx, rx <= tx, tx <= t4 + o
    PROVE  LET rtt == (t4 - t1) - (tx - rx)
               est1 == Half((rx - t1) + (tx - t4))
           IN  /\ rtt \in Nat /\ est1 \in Int
               /\ 2 * (est1 - o) <= rtt + 1
               /\ 2 * (o - est1) <= rtt + 1
<1> DEFINE x == (rx - t1) + (tx - t4)
           h == Half(x)
<1>1. x \in Int
  OBVIOUS
<1>2. h \in Int /\ 2 * h <= x + 1 /\ x <= 2 * h + 1
  BY <1>1, HalfBound
<1> HIDE DEF h
<1>3. /\ 2 * (h - o) <= ((t4 - t1) - (tx - rx)) + 1
      /\ 2 * (o - h) <= ((t4 - t1) - (tx - rx)) + 1
      /\ (t4 - t1) - (tx - rx) \in Nat
  BY <1>2
<1> QED
  BY <1>2, <1>3 DEF h

LEMMA ClockInitInv == Init => ClockInv
<1> SUFFICES ASSUME Init PROVE ClockInv
  OBVIOUS
<1>1. /\ pings \in Seq(Nat) /\ Len(pings) = 0
      /\ server \in Seq(Served) /\ Len(server) = 0
      /\ pongs \in Seq(Pong) /\ Len(pongs) = 0
  <2>1. /\ <<>> \in Seq(Nat) /\ <<>> \in Seq(Served) /\ <<>> \in Seq(Pong)
        /\ Len(<<>>) = 0
    OBVIOUS
  <2>2. pings = <<>> /\ server = <<>> /\ pongs = <<>>
    BY DEF Init
  <2> QED
    BY <2>1, <2>2
<1>2. TypeOK
  <2>1. /\ now \in Nat /\ lastPing \in Nat /\ inflight = -1 /\ pc = "ping"
        /\ have = FALSE /\ locked = FALSE /\ samples = 0 /\ theta = 0 /\ bestRtt = 0
    BY ClockAssumption DEF Init
  <2>2. Len(server) <= 1 /\ inflight \in Nat \cup {-1}
    BY <1>1, <2>1
  <2>3. pc \in {"ping", "read"} /\ have \in BOOLEAN /\ locked \in BOOLEAN
    BY <2>1
  <2>4. samples \in Nat /\ theta \in Int /\ bestRtt \in Nat
    BY <2>1
  <2> QED
    BY <1>1, <2>1, <2>2, <2>3, <2>4, Zenon DEF TypeOK
<1>3. InOrder
  BY <1>1 DEF InOrder, PingsInOrder, ServerInOrder, PongsInOrder
<1> QED
  BY <1>2, <1>3 DEF Init, ClockInv, OffsetBound, LockEarned

LEMMA PingStep == ClockInv /\ Ping => ClockInv'
<1> SUFFICES ASSUME ClockInv, Ping PROVE ClockInv'
  OBVIOUS
<1>1. /\ now \in Nat /\ lastPing \in Nat /\ inflight \in Nat \cup {-1}
      /\ pings \in Seq(Nat) /\ Len(pings) \in Nat
  BY LenProperties DEF ClockInv, TypeOK
<1>2. pings' = pings \/ pings' = Append(pings, now)
  BY DEF Ping
<1>3. /\ inflight' \in Nat \cup {-1} /\ lastPing' \in Nat /\ pc' \in {"ping", "read"}
      /\ UNCHANGED <<now, server, pongs, est>>
  BY <1>1 DEF Ping
<1>4. pings' \in Seq(Nat) /\ PingsInOrder'
  <2>1. CASE pings' = pings
    BY <1>3, <2>1 DEF ClockInv, TypeOK, InOrder, PingsInOrder
  <2>2. CASE pings' = Append(pings, now)
    <3>1. /\ pings' \in Seq(Nat) /\ Len(pings') = Len(pings) + 1
          /\ \A i \in 1..Len(pings) : pings'[i] = pings[i]
          /\ pings'[Len(pings) + 1] = now
      BY <1>1, <2>2, AppendProperties
    <3> QED
      BY <1>1, <1>3, <3>1, SMTT(30) DEF ClockInv, InOrder, PingsInOrder
  <2> QED
    BY <1>2, <2>1, <2>2
<1>5. TypeOK'
  BY <1>1, <1>3, <1>4 DEF ClockInv, TypeOK, est
<1>6. ServerInOrder' /\ PongsInOrder' /\ OffsetBound' /\ LockEarned'
  BY <1>3 DEF ClockInv, InOrder, ServerInOrder, PongsInOrder, OffsetBound, LockEarned, est
<1> QED
  BY <1>4, <1>5, <1>6 DEF ClockInv, InOrder

(* The step that makes the estimate: SampleBound for the answer just read. *)
LEMMA ReadPongStep == ClockInv /\ ReadPong => ClockInv'
<1> SUFFICES ASSUME ClockInv, ReadPong PROVE ClockInv'
  OBVIOUS
<1> DEFINE p == Head(pongs)
           rtt == RoundTrip(p)
           sample == Estimate(p)
<1>0. /\ p \in Pong /\ p = pongs[1] /\ Len(pongs) \in Nat \ {0}
      /\ Tail(pongs) \in Seq(Pong)
      /\ Len(Tail(pongs)) = Len(pongs) - 1
      /\ \A i \in 1..Len(Tail(pongs)) : Tail(pongs)[i] = pongs[i + 1]
  BY HeadTailProperties, EmptySeq DEF ClockInv, TypeOK, ReadPong
<1>1. p.t1 + Offset <= p.rx /\ p.rx <= p.tx /\ p.tx <= now + Offset
  BY <1>0 DEF ClockInv, InOrder, PongsInOrder
<1>2. /\ rtt \in Nat /\ sample \in Int
      /\ 2 * (sample - Offset) <= rtt + 1 /\ 2 * (Offset - sample) <= rtt + 1
  <2>1. p.t1 \in Int /\ p.rx \in Int /\ p.tx \in Int /\ now \in Int /\ Offset \in Int
    BY <1>0, ClockAssumption DEF ClockInv, TypeOK, Pong
  <2> QED
    BY <1>1, <2>1, SampleBound DEF RoundTrip, Estimate
<1> HIDE DEF rtt, sample
<1>3. /\ theta' \in Int /\ bestRtt' \in Nat /\ samples' \in Nat /\ have' \in BOOLEAN
      /\ samples' >= samples /\ (have => have') /\ locked' = locked
      /\ inflight' = -1 /\ OffsetBound'
  <2>1. CASE locked
    BY <2>1, ClockAssumption DEF ClockInv, TypeOK, OffsetBound, ReadPong, HandlePong, Better
  <2>2. CASE ~ locked /\ (~ have \/ rtt < bestRtt)
    <3>1. have' = TRUE /\ bestRtt' = rtt /\ theta' = sample /\ samples' = samples + 1
          /\ inflight' = -1 /\ locked' = locked
      BY <2>2 DEF ReadPong, HandlePong, Better, rtt, sample
    <3> QED
      BY <3>1, <1>2 DEF ClockInv, TypeOK, OffsetBound
  <2>3. CASE ~ locked /\ ~ (~ have \/ rtt < bestRtt)
    BY <2>3, ClockAssumption, SMTT(30) DEF ClockInv, TypeOK, OffsetBound, ReadPong, HandlePong, Better, rtt
  <2> QED
    BY <2>1, <2>2, <2>3
<1>4. TypeOK'
  BY <1>0, <1>3 DEF ClockInv, TypeOK, ReadPong
<1>5. PongsInOrder'
  <2>1. pongs' = Tail(pongs) /\ now' = now
    BY DEF ReadPong
  <2>2. \A i \in 1..Len(pongs') : i + 1 \in 1..Len(pongs) /\ pongs'[i] = pongs[i + 1]
    BY <1>0, <2>1
  <2> QED
    BY <2>1, <2>2 DEF ClockInv, InOrder, PongsInOrder
<1>6. PingsInOrder' /\ ServerInOrder'
  BY DEF ClockInv, InOrder, PingsInOrder, ServerInOrder, ReadPong
<1>7. LockEarned'
  BY <1>3, <1>4, ClockAssumption DEF ClockInv, TypeOK, LockEarned
<1> QED
  BY <1>3, <1>4, <1>5, <1>6, <1>7 DEF ClockInv, InOrder

LEMMA ServerReadsStep == ClockInv /\ ServerReads => ClockInv'
<1> SUFFICES ASSUME ClockInv, ServerReads PROVE ClockInv'
  OBVIOUS
<1> DEFINE ping == [t1 |-> Head(pings), rx |-> now + Offset]
<1>1. /\ Head(pings) \in Nat /\ Head(pings) = pings[1] /\ Len(pings) \in Nat \ {0}
      /\ Tail(pings) \in Seq(Nat) /\ Len(Tail(pings)) = Len(pings) - 1
      /\ \A i \in 1..Len(Tail(pings)) : Tail(pings)[i] = pings[i + 1]
  BY HeadTailProperties, EmptySeq DEF ClockInv, TypeOK, ServerReads
<1>2. /\ pings' = Tail(pings) /\ server' = <<ping>>
      /\ UNCHANGED <<now, lastPing, inflight, pongs, est, pc>>
  BY DEF ServerReads
<1>3. /\ ping \in Served
      /\ ping.t1 + Offset <= ping.rx /\ ping.rx <= now + Offset
  BY <1>1, ClockAssumption DEF ClockInv, TypeOK, InOrder, PingsInOrder, Served
<1> HIDE DEF ping
<1>4. server' \in Seq(Served) /\ Len(server') = 1 /\ server'[1] = ping
  BY <1>2, <1>3
<1>5. TypeOK'
  BY <1>1, <1>2, <1>4 DEF ClockInv, TypeOK, est
<1>6. PingsInOrder'
  <2>1. \A i \in 1..Len(pings') : i + 1 \in 1..Len(pings) /\ pings'[i] = pings[i + 1]
    BY <1>1, <1>2
  <2> QED
    BY <1>2, <2>1 DEF ClockInv, InOrder, PingsInOrder
<1>7. ServerInOrder'
  BY <1>2, <1>3, <1>4 DEF ServerInOrder
<1>8. PongsInOrder' /\ OffsetBound' /\ LockEarned'
  BY <1>2 DEF ClockInv, InOrder, PongsInOrder, OffsetBound, LockEarned, est
<1> QED
  BY <1>5, <1>6, <1>7, <1>8 DEF ClockInv, InOrder

LEMMA ServerRepliesStep == ClockInv /\ ServerReplies => ClockInv'
<1> SUFFICES ASSUME ClockInv, ServerReplies PROVE ClockInv'
  OBVIOUS
<1> DEFINE pong == [t1 |-> server[1].t1, rx |-> server[1].rx, tx |-> now + Offset]
<1>1. 1 \in 1..Len(server) /\ server[1] \in Served
  <2>1. Len(server) \in Nat \ {0}
    BY EmptySeq, LenProperties DEF ClockInv, TypeOK, ServerReplies
  <2> QED
    BY <2>1, ElementOfSeq DEF ClockInv, TypeOK
<1>2. /\ pong \in Pong
      /\ pong.t1 + Offset <= pong.rx /\ pong.rx <= pong.tx /\ pong.tx <= now + Offset
  BY <1>1, ClockAssumption DEF ClockInv, TypeOK, InOrder, ServerInOrder, Served, Pong
<1>3. pongs' = Append(pongs, pong) /\ server' = <<>>
      /\ UNCHANGED <<now, lastPing, inflight, pings, est, pc>>
  BY DEF ServerReplies
<1> HIDE DEF pong
<1>4. /\ pongs' \in Seq(Pong) /\ Len(pongs') = Len(pongs) + 1
      /\ \A i \in 1..Len(pongs) : pongs'[i] = pongs[i]
      /\ pongs'[Len(pongs) + 1] = pong /\ Len(pongs) \in Nat
  BY <1>2, <1>3, AppendProperties, LenProperties DEF ClockInv, TypeOK
<1>5. server' \in Seq(Served) /\ Len(server') = 0
  BY <1>3, EmptySeq
<1>6. TypeOK'
  BY <1>3, <1>4, <1>5 DEF ClockInv, TypeOK, est
<1>7. PongsInOrder'
  BY <1>2, <1>3, <1>4 DEF ClockInv, InOrder, PongsInOrder
<1>8. ServerInOrder'
  BY <1>5 DEF ServerInOrder
<1>9. PingsInOrder' /\ OffsetBound' /\ LockEarned'
  BY <1>3 DEF ClockInv, InOrder, PingsInOrder, OffsetBound, LockEarned, est
<1> QED
  BY <1>6, <1>7, <1>8, <1>9 DEF ClockInv, InOrder

LEMMA ClockNextInv == ClockInv /\ [Next]_vars => ClockInv'
<1> SUFFICES ASSUME ClockInv, [Next]_vars PROVE ClockInv'
  OBVIOUS
<1>1. CASE Tick
  <2>1. /\ now \in Nat /\ now' = now + 1 /\ Offset \in Int
        /\ UNCHANGED <<lastPing, inflight, pings, server, pongs, est, pc>>
    BY <1>1, ClockAssumption DEF Tick, ClockInv, TypeOK
  <2>2. TypeOK' /\ OffsetBound' /\ LockEarned'
    BY <2>1 DEF ClockInv, TypeOK, OffsetBound, LockEarned, est
  <2>3. PingsInOrder'
    <3>1. \A i \in 1..Len(pings) : pings[i] \in Nat
      BY ElementOfSeq DEF ClockInv, TypeOK
    <3> QED
      BY <2>1, <3>1 DEF ClockInv, InOrder, PingsInOrder
  <2>4. ServerInOrder'
    <3>1. \A i \in 1..Len(server) : server[i] \in Served
      BY ElementOfSeq DEF ClockInv, TypeOK
    <3> SUFFICES ASSUME NEW i \in 1..Len(server)
                 PROVE  /\ server[i].t1 + Offset <= server[i].rx
                        /\ server[i].rx <= now' + Offset
      BY <2>1 DEF ServerInOrder
    <3>2. /\ server[i].t1 + Offset <= server[i].rx
          /\ server[i].rx <= now + Offset
      BY DEF ClockInv, InOrder, ServerInOrder
    <3>3. server[i].rx \in Int
      BY <3>1 DEF Served
    <3> QED
      BY <2>1, <3>2, <3>3
  <2>5. PongsInOrder'
    <3>1. \A i \in 1..Len(pongs) : pongs[i] \in Pong
      BY ElementOfSeq DEF ClockInv, TypeOK
    <3> SUFFICES ASSUME NEW i \in 1..Len(pongs)
                 PROVE  /\ pongs[i].t1 + Offset <= pongs[i].rx
                        /\ pongs[i].rx <= pongs[i].tx
                        /\ pongs[i].tx <= now' + Offset
      BY <2>1 DEF PongsInOrder
    <3>2. /\ pongs[i].t1 + Offset <= pongs[i].rx
          /\ pongs[i].rx <= pongs[i].tx
          /\ pongs[i].tx <= now + Offset
      BY DEF ClockInv, InOrder, PongsInOrder
    <3>3. pongs[i].tx \in Int
      BY <3>1 DEF Pong
    <3> QED
      BY <2>1, <3>2, <3>3
  <2> QED
    BY <2>2, <2>3, <2>4, <2>5 DEF ClockInv, InOrder
<1>2. CASE Ping
  BY <1>2, PingStep
<1>3. CASE ReadPong
  BY <1>3, ReadPongStep
<1>4. CASE ReadAudio \/ NothingToRead
  <2>1. /\ UNCHANGED <<now, lastPing, inflight, pings, server, pongs, have, samples,
                        theta, bestRtt>>
        /\ pc' = "ping"
        /\ locked' \in BOOLEAN
        /\ locked' => locked \/ (have /\ samples >= LockSamples)
    BY <1>4 DEF ReadAudio, NothingToRead, ClockInv, TypeOK, est
  <2>2. TypeOK' /\ OffsetBound' /\ LockEarned'
    BY <2>1 DEF ClockInv, TypeOK, OffsetBound, LockEarned
  <2>3. InOrder'
    BY <2>1 DEF ClockInv, InOrder, PingsInOrder, ServerInOrder, PongsInOrder
  <2> QED
    BY <2>2, <2>3 DEF ClockInv
<1>5. CASE ServerReads
  BY <1>5, ServerReadsStep
<1>6. CASE ServerReplies
  BY <1>6, ServerRepliesStep
<1>7. CASE UNCHANGED vars
  BY <1>7 DEF ClockInv, TypeOK, InOrder, PingsInOrder, ServerInOrder, PongsInOrder,
        OffsetBound, LockEarned, vars, est
<1> QED
  BY <1>1, <1>2, <1>3, <1>4, <1>5, <1>6, <1>7 DEF Next

LEMMA StepOfClock == [StreamsNext]_allVars => [Next]_vars
<1>1. [StreamsNext]_allVars => Next \/ UNCHANGED clockState
    BY DEF StreamsNext, allVars, ClockStep, RingStep, CodecStep, PlayStep, WireStep,
           RsStep, HsStep, PaceStep, SchedStep
<1> QED
    BY <1>1 DEF clockState, vars, est

(* For every offset, lock size, ping period and timeout, and every delay of every
   message and answer: sink_handle_pong's estimate is off by no more than half the
   least round trip seen. *)
THEOREM OffsetTheorem == StreamsSpec => [](TypeOK /\ OffsetBound)
<1>1. ClockInv => TypeOK /\ OffsetBound
    BY DEF ClockInv
<1>2. StreamsInit => ClockInv
    BY ClockInitInv DEF StreamsInit
<1>3. ClockInv /\ [StreamsNext]_allVars => ClockInv'
    BY ClockNextInv, StepOfClock
<1> QED
    BY <1>1, <1>2, <1>3, PTL DEF StreamsSpec

(* The offset the schedule was anchored with is never touched again. *)
THEOREM FrozenTheorem == StreamsSpec => Frozen
<1> DEFINE Keeps == /\ locked => UNCHANGED <<theta, bestRtt, locked>>
                    /\ locked' => have' /\ samples' >= LockSamples
<1>1. ClockInv /\ [Next]_vars => [Keeps]_vars
    <2> SUFFICES ASSUME ClockInv, Next PROVE Keeps
        BY DEF vars
    <2>1. locked' => have' /\ samples' >= LockSamples
        BY ClockNextInv DEF ClockInv, LockEarned
    <2>2. locked => UNCHANGED <<theta, bestRtt, locked>>
        BY DEF ClockInv, TypeOK, Next, Tick, Ping, ReadPong, HandlePong, Better, ReadAudio,
               NothingToRead, ServerReads, ServerReplies, est
    <2> QED
        BY <2>1, <2>2
<1>2. StreamsInit => ClockInv
    BY ClockInitInv DEF StreamsInit
<1>3. ClockInv /\ [StreamsNext]_allVars => ClockInv' /\ [Keeps]_vars
    BY <1>1, ClockNextInv, StepOfClock
<1> QED
    BY <1>2, <1>3, PTL DEF StreamsSpec, Frozen

-----------------------------------------------------------------------------
(* The codec.  A chunk that is not skipped takes an eighth off the average. *)
Decay(x) == x - x \div 8

(* The most a group on raw can have left of the average after so many chunks without
   a skip, and a group on FLAC after a whole window of them. *)
W0 == Degrade - 1
W1 == Decay(W0)
W2 == Decay(W1)
W3 == Decay(W2)
W4 == Decay(W3)
W5 == Decay(W4)
W6 == Decay(W5)
W7 == Decay(W6)
Calm == 78

OnRaw == /\ ema <= W0
         /\ cleanChunks >= 1 => ema <= W1
         /\ cleanChunks >= 2 => ema <= W2
         /\ cleanChunks >= 3 => ema <= W3
         /\ cleanChunks >= 4 => ema <= W4
         /\ cleanChunks >= 5 => ema <= W5
         /\ cleanChunks >= 6 => ema <= W6
         /\ cleanChunks >= 7 => ema <= W7
OnFlac == cleanChunks < Recover /\ (ema <= Calm \/ ema + 9 * cleanChunks <= 1000)

CodecInv ==
    /\ Cod!TypeOK
    /\ codec = "raw" => OnRaw
    /\ codec = "flac" => OnFlac

LEMMA DecayKeeps ==
    \A x, y \in Nat : x <= y => /\ Decay(x) \in Nat /\ Decay(x) <= Decay(y) /\ Decay(x) <= x
                               /\ 8 * Decay(x) <= 7 * x + 7 /\ 7 * x <= 8 * Decay(x)
BY DEF Decay

LEMMA Decays ==
    ASSUME Cod!CodecAssumption, CodecThresholds
    PROVE  /\ W0 \in Nat /\ W1 \in Nat /\ W2 \in Nat /\ W3 \in Nat
           /\ W4 \in Nat /\ W5 \in Nat /\ W6 \in Nat /\ W7 \in Nat
           /\ W0 < Degrade /\ W1 <= W0 /\ W2 <= W1 /\ W3 <= W2 /\ W4 <= W3 /\ W5 <= W4
           /\ W6 <= W5 /\ W7 <= W6 /\ Calm <= W7
           /\ W7 + (1000 - W7) \div 8 < Degrade /\ W7 <= 1000
<1>1. W0 \in Nat /\ W0 = Degrade - 1 /\ Degrade \in 200..1000
    BY DEF Cod!CodecAssumption, CodecThresholds, W0
<1>2. W1 \in Nat /\ W1 <= W0 /\ 8 * W1 <= 7 * W0 + 7 /\ 7 * W0 <= 8 * W1
    BY <1>1, DecayKeeps DEF W1
<1>3. W2 \in Nat /\ W2 <= W1 /\ 8 * W2 <= 7 * W1 + 7 /\ 7 * W1 <= 8 * W2
    BY <1>2, DecayKeeps DEF W2
<1>4. W3 \in Nat /\ W3 <= W2 /\ 8 * W3 <= 7 * W2 + 7 /\ 7 * W2 <= 8 * W3
    BY <1>3, DecayKeeps DEF W3
<1>5. W4 \in Nat /\ W4 <= W3 /\ 8 * W4 <= 7 * W3 + 7 /\ 7 * W3 <= 8 * W4
    BY <1>4, DecayKeeps DEF W4
<1>6. W5 \in Nat /\ W5 <= W4 /\ 8 * W5 <= 7 * W4 + 7 /\ 7 * W4 <= 8 * W5
    BY <1>5, DecayKeeps DEF W5
<1>7. W6 \in Nat /\ W6 <= W5 /\ 8 * W6 <= 7 * W5 + 7 /\ 7 * W5 <= 8 * W6
    BY <1>6, DecayKeeps DEF W6
<1>8. W7 \in Nat /\ W7 <= W6 /\ 8 * W7 <= 7 * W6 + 7 /\ 7 * W6 <= 8 * W7
    BY <1>7, DecayKeeps DEF W7
<1>9. 7 * W7 + 1000 < 8 * Degrade /\ Calm <= W7
    BY <1>1, <1>2, <1>3, <1>4, <1>5, <1>6, <1>7, <1>8 DEF Calm
<1>10. W7 + (1000 - W7) \div 8 < Degrade /\ W7 <= 1000
    BY <1>1, <1>2, <1>3, <1>4, <1>5, <1>6, <1>7, <1>8, <1>9
<1> QED
    BY <1>1, <1>2, <1>3, <1>4, <1>5, <1>6, <1>7, <1>8, <1>9, <1>10

(* What one chunk does to the average. *)
LEMMA FoldedClean == ASSUME ema \in 0..1000
                     PROVE  Cod!Folded(FALSE) = Decay(ema)
BY DEF Cod!Folded, Cod!Eighth, Decay
LEMMA FoldedSkipped == ASSUME ema \in 0..1000
                       PROVE  Cod!Folded(TRUE) = ema + (1000 - ema) \div 8
BY DEF Cod!Folded, Cod!Eighth

Flips == /\ codec = "raw" /\ codec' = "flac" => cleanChunks' = 0 /\ cleanChunks < 7
         /\ codec = "flac" /\ codec' = "raw" => cleanChunks' = Recover

LEMMA CodecStepInv ==
    ASSUME Cod!CodecAssumption, CodecThresholds, CodecInv, Cod!Next
    PROVE  CodecInv' /\ Flips
<1>1. PICK skipped \in BOOLEAN : Cod!Chunk(skipped)
    BY DEF Cod!Next
<1>2. /\ ema \in 0..1000 /\ cleanChunks \in 0..(Recover + 1) /\ codec \in {"raw", "flac"}
      /\ Mode = "adaptive" /\ Degrade \in 200..1000 /\ Recover \in Nat /\ Recover >= 112
    BY DEF CodecInv, Cod!TypeOK, Cod!CodecAssumption, CodecThresholds
<1>3. /\ ema' = Cod!Folded(skipped) /\ cleanChunks' = Cod!Streak(skipped)
      /\ codec = "raw" => codec' = IF ema' >= Degrade THEN "flac" ELSE "raw"
      /\ codec = "flac" => codec' = IF cleanChunks' >= Recover THEN "raw" ELSE "flac"
    BY <1>1, <1>2 DEF Cod!Chunk, Cod!Choice
<1>4. CASE skipped
    <2>1. ema' = ema + (1000 - ema) \div 8 /\ cleanChunks' = 0
        BY <1>2, <1>3, <1>4, FoldedSkipped, ZenonT(60) DEF Cod!Streak
    <2>2. ema' \in 0..1000
        BY <1>2, <2>1
    <2>3. CASE codec = "raw"
        <3>1. cleanChunks >= 7 => ema' < Degrade
            BY <1>2, <2>1, <2>3, Decays DEF CodecInv, OnRaw
        <3>2. Flips
            BY <1>2, <1>3, <2>1, <2>3, <3>1 DEF Flips
        <3>3. ema' < Degrade => ema' <= W0
            BY <1>2, <2>2 DEF W0
        <3>4. CodecInv'
            BY <1>2, <1>3, <2>1, <2>2, <2>3, <3>3, SMTT(30)
            DEF CodecInv, OnRaw, OnFlac, Cod!TypeOK
        <3> QED
            BY <3>2, <3>4
    <2>4. CASE codec = "flac"
        BY <1>2, <1>3, <2>1, <2>2, <2>4 DEF CodecInv, OnFlac, Flips, Cod!TypeOK
    <2> QED
        BY <1>2, <2>3, <2>4
<1>5. CASE ~ skipped
    <2>1. /\ ema' = Decay(ema)
          /\ cleanChunks' = IF cleanChunks <= Recover THEN cleanChunks + 1 ELSE cleanChunks
        BY <1>2, <1>3, <1>5, FoldedClean, ZenonT(60) DEF Cod!Streak
    <2>2. ema' \in 0..1000 /\ ema' <= ema
        BY <1>2, <2>1 DEF Decay
    <2>3. CASE codec = "raw"
        <3>1. codec' = "raw"
            BY <1>2, <1>3, <2>2, <2>3, Decays DEF CodecInv, OnRaw
        <3>2. \A w \in Nat : ema <= w => ema' <= Decay(w)
            <4>1. ema \in Nat
                BY <1>2
            <4>2. \A w \in Nat : ema <= w => Decay(ema) <= Decay(w)
                BY <4>1, DecayKeeps
            <4> QED
                BY <2>1, <4>2
        <3>3. ema' <= W0 /\ (cleanChunks' >= 1 => ema' <= W1)
            BY <1>2, <2>2, <2>3, <3>2, Decays DEF CodecInv, OnRaw, W1
        <3>4. cleanChunks >= 1 => ema' <= W2
            BY <1>2, <2>3, <3>2, Decays DEF CodecInv, OnRaw, W2
        <3>5. cleanChunks >= 2 => ema' <= W3
            BY <1>2, <2>3, <3>2, Decays DEF CodecInv, OnRaw, W3
        <3>6. cleanChunks >= 3 => ema' <= W4
            BY <1>2, <2>3, <3>2, Decays DEF CodecInv, OnRaw, W4
        <3>7. cleanChunks >= 4 => ema' <= W5
            BY <1>2, <2>3, <3>2, Decays DEF CodecInv, OnRaw, W5
        <3>8. cleanChunks >= 5 => ema' <= W6
            BY <1>2, <2>3, <3>2, Decays DEF CodecInv, OnRaw, W6
        <3>9. cleanChunks >= 6 => ema' <= W7
            BY <1>2, <2>3, <3>2, Decays DEF CodecInv, OnRaw, W7
        <3>10. \A k \in 1..7 : cleanChunks' >= k => cleanChunks >= k - 1
            BY <1>2, <2>1
        <3>11. OnRaw'
            BY <3>3, <3>4, <3>5, <3>6, <3>7, <3>8, <3>9, <3>10 DEF OnRaw, W0, W1, W2, W3, W4,
               W5, W6, W7
        <3>12. Cod!TypeOK'
            BY <1>2, <2>1, <2>2, <3>1 DEF Cod!TypeOK
        <3> QED
            BY <2>3, <3>1, <3>11, <3>12 DEF CodecInv, Flips
    <2>4. CASE codec = "flac"
        <3>1. cleanChunks < Recover /\ cleanChunks' = cleanChunks + 1
            BY <1>2, <2>1, <2>4 DEF CodecInv, OnFlac
        <3>2. ema' <= Calm \/ ema' + 9 * cleanChunks' <= 1000
            BY <1>2, <2>1, <2>4, <3>1 DEF CodecInv, OnFlac, Calm, Decay
        <3>3. Cod!TypeOK'
            BY <1>2, <1>3, <2>2, <2>4, <3>1 DEF Cod!TypeOK
        <3>4. CASE cleanChunks' >= Recover
            <4>1. cleanChunks' = Recover /\ ema' <= Calm /\ codec' = "raw"
                BY <1>2, <1>3, <2>2, <2>4, <3>1, <3>2, <3>4 DEF Calm
            <4>2. OnRaw'
                BY <1>2, <2>2, <4>1, Decays DEF OnRaw, W0, W1, W2, W3, W4, W5, W6, W7, Calm
            <4> QED
                BY <2>4, <3>3, <4>1, <4>2 DEF CodecInv, Flips
        <3>5. CASE ~ (cleanChunks' >= Recover)
            BY <1>2, <1>3, <2>4, <3>1, <3>2, <3>3, <3>5 DEF CodecInv, OnFlac, Flips
        <3> QED
            BY <3>4, <3>5
    <2> QED
        BY <1>2, <2>3, <2>4
<1> QED
    BY <1>4, <1>5

LEMMA CodecInit == Cod!CodecAssumption /\ CodecThresholds /\ StreamsInit => CodecInv
<1> SUFFICES ASSUME Cod!CodecAssumption, CodecThresholds, StreamsInit PROVE CodecInv
    OBVIOUS
<1>0. Recover \in Nat /\ Recover >= 112
    BY DEF Cod!CodecAssumption, CodecThresholds
<1>1. ema = 0 /\ cleanChunks = 0 /\ codec = "raw"
    BY DEF StreamsInit, Cod!Init
<1> QED
    BY <1>0, <1>1, Decays DEF CodecInv, Cod!TypeOK, OnRaw

LEMMA CodecKeeps ==
    ASSUME Cod!CodecAssumption, CodecThresholds, CodecInv, [StreamsNext]_allVars
    PROVE  CodecInv' /\ (Flips \/ UNCHANGED codecState)
<1>1. CASE Cod!Next
    BY <1>1, CodecStepInv
<1>2. CASE UNCHANGED codecState
    BY <1>2 DEF codecState, CodecInv, Cod!TypeOK, OnRaw, OnFlac, W0, W1, W2, W3, W4, W5,
       W6, W7
<1> QED
    BY <1>1, <1>2, StepOfCodec

(* For every pair of thresholds no more eager than the code's 200 and 600 chunks:
   the group goes to FLAC only on a skip that is not alone, and back to raw only
   after a whole window without one. *)
THEOREM NoFlappingTheorem ==
    Cod!CodecAssumption /\ CodecThresholds => (StreamsSpec => NoFlapping)
<1> SUFFICES ASSUME Cod!CodecAssumption, CodecThresholds PROVE StreamsSpec => NoFlapping
    OBVIOUS
<1>1. StreamsInit => CodecInv
    BY CodecInit
<1>2. CodecInv /\ [StreamsNext]_allVars => CodecInv' /\ (Flips \/ UNCHANGED codecState)
    BY CodecKeeps
<1>3. CodecInv /\ [StreamsNext]_allVars =>
        /\ [codec = "raw" /\ codec' = "flac" => cleanChunks' = 0 /\ cleanChunks < 7]_(Cod!vars)
        /\ [codec = "flac" /\ codec' = "raw" => cleanChunks' = Recover]_(Cod!vars)
    BY <1>2 DEF Flips, codecState, Cod!vars
<1> QED
    BY <1>1, <1>2, <1>3, PTL DEF StreamsSpec, NoFlapping, Cod!NeverOnALoneSkip,
       Cod!RecoversSlowly

-----------------------------------------------------------------------------
(* The jitter buffer is a bounded queue, for every size, every sequence of pushes,
   pops and drops and every content. *)

(* The indices and the count stay in range, and the buffer keeps its domain:
   no copy of rb_push or rb_pop leaves it. *)
LEMMA RingTypes == StreamsSpec => []RingTypeOK
<1>1. RingInit => RingTypeOK
  BY RingAssumption DEF RingInit, RingTypeOK
<1>2. RingTypeOK /\ [RingNext]_ringVars => RingTypeOK'
  <2> SUFFICES ASSUME RingTypeOK, [RingNext]_ringVars PROVE RingTypeOK'
    OBVIOUS
  <2> USE RingAssumption
  <2>1. ASSUME NEW p \in Chunks, RbPush(p) PROVE RingTypeOK'
    <3> DEFINE n == Least(Len(p), Space)
               first == Least(RingBytes - RingTail, n)
    <3>1. p \in Seq(Byte) /\ Len(p) \in Nat
      OBVIOUS
    <3>2. n \in Nat /\ n <= Len(p) /\ rcount + n <= RingBytes /\ RingTail \in 0..(RingBytes - 1)
      BY <3>1 DEF RingTypeOK, Least, Space, RingTail, Wrap
    <3>3. first \in Nat /\ first <= n
      BY <3>2 DEF Least
    <3>4. rbuf' = Copied(p, n, first) /\ rcount' = rcount + n /\ rhead' = rhead /\ took' = took
      BY <2>1 DEF RbPush
    <3> HIDE DEF n, first
    <3>5. ASSUME NEW k \in 0..(RingBytes - 1) PROVE rbuf'[k] \in Byte
      <4>1. CASE RingTail <= k /\ k < RingTail + first
        <5>1. rbuf'[k] = p[k - RingTail + 1] /\ k - RingTail + 1 \in 1..Len(p)
          BY <3>2, <3>3, <3>4, <4>1, <3>1 DEF Copied
        <5> QED BY <5>1, <3>1
      <4>2. CASE ~(RingTail <= k /\ k < RingTail + first) /\ k < n - first
        <5>1. rbuf'[k] = p[first + k + 1] /\ first + k + 1 \in 1..Len(p)
          BY <3>2, <3>3, <3>4, <4>2, <3>1 DEF Copied
        <5> QED BY <5>1, <3>1
      <4>3. CASE ~(RingTail <= k /\ k < RingTail + first) /\ ~(k < n - first)
        BY <3>4, <4>3 DEF Copied, RingTypeOK
      <4> QED BY <4>1, <4>2, <4>3
    <3>6. rbuf' \in [0..(RingBytes - 1) -> Byte]
      BY <3>4, <3>5 DEF Copied
    <3> QED BY <3>2, <3>4, <3>6 DEF RingTypeOK
  <2>2. ASSUME NEW m \in Amounts, RbPop(m) PROVE RingTypeOK'
    <3> DEFINE n == Least(m, rcount)
               first == Least(RingBytes - rhead, n)
    <3>1. n \in Nat /\ n <= rcount /\ first \in Nat /\ first <= n
          /\ first <= RingBytes - rhead /\ (first < n => first = RingBytes - rhead)
      BY DEF RingTypeOK, Least
    <3>2. took' = Taken(n, first) /\ rhead' = Wrap(rhead + n) /\ rcount' = rcount - n
          /\ rbuf' = rbuf
      BY <2>2 DEF RbPop, Advance
    <3> HIDE DEF n, first
    <3>3. ASSUME NEW i \in 1..n PROVE took'[i] \in Byte
      <4>1. CASE i <= first
        <5>1. took'[i] = rbuf[rhead + i - 1] /\ rhead + i - 1 \in 0..(RingBytes - 1)
          BY <3>1, <3>2, <4>1 DEF Taken, RingTypeOK
        <5> QED BY <5>1 DEF RingTypeOK
      <4>2. CASE ~(i <= first)
        <5>1. took'[i] = rbuf[i - first - 1] /\ i - first - 1 \in 0..(RingBytes - 1)
          BY <3>1, <3>2, <4>2 DEF Taken, RingTypeOK
        <5> QED BY <5>1 DEF RingTypeOK
      <4> QED BY <4>1, <4>2
    <3>4. took' \in Seq(Byte)
      BY <3>1, <3>2, <3>3 DEF Taken
    <3>5. rhead' \in 0..(RingBytes - 1) /\ rcount' \in 0..RingBytes
      BY <3>1, <3>2 DEF RingTypeOK, Wrap
    <3> QED BY <3>2, <3>4, <3>5 DEF RingTypeOK
  <2>3. ASSUME NEW m \in Amounts, RbDrop(m) PROVE RingTypeOK'
    BY <2>3 DEF RbDrop, Advance, RingTypeOK, Least, Wrap
  <2>4. CASE UNCHANGED ringVars
    BY <2>4 DEF ringVars, RingTypeOK
  <2> QED BY <2>1, <2>2, <2>3, <2>4 DEF RingNext
<1>3. StreamsInit => RingInit
  BY DEF StreamsInit
<1>4. RingTypeOK /\ [StreamsNext]_allVars => RingTypeOK'
  BY <1>2, StepOfRing DEF ringState, ringVars
<1> QED BY <1>1, <1>3, <1>4, PTL DEF StreamsSpec

(* The contents are a sequence of count bytes. *)
LEMMA ContentsLength ==
  ASSUME rcount \in Nat
  PROVE  /\ Len(Contents) = rcount
         /\ \A i \in 1..rcount : Contents[i] = rbuf[Wrap(rhead + i - 1)]
BY DEF Contents

(* A push appends what fits of its bytes. *)
LEMMA PushRefines ==
  ASSUME RingTypeOK, RingTypeOK', NEW p \in Chunks, RbPush(p)
  PROVE  Queue!Push(p)
<1> USE RingAssumption
<1> DEFINE n == Least(Len(p), Space)
           first == Least(RingBytes - RingTail, n)
<1>1. p \in Seq(Byte) /\ Len(p) \in Nat
  OBVIOUS
<1>2. n \in Nat /\ n <= Len(p) /\ rcount + n <= RingBytes /\ RingTail \in 0..(RingBytes - 1)
  BY <1>1 DEF RingTypeOK, Least, Space, RingTail, Wrap
<1>3. /\ first \in Nat /\ first <= n /\ first <= RingBytes - RingTail
      /\ first < n => first = RingBytes - RingTail
  BY <1>2 DEF Least
<1>4. rbuf' = Copied(p, n, first) /\ rcount' = rcount + n /\ rhead' = rhead /\ took' = took
  BY DEF RbPush
<1>5. n = Queue!AtMost(Len(p), RingBytes - Len(Contents))
  BY ContentsLength DEF RingTypeOK, Queue!AtMost, Least, Space
<1> HIDE DEF n, first
<1>6. Len(Contents) = rcount
  BY ContentsLength DEF RingTypeOK
<1> DEFINE want == [i \in 1..(rcount + n) |->
                      IF i <= rcount THEN Contents[i] ELSE p[i - rcount]]
<1>7. ASSUME NEW i \in 1..(rcount + n)
      PROVE  rbuf'[Wrap(rhead + i - 1)] = IF i <= rcount THEN Contents[i] ELSE p[i - rcount]
  <2> DEFINE k == Wrap(rhead + i - 1)
  <2>1. k \in 0..(RingBytes - 1)
    BY <1>2 DEF Wrap, RingTypeOK
  <2>2. CASE i <= rcount
    <3>1. ~(RingTail <= k /\ k < RingTail + first) /\ ~(k < n - first)
      BY <1>2, <1>3, <2>2 DEF Wrap, RingTail, RingTypeOK
    <3>2. rbuf'[k] = rbuf[k]
      BY <1>4, <2>1, <3>1 DEF Copied
    <3>3. Contents[i] = rbuf[k]
      BY <2>2 DEF Contents, RingTypeOK
    <3> QED BY <2>2, <3>2, <3>3
  <2>3. CASE i > rcount /\ i - rcount <= first
    <3>1. RingTail <= k /\ k < RingTail + first /\ k - RingTail + 1 = i - rcount
      BY <1>2, <1>3, <2>3 DEF Wrap, RingTail, RingTypeOK
    <3>2. rbuf'[k] = p[k - RingTail + 1]
      BY <1>4, <2>1, <3>1 DEF Copied
    <3> QED BY <2>3, <3>1, <3>2 DEF RingTypeOK
  <2>4. CASE i > rcount /\ i - rcount > first
    <3>1. ~(RingTail <= k /\ k < RingTail + first) /\ k < n - first /\ first + k + 1 = i - rcount
      BY <1>2, <1>3, <2>4 DEF Wrap, RingTail, RingTypeOK
    <3>2. rbuf'[k] = p[first + k + 1]
      BY <1>4, <2>1, <3>1 DEF Copied
    <3> QED BY <2>4, <3>1, <3>2 DEF RingTypeOK
  <2>5. i \in Int /\ rcount \in Int /\ first \in Int
    BY <1>2, <1>3 DEF RingTypeOK
  <2>6. i <= rcount \/ (i > rcount /\ i - rcount <= first) \/ (i > rcount /\ i - rcount > first)
    BY <2>5
  <2> HIDE DEF k
  <2> QED BY <2>6, <2>2, <2>3, <2>4
<1>8. Contents' = [i \in 1..(rcount + n) |-> rbuf'[Wrap(rhead + i - 1)]]
  BY <1>4 DEF Contents
<1>9. Contents' = want
  BY <1>7, <1>8
<1> DEFINE q == Len(Contents)
           m == Queue!AtMost(Len(p), RingBytes - q)
<1>10. Contents' = [i \in 1..(q + m) |-> IF i <= q THEN Contents[i] ELSE p[i - q]]
  BY <1>5, <1>6, <1>9
<1>11. took' = took
  BY <1>4
<1> HIDE DEF want, n, first
<1> QED BY <1>10, <1>11 DEF Queue!Push

(* A pop or a drop of n bytes leaves the contents after the first n. *)
LEMMA AdvanceRefines ==
  ASSUME RingTypeOK, NEW n \in Nat, n <= rcount, Advance(n), UNCHANGED rbuf
  PROVE  Contents' = Queue!Rest(Contents, n)
<1> USE RingAssumption
<1>1. rhead' = Wrap(rhead + n) /\ rcount' = rcount - n /\ rbuf' = rbuf
  BY DEF Advance
<1>2. Len(Contents) = rcount
  BY ContentsLength DEF RingTypeOK
<1>3. ASSUME NEW i \in 1..(rcount - n)
      PROVE  rbuf[Wrap(Wrap(rhead + n) + i - 1)] = Contents[n + i]
  <2>1. Wrap(Wrap(rhead + n) + i - 1) = Wrap(rhead + (n + i) - 1)
    BY DEF Wrap, RingTypeOK
  <2>2. n + i \in 1..rcount
    BY DEF RingTypeOK
  <2> QED BY <2>1, <2>2 DEF Contents
<1>4. Contents' = [i \in 1..(rcount - n) |-> rbuf[Wrap(Wrap(rhead + n) + i - 1)]]
  BY <1>1 DEF Contents
<1>5. Contents' = [i \in 1..(rcount - n) |-> Contents[n + i]]
  BY <1>3, <1>4
<1> QED BY <1>2, <1>5 DEF Queue!Rest

LEMMA PopRefines ==
  ASSUME RingTypeOK, NEW m \in Amounts, RbPop(m)
  PROVE  Queue!Pop(m)
<1> USE RingAssumption
<1> DEFINE n == Least(m, rcount)
           first == Least(RingBytes - rhead, n)
<1>1. n \in Nat /\ n <= rcount /\ first \in Nat /\ first <= n
      /\ first <= RingBytes - rhead /\ (first < n => first = RingBytes - rhead)
  BY DEF RingTypeOK, Least
<1>2. took' = Taken(n, first) /\ Advance(n) /\ rbuf' = rbuf
  BY DEF RbPop
<1>3. Len(Contents) = rcount
  BY ContentsLength DEF RingTypeOK
<1>4. n = Queue!AtMost(m, Len(Contents))
  BY <1>3 DEF Queue!AtMost, Least
<1> HIDE DEF n, first
<1>5. ASSUME NEW i \in 1..n
      PROVE  (IF i <= first THEN rbuf[rhead + i - 1] ELSE rbuf[i - first - 1]) = Contents[i]
  <2>1. i \in 1..rcount
    BY <1>1 DEF RingTypeOK
  <2>2. Wrap(rhead + i - 1) = IF i <= first THEN rhead + i - 1 ELSE i - first - 1
    BY <1>1 DEF Wrap, RingTypeOK
  <2> QED BY <2>1, <2>2 DEF Contents
<1>6. took' = [i \in 1..n |-> Contents[i]]
  BY <1>2, <1>5 DEF Taken
<1>7. Contents' = Queue!Rest(Contents, n)
  BY <1>1, <1>2, AdvanceRefines
<1> QED BY <1>4, <1>6, <1>7 DEF Queue!Pop, Queue!First

LEMMA DropRefines ==
  ASSUME RingTypeOK, NEW m \in Amounts, RbDrop(m)
  PROVE  Queue!Drop(m)
<1> USE RingAssumption
<1> DEFINE n == Least(m, rcount)
<1>1. n \in Nat /\ n <= rcount
  BY DEF RingTypeOK, Least
<1>2. Advance(n) /\ rbuf' = rbuf /\ took' = took
  BY DEF RbDrop
<1>3. n = Queue!AtMost(m, Len(Contents))
  BY ContentsLength DEF RingTypeOK, Queue!AtMost, Least
<1> HIDE DEF n
<1>4. Contents' = Queue!Rest(Contents, n)
  BY <1>1, <1>2, AdvanceRefines
<1> QED BY <1>2, <1>3, <1>4 DEF Queue!Drop

(* Every step of the circular buffer is one of the queue, whatever the wrap does
   to it: what is popped is what was pushed, in its order, less only what did not
   fit and what the servo dropped. *)
THEOREM RingPromisedTheorem == StreamsSpec => RingPromised
<1>1. RingInit => Queue!FifoInit
  <2> SUFFICES ASSUME RingInit PROVE Queue!FifoInit
    OBVIOUS
  <2>1. Contents = <<>>
    BY DEF RingInit, Contents
  <2> QED BY <2>1 DEF RingInit, Queue!FifoInit
<1>2. RingTypeOK /\ RingTypeOK' /\ [RingNext]_ringVars => [Queue!FifoNext]_(Queue!fifoVars)
  <2> SUFFICES ASSUME RingTypeOK, RingTypeOK', [RingNext]_ringVars
               PROVE  [Queue!FifoNext]_(Queue!fifoVars)
    OBVIOUS
  <2>1. ASSUME NEW p \in Chunks, RbPush(p) PROVE Queue!FifoNext
    BY <2>1, PushRefines DEF Queue!FifoNext
  <2>2. ASSUME NEW m \in Amounts, RbPop(m) PROVE Queue!FifoNext
    BY <2>2, PopRefines DEF Queue!FifoNext
  <2>3. ASSUME NEW m \in Amounts, RbDrop(m) PROVE Queue!FifoNext
    BY <2>3, DropRefines DEF Queue!FifoNext
  <2>4. CASE UNCHANGED ringVars
    BY <2>4 DEF ringVars, Contents, Wrap, Queue!fifoVars
  <2> QED BY <2>1, <2>2, <2>3, <2>4 DEF RingNext
<1>3. StreamsInit => RingInit
  BY DEF StreamsInit
<1>4. RingTypeOK /\ RingTypeOK' /\ [StreamsNext]_allVars => [Queue!FifoNext]_(Queue!fifoVars)
  BY <1>2, StepOfRing DEF ringState, ringVars
<1> QED BY <1>1, <1>3, <1>4, <1>2, RingTypes, PTL DEF StreamsSpec, RingPromised, Queue!FifoSpec

-----------------------------------------------------------------------------
(* Pacing. *)
(* A pace_start of 0 means that there is none; a gap that ended in the very nanosecond
   in which the clock stands at the time of all samples would compute one. *)
AnchorNotZero == at = "reopen" => Pace!StartAgain # 0

PaceTypes ==
    /\ clock \in Nat /\ clock >= Uptime /\ paceStart \in Int /\ sent \in 0..MaxSamples
    /\ at \in {"pace", "read", "reopen", "done"}
    /\ since[1] \in Int /\ since[2] \in 0..MaxSamples

(* pace_start is what since recorded, and the time of the samples sent since has gone
   by, but for a chunk; none is missing where a chunk is about to be read. *)
PaceInv ==
    /\ PaceTypes
    /\ paceStart = 0 => /\ sent = 0 /\ at \in {"pace", "done"}
                        /\ since[1] <= clock /\ since[2] = 0
    /\ paceStart # 0 => /\ paceStart = since[1] - Pace!Nanos(since[2])
                        /\ paceStart + Pace!Nanos(sent) <= clock + Pace!ChunkNanos
                        /\ at = "read" => paceStart + Pace!Nanos(sent) <= clock

LEMMA Quotient ==
    \A x \in Nat, y \in Nat \ {0} : /\ x \div y \in Nat /\ x % y \in 0..(y - 1)
                                    /\ x = y * (x \div y) + (x % y) /\ x % y <= x
BY SMT

(* A division by a whole number is monotone. *)
LEMMA QuotientMonotone ==
    ASSUME NEW x \in Nat, NEW z \in Nat, NEW y \in Nat \ {0}, x <= z
    PROVE  x \div y <= z \div y
<1>1. x = y * (x \div y) + (x % y) /\ z = y * (z \div y) + (z % y)
    BY Quotient
<1>2. x \div y \in Nat /\ z \div y \in Nat /\ x % y \in 0..(y - 1) /\ z % y \in 0..(y - 1)
    BY Quotient
<1> SUFFICES ASSUME x \div y >= z \div y + 1 PROVE FALSE
    BY <1>2
<1>3. y * (x \div y) >= y * (z \div y + 1)
    BY <1>2, SMT
<1>4. y * (z \div y + 1) = y * (z \div y) + y
    BY <1>2, SMT
<1> QED
    BY <1>1, <1>2, <1>3, <1>4

LEMMA QuotientOfSum ==
    ASSUME NEW x \in Nat, NEW z \in Nat, NEW y \in Nat \ {0}
    PROVE  (x + z) \div y <= x \div y + z \div y + 1
<1>1. /\ x = y * (x \div y) + (x % y) /\ z = y * (z \div y) + (z % y)
      /\ x + z = y * ((x + z) \div y) + ((x + z) % y)
    BY Quotient
<1>2. /\ x \div y \in Nat /\ z \div y \in Nat /\ (x + z) \div y \in Nat
      /\ x % y \in 0..(y - 1) /\ z % y \in 0..(y - 1) /\ (x + z) % y \in 0..(y - 1)
    <2>1. x + z \in Nat
        OBVIOUS
    <2> QED
        BY <2>1, Quotient
<1> SUFFICES ASSUME (x + z) \div y >= x \div y + z \div y + 2 PROVE FALSE
    BY <1>2
<1>3. y * ((x + z) \div y) >= y * (x \div y + z \div y + 2)
    BY <1>2, SMT
<1>4. y * (x \div y + z \div y + 2) = y * (x \div y) + y * (z \div y) + 2 * y
    BY <1>2, SMT
<1> QED
    BY <1>1, <1>2, <1>3, <1>4

(* A remainder grows by no more than what is added. *)
LEMMA RemainderOfSum ==
    ASSUME NEW x \in Nat, NEW z \in Nat, NEW y \in Nat \ {0}
    PROVE  (x + z) % y <= (x % y) + z
<1>1. /\ x = y * (x \div y) + (x % y)
      /\ x + z = y * ((x + z) \div y) + ((x + z) % y)
    BY Quotient
<1>2. x \div y <= (x + z) \div y /\ x \div y \in Nat /\ (x + z) \div y \in Nat
    BY QuotientMonotone, Quotient
<1>3. y * (x \div y) <= y * ((x + z) \div y)
    BY <1>2, SMT
<1>4. x % y \in Int /\ (x + z) % y \in Int /\ y * (x \div y) \in Int
    BY Quotient
<1> QED
    BY <1>1, <1>3, <1>4

(* A read of at most a chunk puts the next one off by no more than a chunk lasts. *)
LEMMA NanosOfChunk ==
    ASSUME PaceAssumption, NEW s \in Nat, NEW n \in 0..PaceChunk
    PROVE  Pace!Nanos(s + n) <= Pace!Nanos(s) + Pace!ChunkNanos
<1> DEFINE r == (s * Second) % Width
           c == PaceChunk * Second
<1>1. s * Second \in Nat /\ n * Second \in Nat /\ c \in Nat /\ n * Second <= c
    BY SMT DEF PaceAssumption
<1>2. (s + n) * Second = s * Second + n * Second
    BY SMT DEF PaceAssumption
<1>3. r \in Nat /\ (s * Second + n * Second) % Width \in Nat
      /\ (s * Second + n * Second) % Width <= r + n * Second
    <2>1. Width \in Nat \ {0}
        BY DEF PaceAssumption
    <2>2. s * Second + n * Second \in Nat
        BY <1>1
    <2>3. (s * Second + n * Second) % Width <= r + n * Second
        BY <1>1, <2>1, RemainderOfSum
    <2>4. r \in 0..(Width - 1) /\ (s * Second + n * Second) % Width \in 0..(Width - 1)
        BY <1>1, <2>1, <2>2, Quotient
    <2> QED
        BY <2>1, <2>3, <2>4
<1> HIDE DEF r, c
<1>4. (s * Second + n * Second) % Width <= r + c
    BY <1>1, <1>3
<1>5. Rate \in Nat \ {0}
    BY DEF PaceAssumption
<1>6. ((s * Second + n * Second) % Width) \div Rate <= (r + c) \div Rate
    BY <1>1, <1>3, <1>4, <1>5, QuotientMonotone
<1>7. (r + c) \div Rate <= r \div Rate + c \div Rate + 1
    BY <1>1, <1>3, <1>5, QuotientOfSum
<1>8. /\ ((s * Second + n * Second) % Width) \div Rate \in Nat
      /\ (r + c) \div Rate \in Nat /\ r \div Rate \in Nat /\ c \div Rate \in Nat
    <2>1. r + c \in Nat
        BY <1>1, <1>3
    <2> QED
        BY <1>1, <1>3, <1>5, <2>1, Quotient
<1>9. /\ Pace!Nanos(s + n) = ((s * Second + n * Second) % Width) \div Rate
      /\ Pace!Nanos(s) = r \div Rate /\ Pace!ChunkNanos = c \div Rate + 1
    BY <1>2 DEF Pace!Nanos, Pace!ChunkNanos, r, c
<1> QED
    BY <1>6, <1>7, <1>8, <1>9

LEMMA NanosType ==
    ASSUME PaceAssumption
    PROVE  /\ \A n \in Nat : Pace!Nanos(n) \in Nat
           /\ Pace!Nanos(0) = 0 /\ Pace!ChunkNanos \in Nat
<1>1. ASSUME NEW n \in Nat PROVE Pace!Nanos(n) \in Nat
    <2>1. n * Second \in Nat /\ Width \in Nat \ {0} /\ Rate \in Nat \ {0}
        BY SMT DEF PaceAssumption
    <2>2. (n * Second) % Width \in Nat
        BY <2>1, Quotient
    <2> QED
        BY <2>1, <2>2, Quotient DEF Pace!Nanos
<1>2. Pace!Nanos(0) = 0
    <2>1. 0 * Second = 0 /\ Width \in Nat \ {0} /\ Rate \in Nat \ {0}
        BY SMT DEF PaceAssumption
    <2>2. 0 % Width = 0
        BY <2>1, SMT
    <2>3. 0 \div Rate = 0
        BY <2>1, SMT
    <2> QED
        BY <2>1, <2>2, <2>3 DEF Pace!Nanos
<1>3. Pace!ChunkNanos \in Nat
    <2>1. PaceChunk * Second \in Nat /\ Rate \in Nat \ {0}
        BY SMT DEF PaceAssumption
    <2>2. (PaceChunk * Second) \div Rate \in Nat
        BY <2>1, Quotient
    <2> QED
        BY <2>2 DEF Pace!ChunkNanos
<1> QED
    BY <1>1, <1>2, <1>3

LEMMA PaceStepInv ==
    PaceAssumption /\ PaceInv /\ AnchorNotZero /\ Pace!PaceNext => PaceInv'
<1> SUFFICES ASSUME PaceAssumption, PaceInv, AnchorNotZero, Pace!PaceNext PROVE PaceInv'
    OBVIOUS
<1> DEFINE N(n) == Pace!Nanos(n)
           C == Pace!ChunkNanos
<1>1. /\ clock \in Nat /\ clock >= Uptime /\ paceStart \in Int /\ sent \in 0..MaxSamples
      /\ MaxSamples \in Nat /\ sent \in Nat /\ Uptime \in Nat \ {0}
      /\ since[1] \in Int /\ since[2] \in 0..MaxSamples
    BY DEF PaceInv, PaceTypes, PaceAssumption
<1>2. N(sent) \in Nat /\ N(0) = 0 /\ C \in Nat /\ N(since[2]) \in Nat
    BY <1>1, NanosType DEF PaceAssumption
<1>3. CASE Pace!ClockTicks
    BY <1>1, <1>2, <1>3 DEF Pace!ClockTicks, PaceInv, PaceTypes
<1>4. CASE Pace!BeginChunk
    <2>1. /\ clock >= (IF paceStart = 0 THEN clock ELSE paceStart) + N(sent)
          /\ at' = "read" /\ paceStart' = IF paceStart = 0 THEN clock ELSE paceStart
          /\ since' = IF paceStart = 0 THEN <<clock, sent>> ELSE since
          /\ UNCHANGED <<clock, sent>>
        BY <1>4 DEF Pace!BeginChunk, Pace!DueNow, Pace!Target
    <2> HIDE DEF N, C
    <2>2. CASE paceStart = 0
        <3>1. sent = 0 /\ since' = <<clock, 0>> /\ paceStart' = clock /\ clock # 0
            BY <1>1, <1>2, <2>1, <2>2 DEF PaceInv
        <3>2. since'[1] = clock /\ since'[2] = 0
            BY <3>1
        <3>3. PaceTypes'
            BY <1>1, <2>1, <3>1, <3>2 DEF PaceTypes
        <3> QED
            BY <1>1, <1>2, <2>1, <3>1, <3>2, <3>3 DEF PaceInv, N, C
    <2>3. CASE paceStart # 0
        BY <1>1, <1>2, <2>1, <2>3 DEF PaceInv, PaceTypes, N, C
    <2> QED
        BY <2>2, <2>3
<1>5. ASSUME NEW n \in 0..PaceChunk, Pace!ReadAndSend(n) PROVE PaceInv'
    <2>1. /\ sent' = sent + n /\ sent + n <= MaxSamples /\ n \in Nat
          /\ at = "read" /\ at' \in {"pace", "reopen", "done"}
          /\ UNCHANGED <<clock, paceStart, since>>
        BY <1>5 DEF Pace!ReadAndSend, PaceAssumption
    <2>2. paceStart # 0 /\ paceStart + N(sent) <= clock
        BY <2>1 DEF PaceInv
    <2>3. N(sent') <= N(sent) + C /\ N(sent') \in Nat
        BY <1>1, <2>1, NanosOfChunk, NanosType
    <2> HIDE DEF N, C
    <2>4. PaceTypes'
        BY <1>1, <2>1 DEF PaceTypes
    <2>5. paceStart' + N(sent') <= clock' + C
        BY <1>1, <1>2, <2>1, <2>2, <2>3
    <2> QED
        BY <2>1, <2>2, <2>4, <2>5 DEF PaceInv, N, C
<1>6. CASE Pace!Reopens
    <2>1. /\ at' = "pace" /\ paceStart' = clock - N(sent) /\ since' = <<clock, sent>>
          /\ UNCHANGED <<clock, sent>>
        BY <1>6 DEF Pace!Reopens, Pace!StartAgain
    <2>2. since'[1] = clock /\ since'[2] = sent
        BY <2>1
    <2>a. clock - N(sent) # 0
        BY <1>6 DEF AnchorNotZero, Pace!StartAgain, Pace!Reopens, N
    <2> HIDE DEF N, C
    <2>3. paceStart' # 0 /\ paceStart' \in Int /\ paceStart' + N(sent) = clock
        BY <1>1, <1>2, <2>1, <2>a
    <2>4. PaceTypes'
        BY <1>1, <2>1, <2>2, <2>3 DEF PaceTypes
    <2> QED
        BY <1>1, <1>2, <2>1, <2>2, <2>3, <2>4 DEF PaceInv, N, C
<1>7. CASE Pace!PlayerGone
    BY <1>1, <1>7 DEF Pace!PlayerGone, PaceInv, PaceTypes
<1> QED
    BY <1>3, <1>4, <1>5, <1>6, <1>7 DEF Pace!PaceNext

LEMMA PaceInit ==
    ASSUME PaceAssumption, StreamsInit
    PROVE  PaceInv
<1>1. clock = Uptime /\ paceStart = 0 /\ sent = 0 /\ at = "pace" /\ since = <<Uptime, 0>>
    BY DEF StreamsInit, Pace!PaceInit
<1>2. since[1] = Uptime /\ since[2] = 0
    BY <1>1
<1> QED
    BY <1>1, <1>2 DEF PaceInv, PaceTypes, PaceAssumption

LEMMA PaceNextInv ==
    ASSUME PaceAssumption, PaceInv, AnchorNotZero, [StreamsNext]_allVars
    PROVE  PaceInv'
<1>1. CASE UNCHANGED paceState
    BY <1>1 DEF paceState, PaceInv, PaceTypes
<1> QED
    BY <1>1, PaceStepInv, StepOfPacing

LEMMA PaceMeans == PaceAssumption /\ PaceInv => Paced
<1> SUFFICES ASSUME PaceAssumption, PaceInv PROVE Pace!NoStall /\ Pace!NoBurst
    BY DEF Paced
<1> DEFINE n == Pace!Nanos(sent)
           m == Pace!Nanos(since[2])
           c == Pace!ChunkNanos
<1>1. /\ n \in Nat /\ m \in Nat /\ c \in Nat /\ clock \in Nat /\ paceStart \in Int
      /\ since[1] \in Int /\ Pace!Nanos(0) = 0
    BY NanosType DEF PaceInv, PaceTypes
<1>2. paceStart = 0 => n = 0 /\ m = 0 /\ since[1] <= clock
    BY <1>1 DEF PaceInv
<1>3. paceStart # 0 => paceStart = since[1] - m /\ paceStart + n <= clock + c
    BY DEF PaceInv
<1> HIDE DEF n, m, c
<1>4. (IF paceStart = 0 THEN clock ELSE paceStart) + n - clock <= c
    BY <1>1, <1>2, <1>3
<1>5. n - m <= clock - since[1] + c
    BY <1>1, <1>2, <1>3
<1>6. Pace!NoStall
    <2>1. Pace!Target - clock <= c
        BY <1>1, <1>4 DEF Pace!Target, n
    <2> QED
        BY <2>1 DEF Pace!NoStall, c
<1>7. Pace!NoBurst
    BY <1>5 DEF Pace!NoBurst, n, m, c
<1> QED
    BY <1>6, <1>7

(* For chunks, rates and clocks of any size: the source waits for a chunk no longer
   than a chunk lasts, after any number of gaps, and since the last gap it has sent no
   more than has been played, and a chunk. *)
THEOREM PacedTheorem == PaceAssumption => (StreamsSpec /\ []AnchorNotZero => []Paced)
<1> SUFFICES ASSUME PaceAssumption PROVE StreamsSpec /\ []AnchorNotZero => []Paced
    OBVIOUS
<1>1. StreamsInit => PaceInv
    BY PaceInit
<1>2. PaceInv /\ AnchorNotZero /\ [StreamsNext]_allVars => PaceInv'
    BY PaceNextInv
<1>3. PaceInv => Paced
    BY PaceMeans
<1> QED
    BY <1>1, <1>2, <1>3, PTL DEF StreamsSpec

(* Such as on a host that was up for longer than it will play. *)
COROLLARY PacedOnAnOldHost ==
    PaceAssumption /\ (\A n \in 0..MaxSamples : Pace!Nanos(n) < Uptime) =>
        (StreamsSpec => []Paced)
<1> SUFFICES ASSUME PaceAssumption, \A n \in 0..MaxSamples : Pace!Nanos(n) < Uptime
             PROVE  StreamsSpec => []Paced
    OBVIOUS
<1>1. StreamsInit => PaceInv
    BY PaceInit
<1>2. PaceInv => AnchorNotZero
    <2> SUFFICES ASSUME PaceInv PROVE Pace!StartAgain # 0
        BY DEF AnchorNotZero
    <2>1. clock \in Nat /\ clock >= Uptime /\ sent \in 0..MaxSamples /\ Uptime \in Nat
        BY DEF PaceInv, PaceTypes, PaceAssumption
    <2>2. Pace!Nanos(sent) \in Nat /\ Pace!Nanos(sent) < Uptime
        BY <2>1, NanosType DEF PaceAssumption
    <2> QED
        BY <2>1, <2>2 DEF Pace!StartAgain
<1>3. PaceInv /\ [StreamsNext]_allVars => PaceInv'
    BY <1>2, PaceNextInv
<1>4. PaceInv => Paced
    BY PaceMeans
<1> QED
    BY <1>1, <1>3, <1>4, PTL DEF StreamsSpec

-----------------------------------------------------------------------------
(* The resampler. *)
RsTypes ==
    /\ win \in Seq(Int) /\ Len(win) <= Window
    /\ ri \in Nat \ {0} /\ (ri = 1 \/ ri < Len(win))
    /\ frac \in 0..(Unit - 1) /\ step \in (Unit - StepFine)..(Unit + StepFine)
    /\ queued \in Seq(Int) /\ arrived \in Nat /\ playedSrc \in Int /\ labelled \in BOOLEAN

(* The ring holds the newest frames in their order, the label counts on from them,
   and what left the ring last was the newest. *)
RunsTo(r, next) == \A i \in 1..Len(r) : r[i] = next - Len(r) + i - 1
QueueRuns == RunsTo(queued, arrived)
LabelRuns == labelled => playedSrc = arrived - Len(queued)
LastLeft == Len(queued) = 0 /\ Len(win) > 0 => win[Len(win)] = arrived - 1

RsInv == RsTypes /\ QueueRuns /\ LabelRuns /\ LastLeft

(* NoSplice, position by position. *)
WindowRuns == \A j \in (ri + 1)..(Len(win) - 1) : win[j + 1] = win[j] + 1
Abuts == Len(win) > ri /\ Len(queued) > 0 => queued[1] = win[Len(win)] + 1

LEMMA SpliceMeans ==
    ASSUME RsInv
    PROVE  NoSplice <=> (WindowRuns /\ Abuts)
<1> DEFINE u == SubSeq(win, ri + 1, Len(win))
           n == Len(u)
           all == u \o queued
<1>1. /\ win \in Seq(Int) /\ ri \in Nat \ {0} /\ queued \in Seq(Int)
      /\ Len(win) \in Nat /\ Len(queued) \in Nat
    BY LenProperties DEF RsInv, RsTypes
<1>2. \A i \in (ri + 1)..Len(win) : win[i] \in Int
    BY <1>1
<1>3. /\ u \in Seq(Int) /\ n = IF ri < Len(win) THEN Len(win) - ri ELSE 0
      /\ \A i \in 1..n : u[i] = win[ri + i]
    <2>1. /\ u \in Seq(Int)
          /\ Len(u) = IF ri + 1 <= Len(win) THEN Len(win) - (ri + 1) + 1 ELSE 0
          /\ \A i \in 1..Len(u) : u[i] = win[ri + 1 + i - 1]
        BY <1>1, <1>2, SubSeqProperties
    <2>2. \A i \in 1..n : ri + 1 + i - 1 = ri + i
        BY <1>1, <2>1
    <2> QED
        BY <1>1, <2>1, <2>2
<1>4. n \in Nat /\ Len(all) = n + Len(queued)
      /\ \A i \in 1..Len(all) : all[i] = IF i <= n THEN u[i] ELSE queued[i - n]
    BY <1>1, <1>3, ConcatProperties, LenProperties
<1> HIDE DEF u, n, all
<1>5. \A i \in 1..n : all[i] = win[ri + i]
    <2> TAKE i \in 1..n
    <2>1. i \in 1..Len(all) /\ i <= n
        BY <1>1, <1>4
    <2>2. all[i] = u[i]
        BY <1>4, <2>1
    <2> QED
        BY <1>3, <2>2
<1>6. \A i \in 1..Len(queued) : all[n + i] = queued[i]
    BY <1>1, <1>4
<1>7. NoSplice <=> \A i \in 1..(Len(all) - 1) : all[i + 1] = all[i] + 1
    BY DEF NoSplice, Upcoming, all, u
<1>8. ASSUME NoSplice PROVE WindowRuns /\ Abuts
    <2>1. ASSUME NEW j \in (ri + 1)..(Len(win) - 1) PROVE win[j + 1] = win[j] + 1
        <3>1. /\ j - ri \in 1..n /\ j - ri + 1 \in 1..n /\ j - ri \in 1..(Len(all) - 1)
              /\ ri + (j - ri) = j /\ ri + (j - ri + 1) = j + 1
            BY <1>1, <1>3, <1>4
        <3>2. all[j - ri] = win[j] /\ all[j - ri + 1] = win[j + 1]
            BY <1>5, <3>1
        <3> QED
            BY <1>7, <1>8, <3>1, <3>2
    <2>2. ASSUME Len(win) > ri, Len(queued) > 0 PROVE queued[1] = win[Len(win)] + 1
        <3>1. /\ n = Len(win) - ri /\ n \in 1..(Len(all) - 1) /\ n \in 1..n
              /\ ri + n = Len(win) /\ 1 \in 1..Len(queued)
            BY <1>1, <1>3, <1>4, <2>2
        <3>2. all[n] = win[Len(win)] /\ all[n + 1] = queued[1]
            BY <1>5, <1>6, <3>1
        <3> QED
            BY <1>7, <1>8, <3>1, <3>2
    <2> QED
        BY <2>1, <2>2 DEF WindowRuns, Abuts
<1>9. ASSUME WindowRuns, Abuts PROVE NoSplice
    <2> SUFFICES ASSUME NEW i \in 1..(Len(all) - 1) PROVE all[i + 1] = all[i] + 1
        BY <1>7
    <2>1. CASE i < n
        <3>1. /\ i \in 1..n /\ i + 1 \in 1..n /\ ri + i \in (ri + 1)..(Len(win) - 1)
              /\ ri + (i + 1) = ri + i + 1
            BY <1>1, <1>3, <1>4, <2>1, SMTT(30)
        <3>2. all[i] = win[ri + i] /\ all[i + 1] = win[ri + i + 1]
            BY <1>5, <3>1
        <3> QED
            BY <1>9, <3>1, <3>2 DEF WindowRuns
    <2>2. CASE i = n
        <3>1. /\ i \in 1..n /\ ri + n = Len(win) /\ Len(win) > ri
              /\ Len(queued) > 0 /\ 1 \in 1..Len(queued)
            BY <1>1, <1>3, <1>4, <2>2
        <3>2. all[i] = win[Len(win)] /\ all[i + 1] = queued[1]
            BY <1>5, <1>6, <2>2, <3>1
        <3> QED
            BY <1>9, <3>1, <3>2 DEF Abuts
    <2>3. CASE i > n
        <3>1. /\ i - n \in 1..Len(queued) /\ i - n + 1 \in 1..Len(queued)
              /\ n + (i - n) = i /\ n + (i - n + 1) = i + 1
            BY <1>1, <1>4, <2>3
        <3>2. all[i] = queued[i - n] /\ all[i + 1] = queued[i - n + 1]
            BY <1>6, <3>1
        <3>3. /\ queued[i - n] = arrived - Len(queued) + (i - n) - 1
              /\ queued[i - n + 1] = arrived - Len(queued) + (i - n + 1) - 1
            BY <3>1 DEF RsInv, QueueRuns, RunsTo
        <3>4. arrived \in Nat
            BY DEF RsInv, RsTypes
        <3> QED
            BY <1>1, <1>4, <3>2, <3>3, <3>4
    <2> QED
        BY <1>4, <2>1, <2>2, <2>3
<1> QED
    BY <1>8, <1>9

(* Frames that follow one another in the window follow at any distance. *)
LEMMA RunOn ==
    ASSUME RsTypes, WindowRuns, NEW d \in Nat, ri + 1 + d <= Len(win)
    PROVE  win[ri + 1 + d] = win[ri + 1] + d
<1>1. win \in Seq(Int) /\ ri \in Nat \ {0} /\ Len(win) \in Nat
    BY LenProperties DEF RsTypes
<1> DEFINE Off == {e \in Nat : ri + 1 + e <= Len(win) /\ win[ri + 1 + e] # win[ri + 1] + e}
<1> SUFFICES ASSUME d \in Off PROVE FALSE
    OBVIOUS
<1>2. PICK e \in Off : \A c \in Off : ~ (c < e)
    <2>1. IsWellFoundedOn(OpToRel(<, Nat), Nat)
        BY NatLessThanWellFounded
    <2>2. Off \subseteq Nat /\ Off # {}
        OBVIOUS
    <2> HIDE DEF Off
    <2>3. \E e \in Off : \A c \in Off : ~ (<<c, e>> \in OpToRel(<, Nat))
        BY <2>1, <2>2, WFMin
    <2> QED
        BY <2>2, <2>3 DEF OpToRel
<1>3. \A c \in Off : ~ (c < e)
    BY <1>2
<1>4. e \in Nat /\ ri + 1 + e <= Len(win) /\ win[ri + 1 + e] # win[ri + 1] + e
    OBVIOUS
<1>5. win[ri + 1] \in Int
    BY <1>1, <1>4
<1>6. e # 0
    <2>1. e = 0 => ri + 1 + e = ri + 1 /\ win[ri + 1] + e = win[ri + 1]
        BY <1>1, <1>5
    <2> QED
        BY <1>4, <2>1
<1>7. e - 1 \in Nat /\ e - 1 < e /\ ri + 1 + (e - 1) <= Len(win)
    BY <1>1, <1>4, <1>6
<1>8. e - 1 \notin Off
    BY <1>3, <1>7
<1>9. win[ri + 1 + (e - 1)] = win[ri + 1] + (e - 1)
    BY <1>7, <1>8
<1>10. /\ ri + 1 + (e - 1) = ri + e /\ ri + e \in (ri + 1)..(Len(win) - 1)
       /\ ri + e + 1 = ri + 1 + e
    BY <1>1, <1>4, <1>6
<1>11. win[ri + 1 + e] = win[ri + e] + 1
    BY <1>10 DEF WindowRuns
<1>12. win[ri + e] = win[ri + 1] + (e - 1)
    BY <1>9, <1>10
<1> DEFINE a == win[ri + 1]  b == win[ri + e]  c == win[ri + 1 + e]
<1>13. a \in Int /\ b = a + (e - 1) /\ c = b + 1 /\ c # a + e
    BY <1>4, <1>5, <1>11, <1>12
<1> HIDE DEF a, b, c
<1> QED
    BY <1>4, <1>13

-----------------------------------------------------------------------------
(* A period takes the first frames of it that the window reaches, and no position
   beyond them. *)
LEMMA Products ==
    ASSUME RsAssumption, RsTypes
    PROVE  /\ \A k \in Nat : k * step \in Nat /\ (k + 1) * step = k * step + step
           /\ \A j, k \in Nat : j <= k => j * step <= k * step
<1>1. step \in Nat
    BY DEF RsAssumption, RsTypes
<1>2. \A k \in Nat, s \in Nat : k * s \in Nat /\ (k + 1) * s = k * s + s
    OBVIOUS
<1>3. \A j, k \in Nat, s \in Nat : j <= k => j * s <= k * s
    OBVIOUS
<1> QED
    BY <1>1, <1>2, <1>3

LEMMA Divided ==
    \A x \in Nat, u \in Nat \ {0} : /\ x \div u \in Nat /\ x % u \in 0..(u - 1)
                                   /\ x = (x \div u) * u + (x % u)
OBVIOUS

LEMMA DividedMonotone ==
    \A x, y \in Nat, u \in Nat \ {0} : x <= y => x \div u <= y \div u
BY Quotient, QuotientMonotone

LEMMA AtType ==
    ASSUME RsAssumption, RsTypes, NEW k \in Nat
    PROVE  /\ Rs!At(k) \in Nat /\ Rs!At(k) \div Unit \in Nat /\ Rs!At(k) % Unit \in 0..(Unit - 1)
           /\ Rs!At(k) = (Rs!At(k) \div Unit) * Unit + (Rs!At(k) % Unit)
           /\ Rs!At(k + 1) = Rs!At(k) + step
<1>1. Rs!At(k) \in Nat /\ Rs!At(k + 1) = Rs!At(k) + step
    <2>1. k * step \in Nat /\ (k + 1) * step = k * step + step
        BY Products
    <2>2. frac \in Nat /\ step \in Nat
        BY DEF RsTypes, RsAssumption
    <2> QED
        BY <2>1, <2>2 DEF Rs!At
<1>2. Unit \in Nat \ {0}
    BY DEF RsAssumption
<1> QED
    BY <1>1, <1>2, Divided

LEMMA ReachesDown ==
    ASSUME RsAssumption, RsTypes, NEW j \in Nat, NEW k \in Nat, j <= k, Rs!Reaches(k)
    PROVE  Rs!Reaches(j)
<1>1. j * step \in Nat /\ k * step \in Nat /\ j * step <= k * step
    BY Products
<1>2. frac \in Nat /\ ri \in Nat /\ win \in Seq(Int) /\ Len(win) \in Nat
    BY LenProperties DEF RsTypes, RsAssumption
<1>3. Rs!At(j) \in Nat /\ Rs!At(k) \in Nat /\ Rs!At(j) <= Rs!At(k)
    BY <1>1, <1>2 DEF Rs!At
<1>4. Unit \in Nat \ {0}
    BY DEF RsAssumption
<1>5. Rs!At(j) \div Unit <= Rs!At(k) \div Unit
    BY <1>3, <1>4, DividedMonotone
<1>6. Rs!At(j) \div Unit \in Nat /\ Rs!At(k) \div Unit \in Nat
    BY <1>3, <1>4, Divided
<1> QED
    BY <1>2, <1>5, <1>6 DEF Rs!Reaches, Rs!WinN

LEMMA SameCount == \A S : Rs!Cardinality(S) = Cardinality(S)
BY DEF Cardinality, Rs!Cardinality

LEMMA ProducedReach ==
    ASSUME RsAssumption, RsTypes
    PROVE  /\ Rs!Produced \in 0..RsPeriod
           /\ Rs!Produced > 0 => Rs!Reaches(Rs!Produced - 1)
<1> DEFINE D == {k \in 0..(RsPeriod - 1) : Rs!Reaches(k)}
           p == Cardinality(D)
<1>1. Rs!Produced = p
    BY SameCount DEF Rs!Produced
<1>2. RsPeriod \in Nat \ {0}
    BY DEF RsAssumption
<1>3. IsFiniteSet(0..(RsPeriod - 1)) /\ Cardinality(0..(RsPeriod - 1)) = RsPeriod
    <2>1. 0 \in Int /\ RsPeriod - 1 \in Int /\ 0 <= RsPeriod - 1
        BY <1>2
    <2>2. RsPeriod - 1 - 0 + 1 = RsPeriod
        BY <1>2
    <2> QED
        BY <2>1, <2>2, FS_Interval
<1>4. p \in Nat /\ p <= RsPeriod
    <2>1. D \subseteq 0..(RsPeriod - 1)
        OBVIOUS
    <2> HIDE DEF D
    <2>2. IsFiniteSet(D) /\ Cardinality(D) <= Cardinality(0..(RsPeriod - 1))
        BY <1>3, <2>1, FS_Subset
    <2>3. Cardinality(D) \in Nat
        BY <2>2, FS_CardinalityType
    <2> QED
        BY <1>3, <2>2, <2>3
<1>5. ASSUME p > 0, ~ Rs!Reaches(p - 1) PROVE FALSE
    <2>1. D \subseteq 0..(p - 2)
        <3> SUFFICES ASSUME NEW k \in D, k > p - 2 PROVE FALSE
            BY <1>4
        <3>1. k \in Nat /\ Rs!Reaches(k)
            OBVIOUS
        <3> HIDE DEF p, D
        <3>2. p - 1 \in Nat /\ p - 1 <= k
            BY <1>4, <1>5, <3>1
        <3> QED
            BY <1>5, <3>1, <3>2, ReachesDown
    <2>2. IsFiniteSet(0..(p - 2)) /\ Cardinality(0..(p - 2)) = p - 1
        <3> HIDE DEF p, D
        <3>1. 0 \in Int /\ p - 2 \in Int
            BY <1>4
        <3>2. IsFiniteSet(0..(p - 2))
              /\ Cardinality(0..(p - 2)) = IF 0 > p - 2 THEN 0 ELSE p - 2 - 0 + 1
            BY <3>1, FS_Interval
        <3> QED
            BY <1>4, <1>5, <3>2
    <2> HIDE DEF D
    <2>3. p <= Cardinality(0..(p - 2))
        BY <2>1, <2>2, FS_Subset
    <2> HIDE DEF p
    <2> QED
        BY <1>4, <2>2, <2>3
<1> HIDE DEF p
<1> QED
    BY <1>1, <1>2, <1>4, <1>5

(* The period leaves the reading position inside the window. *)
LEMMA PullStays ==
    ASSUME RsAssumption, RsTypes
    PROVE  LET q == Rs!At(Rs!Produced) \div Unit
           IN  q \in Nat /\ (Rs!Unconsumed > 0 => ri + q < Len(win)) /\ (q = 0 \/ ri + q < Len(win))
<1> DEFINE p == Rs!Produced
           q == Rs!At(p) \div Unit
<1> SUFFICES q \in Nat /\ (Rs!Unconsumed > 0 => ri + q < Len(win)) /\ (q = 0 \/ ri + q < Len(win))
    OBVIOUS
<1>1. p \in Nat /\ (p > 0 => Rs!Reaches(p - 1))
    BY ProducedReach
<1>2. ri \in Nat /\ frac \in 0..(Unit - 1) /\ Len(win) \in Nat /\ Unit \in Nat \ {0}
      /\ step \in Nat /\ step < 2 * Unit
    <2>1. /\ Unit \in Nat \ {0} /\ StepFine \in Nat /\ StepFine < Unit
        BY DEF RsAssumption
    <2>2. win \in Seq(Int) /\ ri \in Nat /\ frac \in 0..(Unit - 1)
          /\ step \in (Unit - StepFine)..(Unit + StepFine)
        BY DEF RsTypes
    <2>3. Len(win) \in Nat
        BY <2>2, LenProperties
    <2> QED
        BY <2>1, <2>2, <2>3
<1>3. q \in Nat
    BY <1>1, AtType
<1>4. CASE p = 0
    <2>1. Rs!At(p) = frac
        BY <1>2, <1>4 DEF Rs!At
    <2>2. q = 0
        <3>1. \A x \in Nat, u \in Nat \ {0} : x < u => x \div u = 0
            OBVIOUS
        <3> HIDE DEF p
        <3> QED
            BY <1>2, <2>1, <3>1
    <2> HIDE DEF q
    <2> QED
        BY <1>2, <2>2 DEF Rs!Unconsumed, Rs!WinN
<1>5. CASE p > 0
    <2> DEFINE a == Rs!At(p - 1)
    <2> HIDE DEF p
    <2>1. p - 1 \in Nat /\ (p - 1) + 1 = p
        BY <1>1, <1>5
    <2>2. a \in Nat /\ Rs!At(p) = a + step /\ a \div Unit \in Nat
        <3>1. Rs!At((p - 1) + 1) = a + step
            BY <2>1, AtType
        <3> QED
            BY <2>1, <3>1, AtType
    <2>3. ri + a \div Unit + 2 < Len(win)
        BY <1>1, <1>5 DEF Rs!Reaches, Rs!WinN
    <2> HIDE DEF a
    <2>4. q <= a \div Unit + 2
        <3>1. a % Unit \in 0..(Unit - 1) /\ a = (a \div Unit) * Unit + (a % Unit)
            BY <1>2, <2>2, Divided
        <3>2. a + step \in Nat /\ a + step < (a \div Unit + 2) * Unit + Unit
            <4>1. (a \div Unit + 2) * Unit = (a \div Unit) * Unit + 2 * Unit
                BY <1>2, <2>2
            <4>2. (a \div Unit) * Unit \in Nat
                BY <1>2, <2>2
            <4> QED
                BY <1>2, <2>2, <3>1, <4>1, <4>2
        <3>3. q * Unit <= a + step
            <4>1. Rs!At(p) = (Rs!At(p) \div Unit) * Unit + (Rs!At(p) % Unit)
                  /\ Rs!At(p) % Unit \in 0..(Unit - 1)
                BY <1>1, AtType
            <4>2. q * Unit \in Nat
                BY <1>2, <1>3
            <4> HIDE DEF q
            <4>3. Rs!At(p) = q * Unit + (Rs!At(p) % Unit)
                BY <4>1 DEF q
            <4> QED
                BY <1>2, <2>2, <4>1, <4>2, <4>3
        <3> HIDE DEF q
        <3>4. q > a \div Unit + 2 => q * Unit >= (a \div Unit + 2) * Unit + Unit
            <4>1. \A x, y \in Nat, u \in Nat : x > y => x * u >= y * u + u
                OBVIOUS
            <4> QED
                BY <1>2, <1>3, <2>2, <4>1
        <3>5. (a \div Unit + 2) * Unit \in Nat /\ q * Unit \in Nat
            BY <1>2, <1>3, <2>2
        <3> QED
            BY <1>2, <1>3, <2>2, <3>2, <3>3, <3>4, <3>5
    <2> HIDE DEF q
    <2> QED
        BY <1>2, <1>3, <2>2, <2>3, <2>4 DEF Rs!Unconsumed, Rs!WinN
<1> HIDE DEF q
<1> QED
    BY <1>3, <1>4, <1>5, <1>1

-----------------------------------------------------------------------------
(* The ring, filled and dropped from. *)
LEMMA ReadRuns ==
    ASSUME NEW r \in Seq(Int), NEW next \in Int, NEW k \in Nat, RunsTo(r, next)
    PROVE  LET s == r \o [i \in 1..k |-> next + i - 1]
           IN  s \in Seq(Int) /\ Len(s) = Len(r) + k /\ RunsTo(s, next + k)
<1> DEFINE new == [i \in 1..k |-> next + i - 1]
           s == r \o new
<1>1. new \in Seq(Int) /\ Len(new) = k
    OBVIOUS
<1>2. \A i \in 1..k : new[i] = next + i - 1
    OBVIOUS
<1> HIDE DEF new
<1>3. Len(r) \in Nat /\ s \in Seq(Int) /\ Len(s) = Len(r) + k
      /\ \A i \in 1..Len(s) : s[i] = IF i <= Len(r) THEN r[i] ELSE new[i - Len(r)]
    BY <1>1, ConcatProperties, LenProperties
<1> HIDE DEF s
<1>4. ASSUME NEW i \in 1..Len(s) PROVE s[i] = (next + k) - Len(s) + i - 1
    <2>1. CASE i <= Len(r)
        <3>1. i \in 1..Len(r) /\ s[i] = r[i]
            BY <1>3, <2>1
        <3>2. r[i] = next - Len(r) + i - 1
            BY <3>1 DEF RunsTo
        <3> QED
            BY <1>3, <3>1, <3>2
    <2>2. CASE i > Len(r)
        <3>1. i - Len(r) \in 1..k /\ s[i] = new[i - Len(r)]
            BY <1>3, <2>2
        <3>2. new[i - Len(r)] = next + (i - Len(r)) - 1
            BY <1>2, <3>1
        <3> QED
            BY <1>3, <3>1, <3>2
    <2> QED
        BY <1>3, <2>1, <2>2
<1> QED
    BY <1>3, <1>4 DEF s, new, RunsTo

LEMMA Dropping ==
    ASSUME NEW r \in Seq(Int), NEW d \in 0..Len(r)
    PROVE  /\ SubSeq(r, d + 1, Len(r)) \in Seq(Int)
           /\ Len(SubSeq(r, d + 1, Len(r))) = Len(r) - d
           /\ \A i \in 1..(Len(r) - d) : SubSeq(r, d + 1, Len(r))[i] = r[d + i]
<1> DEFINE s == SubSeq(r, d + 1, Len(r))
<1>1. Len(r) \in Nat /\ d \in Nat /\ \A i \in (d + 1)..Len(r) : r[i] \in Int
    BY LenProperties, ElementOfSeq
<1>2. /\ s \in Seq(Int)
      /\ Len(s) = IF d + 1 <= Len(r) THEN Len(r) - (d + 1) + 1 ELSE 0
      /\ \A i \in 1..Len(s) : s[i] = r[d + 1 + i - 1]
    BY <1>1, SubSeqProperties
<1> HIDE DEF s
<1>3. Len(s) = Len(r) - d
    BY <1>1, <1>2
<1>4. \A i \in 1..(Len(r) - d) : d + 1 + i - 1 = d + i
    BY <1>1
<1> QED
    BY <1>2, <1>3, <1>4 DEF s

LEMMA DropRuns ==
    ASSUME NEW r \in Seq(Int), NEW next \in Int, NEW d \in 0..Len(r), RunsTo(r, next)
    PROVE  RunsTo(SubSeq(r, d + 1, Len(r)), next)
<1> DEFINE s == SubSeq(r, d + 1, Len(r))
<1>1. Len(r) \in Nat /\ Len(s) = Len(r) - d /\ \A i \in 1..(Len(r) - d) : s[i] = r[d + i]
    BY Dropping, LenProperties
<1> HIDE DEF s
<1>2. ASSUME NEW i \in 1..Len(s) PROVE s[i] = next - Len(s) + i - 1
    <2>1. d + i \in 1..Len(r) /\ i \in 1..(Len(r) - d)
        BY <1>1
    <2>2. r[d + i] = next - Len(r) + (d + i) - 1
        BY <2>1 DEF RunsTo
    <2> QED
        BY <1>1, <2>1, <2>2
<1> QED
    BY <1>2 DEF s, RunsTo

LEMMA LeastOfThree ==
    \A a, b, c \in Int : \E n \in {a, b, c} : \A m \in {a, b, c} : n <= m
<1> TAKE a, b, c \in Int
<1>1. CASE a <= b /\ a <= c
    BY <1>1
<1>2. CASE b <= a /\ b <= c
    BY <1>2
<1>3. CASE c <= a /\ c <= b
    BY <1>3
<1> QED
    BY <1>1, <1>2, <1>3

(* What goes from the ring into the window fits, all of it. *)
LEMMA TakeFits ==
    ASSUME RsAssumption, RsTypes
    PROVE  /\ Rs!Take \in Int /\ Rs!Take <= Len(queued) /\ Rs!Take <= Window - Len(win) + ri - 4
<1> DEFINE S == {Len(queued), FeedChunk, Window - Rs!Unconsumed - 4}
<1>1. /\ Len(queued) \in Int /\ FeedChunk \in Int /\ Window - Rs!Unconsumed - 4 \in Int
      /\ Window - Rs!Unconsumed - 4 = Window - Len(win) + ri - 4
    BY LenProperties DEF RsAssumption, RsTypes, Rs!Unconsumed, Rs!WinN
<1>2. \E n \in S : \A m \in S : n <= m
    BY <1>1, LeastOfThree
<1>3. Rs!Take = CHOOSE n \in S : \A m \in S : n <= m
    BY DEF Rs!Take, Rs!Smallest
<1>4. Rs!Take \in S /\ \A m \in S : Rs!Take <= m
    <2> HIDE DEF S
    <2> QED
        BY <1>2, <1>3
<1> QED
    BY <1>1, <1>4

(* A feed moves the first t frames of the ring behind the window, and sh frames out
   of its front, none of them still to be played. *)
FeedShape(sh, t) ==
    /\ sh \in Nat /\ t \in Nat \ {0} /\ t <= Len(queued) /\ sh < ri
    /\ ri' = ri - sh /\ win' \in Seq(Int)
    /\ Len(win') = Len(win) - sh + t /\ Len(win) - sh \in Nat /\ Len(win') <= Window
    /\ \A j \in 1..(Len(win) - sh) : win'[j] = win[j + sh]
    /\ \A i \in 1..t : win'[Len(win) - sh + i] = queued[i]
    /\ queued' \in Seq(Int) /\ Len(queued') = Len(queued) - t
    /\ \A i \in 1..(Len(queued) - t) : queued'[i] = queued[t + i]

FeedsOne == /\ Rs!Take > 0
            /\ Rs!Feed(SubSeq(queued, 1, Rs!Take))
            /\ queued' = SubSeq(queued, Rs!Take + 1, Len(queued))

LEMMA FeedShapes ==
    ASSUME RsAssumption, RsTypes, FeedsOne
    PROVE  \E sh : FeedShape(sh, Rs!Take)
<1> DEFINE t == Rs!Take
           n == Len(win)
           frames == SubSeq(queued, 1, t)
<1>1. /\ win \in Seq(Int) /\ queued \in Seq(Int) /\ n \in Nat /\ n <= Window /\ Len(queued) \in Nat
      /\ ri \in Nat \ {0} /\ (ri = 1 \/ ri < n) /\ Window \in Nat
    BY LenProperties DEF RsTypes, RsAssumption
<1>2. t \in Nat \ {0} /\ t <= Len(queued) /\ t <= Window - n + ri - 4
    BY TakeFits DEF FeedsOne
<1>3. frames \in Seq(Int) /\ Len(frames) = t /\ \A i \in 1..t : frames[i] = queued[i]
    <2>1. \A i \in 1..t : queued[i] \in Int
        BY <1>1, <1>2, ElementOfSeq
    <2>2. /\ frames \in Seq(Int) /\ Len(frames) = (IF 1 <= t THEN t - 1 + 1 ELSE 0)
          /\ \A i \in 1..Len(frames) : frames[i] = queued[1 + i - 1]
        <3> HIDE DEF t
        <3> QED
            BY <1>1, <1>2, <2>1, SubSeqProperties
    <2> HIDE DEF t, frames
    <2>3. Len(frames) = t
        BY <1>2, <2>2
    <2>4. \A i \in 1..t : 1 + i - 1 = i
        BY <1>2
    <2> QED
        BY <2>2, <2>3, <2>4
<1>4. /\ queued' \in Seq(Int) /\ Len(queued') = Len(queued) - t
      /\ \A i \in 1..(Len(queued) - t) : queued'[i] = queued[t + i]
    <2>1. queued' = SubSeq(queued, t + 1, Len(queued)) /\ t \in 0..Len(queued)
        BY <1>1, <1>2 DEF FeedsOne
    <2> HIDE DEF t
    <2> QED
        BY <1>1, <2>1, Dropping
<1> DEFINE full == n + Len(frames) > Window
           kept == IF full THEN Rs!Compacted[1] ELSE win
           room == Window - Len(kept)
           fed == SubSeq(frames, 1, IF Len(frames) > room THEN room ELSE Len(frames))
           sh == IF full THEN ri - 1 ELSE 0
<1>5. win' = kept \o fed /\ ri' = IF full THEN 1 ELSE ri
    BY DEF FeedsOne, Rs!Feed, Rs!Compacted, Rs!WinN
<1>6. full => ri < n
    <2> HIDE DEF t, frames
    <2> QED
        BY <1>1, <1>2, <1>3
<1>7. /\ kept \in Seq(Int) /\ Len(kept) = n - sh
      /\ \A j \in 1..(n - sh) : kept[j] = win[j + sh]
    <2>1. CASE full
        <3>1. kept = SubSeq(win, (ri - 1) + 1, n)
            <4>1. kept = Rs!Compacted[1] /\ Rs!Compacted[1] = SubSeq(win, ri, n)
                BY <2>1 DEF Rs!Compacted, Rs!WinN
            <4>2. (ri - 1) + 1 = ri
                BY <1>1
            <4> QED
                BY <4>1, <4>2
        <3>2. ri - 1 \in 0..n /\ sh = ri - 1
            <4>1. sh = ri - 1
                BY <2>1
            <4> HIDE DEF full, kept, sh
            <4> QED
                BY <1>1, <1>6, <2>1, <4>1
        <3> HIDE DEF kept, full, sh, n
        <3>3. /\ kept \in Seq(Int) /\ Len(kept) = n - (ri - 1)
              /\ \A j \in 1..(n - (ri - 1)) : kept[j] = win[(ri - 1) + j]
            BY <1>1, <3>1, <3>2, Dropping DEF n
        <3>4. \A j \in 1..(n - (ri - 1)) : (ri - 1) + j = j + (ri - 1)
            BY <1>1
        <3> QED
            BY <3>2, <3>3, <3>4
    <2>2. CASE ~ full
        <3>1. kept = win /\ sh = 0
            BY <2>2
        <3> HIDE DEF kept, sh, full
        <3> QED
            BY <1>1, <3>1
    <2> QED
        BY <2>1, <2>2
<1>8. sh \in Nat /\ sh < ri /\ ri' = ri - sh /\ n - sh \in Nat
    <2> HIDE DEF full
    <2> QED
        BY <1>1, <1>5, <1>6
<1>9. t <= Window - (n - sh)
    <2>1. CASE full
        BY <1>1, <1>2, <2>1
    <2>2. CASE ~ full
        BY <1>1, <1>2, <1>3, <2>2
    <2> QED
        BY <2>1, <2>2
<1>10. fed = frames
    <2>1. ~ (Len(frames) > room)
        <3> HIDE DEF kept, sh, frames, t, n
        <3> QED
            BY <1>1, <1>2, <1>3, <1>7, <1>8, <1>9
    <2>2. fed = SubSeq(frames, 1, Len(frames))
        BY <2>1
    <2> HIDE DEF fed, frames
    <2> QED
        BY <1>3, <2>2, SubSeqFull
<1> HIDE DEF t, n, frames, full, kept, room, fed, sh
<1>11. /\ win' \in Seq(Int) /\ Len(win') = (n - sh) + t
       /\ \A i \in 1..Len(win') : win'[i] = IF i <= n - sh THEN kept[i] ELSE frames[i - (n - sh)]
    <2>1. win' = kept \o frames
        BY <1>5, <1>10
    <2>2. kept \in Seq(Int) /\ frames \in Seq(Int)
        BY <1>3, <1>7
    <2>3. /\ kept \o frames \in Seq(Int) /\ Len(kept \o frames) = Len(kept) + Len(frames)
          /\ \A i \in 1..(Len(kept) + Len(frames)) : (kept \o frames)[i] =
                IF i <= Len(kept) THEN kept[i] ELSE frames[i - Len(kept)]
        BY <2>2, ConcatProperties
    <2> QED
        BY <1>3, <1>7, <2>1, <2>3
<1>12. \A j \in 1..(n - sh) : win'[j] = win[j + sh]
    <2> TAKE j \in 1..(n - sh)
    <2>1. j \in 1..Len(win') /\ j <= n - sh
        BY <1>2, <1>8, <1>11
    <2> QED
        BY <1>7, <1>11, <2>1
<1>13. \A i \in 1..t : win'[(n - sh) + i] = queued[i]
    <2> TAKE i \in 1..t
    <2> DEFINE j == (n - sh) + i
    <2>1. j \in 1..Len(win') /\ ~ (j <= n - sh) /\ j - (n - sh) = i
        BY <1>2, <1>8, <1>11, SMTT(30)
    <2> HIDE DEF j
    <2>2. win'[j] = frames[j - (n - sh)]
        BY <1>11, <2>1
    <2>3. win'[j] = queued[i]
        BY <1>3, <2>1, <2>2
    <2> QED
        BY <2>3 DEF j
<1>14. Len(win') <= Window
    BY <1>1, <1>2, <1>8, <1>9, <1>11
<1>15. FeedShape(sh, t)
    BY <1>2, <1>4, <1>8, <1>11, <1>12, <1>13, <1>14 DEF FeedShape, n
<1> QED
    BY <1>15 DEF t

-----------------------------------------------------------------------------
(* What a step of the resampler does to the invariant, action by action. *)
LEMMA FeedKeeps ==
    ASSUME RsAssumption, RsInv, Rs!FeedWindow
    PROVE  RsInv'
<1>1. CASE /\ FeedsOne /\ playedSrc' = playedSrc + Rs!Take
           /\ UNCHANGED <<frac, step, arrived, labelled>>
    <2> DEFINE t == Rs!Take
    <2>1. RsTypes
        BY DEF RsInv
    <2>2. PICK sh : FeedShape(sh, t)
        BY <1>1, <2>1, FeedShapes
    <2>3. /\ win \in Seq(Int) /\ queued \in Seq(Int) /\ Len(win) \in Nat /\ Len(queued) \in Nat
          /\ ri \in Nat \ {0} /\ (ri = 1 \/ ri < Len(win)) /\ arrived \in Nat /\ playedSrc \in Int
        BY <2>1, LenProperties DEF RsTypes
    <2> HIDE DEF t
    <2>4. /\ sh \in Nat /\ t \in Nat \ {0} /\ t <= Len(queued) /\ sh < ri /\ ri' = ri - sh
          /\ Len(win') = Len(win) - sh + t /\ Len(win) - sh \in Nat /\ Len(win') <= Window
          /\ win' \in Seq(Int) /\ queued' \in Seq(Int) /\ Len(queued') = Len(queued) - t
        BY <2>2 DEF FeedShape
    <2>5. playedSrc' = playedSrc + t /\ arrived' = arrived /\ labelled' = labelled
          /\ frac' = frac /\ step' = step
        BY <1>1 DEF t
    <2>6. RsTypes'
        <3>1. ri' \in Nat \ {0} /\ (ri' = 1 \/ ri' < Len(win'))
            BY <2>3, <2>4, SMTT(30)
        <3>2. /\ labelled' \in BOOLEAN /\ frac' \in 0..(Unit - 1)
              /\ step' \in (Unit - StepFine)..(Unit + StepFine)
            BY <2>1, <2>5 DEF RsTypes
        <3>3. arrived' \in Nat /\ playedSrc' \in Int
            BY <2>3, <2>4, <2>5
        <3> QED
            BY <2>4, <3>1, <3>2, <3>3 DEF RsTypes
    <2>7. QueueRuns'
        <3>1. queued' = SubSeq(queued, t + 1, Len(queued)) /\ t \in 0..Len(queued)
            BY <1>1, <2>3, <2>4 DEF FeedsOne, t
        <3>2. RunsTo(queued', arrived)
            BY <2>3, <3>1, DropRuns DEF RsInv, QueueRuns
        <3> QED
            BY <2>5, <3>2 DEF QueueRuns, RunsTo
    <2>8. LabelRuns'
        <3>1. playedSrc = arrived - Len(queued) => playedSrc' = arrived' - Len(queued')
            BY <2>3, <2>4, <2>5
        <3> QED
            BY <2>5, <3>1 DEF RsInv, LabelRuns
    <2>9. LastLeft'
        <3> SUFFICES ASSUME Len(queued') = 0 PROVE win'[Len(win')] = arrived' - 1
            BY DEF LastLeft
        <3>1. t = Len(queued) /\ t \in 1..t /\ t \in 1..Len(queued)
            BY <2>3, <2>4
        <3>2. win'[Len(win')] = queued[t]
            BY <2>2, <2>4, <3>1 DEF FeedShape
        <3>3. queued[t] = arrived - Len(queued) + t - 1
            BY <3>1 DEF RsInv, QueueRuns, RunsTo
        <3> QED
            BY <2>3, <2>5, <3>1, <3>2, <3>3
    <2> QED
        BY <2>6, <2>7, <2>8, <2>9 DEF RsInv
<1>2. CASE UNCHANGED <<win, ri, queued, playedSrc, frac, step, arrived, labelled>>
    BY <1>2 DEF RsInv, RsTypes, QueueRuns, RunsTo, LabelRuns, LastLeft
<1> QED
    BY <1>1, <1>2 DEF Rs!FeedWindow, FeedsOne

LEMMA ReadKeeps ==
    ASSUME RsAssumption, RsInv, NEW k \in Nat, Rs!ReadFrames(k)
    PROVE  RsInv'
<1>1. /\ win' = win /\ ri' = ri /\ frac' = frac /\ step' = step /\ arrived' = arrived + k
      /\ queued' = queued \o [i \in 1..k |-> arrived + i - 1]
      /\ Rs!Label(queued', arrived')
    BY DEF Rs!ReadFrames
<1>2. /\ win \in Seq(Int) /\ queued \in Seq(Int) /\ Len(queued) \in Nat
      /\ arrived \in Nat /\ playedSrc \in Int /\ labelled \in BOOLEAN
    BY LenProperties DEF RsInv, RsTypes
<1>3. queued' \in Seq(Int) /\ Len(queued') = Len(queued) + k /\ RunsTo(queued', arrived + k)
    BY <1>1, <1>2, ReadRuns DEF RsInv, QueueRuns
<1>4. \/ labelled' = TRUE /\ playedSrc' = arrived' - Len(queued') /\ playedSrc' \in Int
      \/ labelled' = labelled /\ playedSrc' = playedSrc
    BY <1>1, <1>2, <1>3 DEF Rs!Label
<1>5. RsTypes'
    <2>1. labelled' \in BOOLEAN
        BY <1>2, <1>4
    <2>2. playedSrc' \in Int /\ arrived' \in Nat
        BY <1>1, <1>2, <1>4
    <2> QED
        BY <1>1, <1>3, <2>1, <2>2 DEF RsInv, RsTypes
<1>6. QueueRuns'
    BY <1>1, <1>3 DEF QueueRuns, RunsTo
<1>7. LabelRuns'
    <2>1. labelled => playedSrc = arrived - Len(queued)
        BY DEF RsInv, LabelRuns
    <2>2. arrived' - Len(queued') = arrived - Len(queued)
        BY <1>1, <1>2, <1>3
    <2> QED
        BY <1>4, <2>1, <2>2 DEF LabelRuns
<1>8. LastLeft'
    <2> SUFFICES ASSUME Len(queued') = 0, Len(win') > 0 PROVE win'[Len(win')] = arrived' - 1
        BY DEF LastLeft
    <2>1. Len(queued) = 0 /\ arrived' = arrived
        BY <1>1, <1>2, <1>3
    <2> QED
        BY <1>1, <2>1 DEF RsInv, LastLeft
<1> QED
    BY <1>5, <1>6, <1>7, <1>8 DEF RsInv

LEMMA ReanchorKeeps ==
    ASSUME RsAssumption, RsInv, NEW k \in Nat, Rs!Reanchor(k)
    PROVE  RsInv'
<1> DEFINE all == queued \o [i \in 1..k |-> arrived + i - 1]
           over == IF Len(all) > RingCap THEN Len(all) - RingCap ELSE 0
<1>1. /\ win' = win /\ ri' = ri /\ frac' = frac /\ step' = Unit /\ arrived' = arrived + k
      /\ queued' = SubSeq(all, over + 1, Len(all)) /\ k > 0
      /\ labelled' = TRUE /\ playedSrc' = arrived' - Len(queued')
    BY DEF Rs!Reanchor
<1>2. /\ queued \in Seq(Int) /\ Len(queued) \in Nat /\ arrived \in Nat /\ RingCap \in Nat \ {0}
      /\ Unit \in Nat /\ StepFine \in Nat
    BY LenProperties DEF RsInv, RsTypes, RsAssumption
<1>3. all \in Seq(Int) /\ Len(all) = Len(queued) + k /\ RunsTo(all, arrived + k)
    BY <1>2, ReadRuns DEF RsInv, QueueRuns
<1> HIDE DEF all
<1>4. over \in 0..Len(all) /\ Len(all) - over > 0
    <2>1. k > 0 /\ Len(all) \in Nat /\ Len(all) > 0
        BY <1>1, <1>2, <1>3
    <2> QED
        BY <1>2, <2>1
<1> HIDE DEF over
<1>5. queued' \in Seq(Int) /\ Len(queued') = Len(all) - over /\ RunsTo(queued', arrived + k)
    <2>1. arrived + k \in Int
        BY <1>2
    <2> QED
        BY <1>1, <1>3, <1>4, <2>1, Dropping, DropRuns
<1>6. Len(queued') \in Nat /\ Len(queued') > 0
    BY <1>3, <1>4, <1>5, <1>2
<1>7. RsTypes'
    <2>1. arrived' \in Nat /\ playedSrc' \in Int
        <3>1. arrived' = arrived + k /\ playedSrc' = arrived' - Len(queued')
            BY <1>1
        <3> QED
            BY <1>2, <1>6, <3>1
    <2>2. step' \in (Unit - StepFine)..(Unit + StepFine)
        BY <1>1, <1>2
    <2>3. labelled' \in BOOLEAN
        BY <1>1
    <2> QED
        BY <1>1, <1>5, <2>1, <2>2, <2>3 DEF RsInv, RsTypes
<1>8. QueueRuns'
    BY <1>1, <1>5 DEF QueueRuns, RunsTo
<1>9. LabelRuns' /\ LastLeft'
    <2>1. LabelRuns'
        BY <1>1 DEF LabelRuns
    <2>2. ~ (Len(queued') = 0)
        BY <1>6
    <2> QED
        BY <2>1, <2>2 DEF LastLeft
<1> QED
    BY <1>7, <1>8, <1>9 DEF RsInv

LEMMA TrimStays ==
    ASSUME RsAssumption, RsTypes, NEW d \in Int
    PROVE  Rs!Trimmed(d) \in (Unit - StepFine)..(Unit + StepFine)
<1>1. Unit \in Nat /\ StepFine \in Nat /\ Slew \in Nat /\ step \in (Unit - StepFine)..(Unit + StepFine)
    BY DEF RsAssumption, RsTypes
<1>2. \A x \in Int, b \in Nat : /\ Rs!Clamp(x, b) \in (-b)..b
                               /\ (x >= 0 => 0 <= Rs!Clamp(x, b) /\ Rs!Clamp(x, b) <= x)
                               /\ (x < 0 => x <= Rs!Clamp(x, b) /\ Rs!Clamp(x, b) <= 0)
    BY DEF Rs!Clamp
<1> DEFINE c == Rs!Clamp(d, StepFine)
           x == Unit + c - step
           e == Rs!Clamp(x, Slew)
<1>3. c \in (-StepFine)..StepFine
    BY <1>1, <1>2
<1> HIDE DEF c
<1>4. x \in Int
    BY <1>1, <1>3
<1>5. Rs!Trimmed(d) = step + e
    BY DEF Rs!Trimmed, c
<1> HIDE DEF x
<1>6. /\ e \in (-Slew)..Slew
      /\ (x >= 0 => 0 <= e /\ e <= x) /\ (x < 0 => x <= e /\ e <= 0)
    BY <1>1, <1>2, <1>4
<1> HIDE DEF e
<1>7. e \in Int
    BY <1>1, <1>6
<1> QED
    BY <1>1, <1>3, <1>4, <1>5, <1>6, <1>7 DEF x

LEMMA ServoKeeps ==
    ASSUME RsAssumption, RsInv, Rs!Servo
    PROVE  RsInv'
<1>1. UNCHANGED <<win, ri, frac, arrived, labelled>>
    BY DEF Rs!Servo
<1>2. /\ queued \in Seq(Int) /\ Len(queued) \in Nat /\ arrived \in Nat /\ playedSrc \in Int
      /\ Unit \in Nat /\ StepFine \in Nat /\ RingFloor \in Nat \ {0}
    BY LenProperties DEF RsInv, RsTypes, RsAssumption
<1>3. CASE labelled /\ Rs!SnapBehind
    <2>1. PICK d \in 0..Len(queued) :
            /\ d <= Len(queued) - RingFloor \/ d = 0
            /\ queued' = SubSeq(queued, d + 1, Len(queued))
            /\ playedSrc' = playedSrc + d /\ step' = Unit
        BY <1>3 DEF Rs!SnapBehind, Rs!DropCounted
    <2>2. queued' \in Seq(Int) /\ Len(queued') = Len(queued) - d /\ RunsTo(queued', arrived)
        BY <1>2, <2>1, Dropping, DropRuns DEF RsInv, QueueRuns
    <2>3. RsTypes'
        <3>1. playedSrc' \in Int /\ step' \in (Unit - StepFine)..(Unit + StepFine)
            BY <1>2, <2>1
        <3> QED
            BY <1>1, <2>2, <3>1 DEF RsInv, RsTypes
    <2>4. QueueRuns'
        BY <1>1, <2>2 DEF QueueRuns, RunsTo
    <2>5. LabelRuns'
        <3>1. playedSrc = arrived - Len(queued)
            BY <1>3 DEF RsInv, LabelRuns
        <3>2. arrived' = arrived /\ d \in Int
            BY <1>1, <1>2
        <3>3. arrived - Len(queued) + d = arrived - (Len(queued) - d)
            BY <1>2, <3>2
        <3>4. playedSrc' = arrived' - Len(queued')
            BY <2>1, <2>2, <3>1, <3>2, <3>3
        <3> QED
            BY <3>4 DEF LabelRuns
    <2>6. LastLeft'
        <3> SUFFICES ASSUME Len(queued') = 0, Len(win') > 0 PROVE win'[Len(win')] = arrived' - 1
            BY DEF LastLeft
        <3>1. Len(queued) = 0
            BY <1>2, <2>1, <2>2
        <3> QED
            BY <1>1, <3>1 DEF RsInv, LastLeft
    <2> QED
        BY <2>3, <2>4, <2>5, <2>6 DEF RsInv
<1>4. CASE /\ queued' = queued /\ playedSrc' = playedSrc
           /\ step' \in (Unit - StepFine)..(Unit + StepFine)
    BY <1>1, <1>4 DEF RsInv, RsTypes, QueueRuns, RunsTo, LabelRuns, LastLeft
<1>5. ASSUME Rs!SnapAhead PROVE queued' = queued /\ playedSrc' = playedSrc
                               /\ step' \in (Unit - StepFine)..(Unit + StepFine)
    BY <1>2, <1>5 DEF Rs!SnapAhead
<1>6. ASSUME Rs!Trim PROVE queued' = queued /\ playedSrc' = playedSrc
                          /\ step' \in (Unit - StepFine)..(Unit + StepFine)
    <2>1. PICK d \in (-(StepFine + 1))..(StepFine + 1) :
              step' = Rs!Trimmed(d) /\ UNCHANGED <<queued, playedSrc>>
        BY <1>6 DEF Rs!Trim
    <2>2. d \in Int /\ RsTypes
        BY <1>2 DEF RsInv
    <2> QED
        BY <2>1, <2>2, TrimStays
<1>7. ASSUME UNCHANGED <<queued, playedSrc, step>>
      PROVE  queued' = queued /\ playedSrc' = playedSrc
             /\ step' \in (Unit - StepFine)..(Unit + StepFine)
    BY <1>7 DEF RsInv, RsTypes
<1> QED
    BY <1>3, <1>4, <1>5, <1>6, <1>7 DEF Rs!Servo

LEMMA OutputKeeps ==
    ASSUME RsAssumption, RsInv, Rs!Output
    PROVE  RsInv'
<1>1. UNCHANGED <<win, step, queued, arrived, playedSrc, labelled>>
    BY DEF Rs!Output
<1>2. CASE /\ ri' = ri + Rs!At(Rs!Produced) \div Unit
           /\ frac' = Rs!At(Rs!Produced) % Unit
    <2> DEFINE q == Rs!At(Rs!Produced) \div Unit
    <2>1. q \in Nat /\ (q = 0 \/ ri + q < Len(win)) /\ frac' \in 0..(Unit - 1)
        <3>1. Rs!Produced \in Nat
            BY ProducedReach DEF RsInv, RsAssumption
        <3>2. frac' \in 0..(Unit - 1)
            BY <1>2, <3>1, AtType DEF RsInv
        <3> QED
            BY <3>2, PullStays DEF RsInv
    <2> HIDE DEF q
    <2>2. ri' = ri + q
        BY <1>2 DEF q
    <2>3. win' = win /\ ri \in Nat \ {0} /\ (ri = 1 \/ ri < Len(win)) /\ Len(win) \in Nat
        BY <1>1, LenProperties DEF RsInv, RsTypes
    <2>4. ri' \in Nat \ {0} /\ (ri' = 1 \/ ri' < Len(win'))
        BY <2>1, <2>2, <2>3
    <2> QED
        BY <1>1, <2>1, <2>4 DEF RsInv, RsTypes, QueueRuns, RunsTo, LabelRuns, LastLeft
<1>3. CASE UNCHANGED <<ri, frac>>
    BY <1>1, <1>3 DEF RsInv, RsTypes, QueueRuns, RunsTo, LabelRuns, LastLeft
<1> QED
    BY <1>2, <1>3 DEF Rs!Output

LEMMA RsStepInv ==
    ASSUME RsAssumption, RsInv, Rs!RsNext
    PROVE  RsInv'
<1>1. CASE \E k \in Reads : Rs!ReadFrames(k) \/ Rs!Reanchor(k)
    <2>1. PICK k \in Reads : Rs!ReadFrames(k) \/ Rs!Reanchor(k)
        BY <1>1
    <2>2. k \in Nat
        BY DEF RsAssumption
    <2> QED
        BY <2>1, <2>2, ReadKeeps, ReanchorKeeps
<1>2. CASE Rs!ReadNothing
    BY <1>2 DEF Rs!ReadNothing, RsInv, RsTypes, QueueRuns, RunsTo, LabelRuns, LastLeft
<1>3. CASE Rs!FeedWindow \/ Rs!Servo \/ Rs!Output
    BY <1>3, FeedKeeps, ServoKeeps, OutputKeeps
<1> QED
    BY <1>1, <1>2, <1>3 DEF Rs!RsNext

LEMMA RsInvariant == RsAssumption => (StreamsSpec => []RsInv)
<1> SUFFICES ASSUME RsAssumption PROVE StreamsSpec => []RsInv
    OBVIOUS
<1>1. StreamsInit => RsInv
    <2> SUFFICES ASSUME StreamsInit PROVE RsInv
        OBVIOUS
    <2>1. /\ win = <<>> /\ ri = 1 /\ frac = 0 /\ step = Unit /\ queued = <<>>
          /\ arrived = 0 /\ playedSrc = 0 /\ labelled = FALSE
        BY DEF StreamsInit, Rs!RsInit
    <2>2. <<>> \in Seq(Int) /\ Len(<<>>) = 0
        OBVIOUS
    <2>3. Unit \in Nat \ {0} /\ StepFine \in Nat /\ Window \in Nat
        BY DEF RsAssumption
    <2>4. RsTypes
        <3>1. labelled \in BOOLEAN
            BY <2>1
        <3>2. ri \in Nat \ {0} /\ frac \in 0..(Unit - 1) /\ step \in (Unit - StepFine)..(Unit + StepFine)
            BY <2>1, <2>3
        <3> QED
            BY <2>1, <2>2, <2>3, <3>1, <3>2 DEF RsTypes
    <2> QED
        BY <2>1, <2>2, <2>4 DEF RsInv, QueueRuns, RunsTo, LabelRuns, LastLeft
<1>2. RsInv /\ [StreamsNext]_allVars => RsInv'
    <2> SUFFICES ASSUME RsInv, [StreamsNext]_allVars PROVE RsInv'
        OBVIOUS
    <2>1. CASE UNCHANGED rsState
        BY <2>1 DEF rsState, RsInv, RsTypes, QueueRuns, RunsTo, LabelRuns, LastLeft
    <2> QED
        BY <2>1, RsStepInv, StepOfResampler
<1> QED
    BY <1>1, <1>2, PTL DEF StreamsSpec

LEMMA RsLabel ==
    ASSUME RsInv
    PROVE  LabelHonest
<1> SUFFICES ASSUME labelled, Rs!Unconsumed > 0, NoSplice
             PROVE  win[ri + 1] = playedSrc - Rs!Unconsumed
    BY DEF LabelHonest
<1>1. /\ win \in Seq(Int) /\ Len(win) \in Nat /\ Len(queued) \in Nat /\ ri \in Nat \ {0}
      /\ arrived \in Nat /\ playedSrc \in Int
    BY LenProperties DEF RsInv, RsTypes
<1>2. WindowRuns /\ Abuts
    BY SpliceMeans
<1>3. Rs!Unconsumed = Len(win) - ri /\ Len(win) > ri
    BY <1>1 DEF Rs!Unconsumed, Rs!WinN
<1>4. win[ri + 1] \in Int /\ win[Len(win)] \in Int
    BY <1>1, <1>3, ElementOfSeq
<1> DEFINE d == Len(win) - ri - 1
<1>5. d \in Nat /\ ri + 1 + d = Len(win)
    BY <1>1, <1>3
<1>6. win[Len(win)] = win[ri + 1] + d
    <2> HIDE DEF d
    <2>1. win[ri + 1 + d] = win[ri + 1] + d
        BY <1>1, <1>2, <1>5, RunOn DEF RsInv
    <2> QED
        BY <1>5, <2>1
<1>7. playedSrc = arrived - Len(queued)
    BY DEF RsInv, LabelRuns
<1>8. win[Len(win)] = playedSrc - 1
    <2>1. CASE Len(queued) = 0
        BY <1>1, <1>3, <1>7, <2>1 DEF RsInv, LastLeft
    <2>2. CASE Len(queued) > 0
        <3>1. 1 \in 1..Len(queued)
            BY <1>1, <2>2
        <3>2. queued[1] = arrived - Len(queued) + 1 - 1
            BY <3>1 DEF RsInv, QueueRuns, RunsTo
        <3>3. queued[1] = win[Len(win)] + 1
            BY <1>2, <1>3, <2>2 DEF Abuts
        <3> DEFINE w == win[Len(win)]
                   l == Len(queued)
        <3>4. w \in Int /\ l \in Int /\ playedSrc = arrived - l /\ w + 1 = arrived - l + 1 - 1
            BY <1>1, <1>4, <1>7, <3>2, <3>3
        <3> HIDE DEF w, l
        <3>5. w = playedSrc - 1
            BY <1>1, <3>4
        <3> QED
            BY <3>5 DEF w
    <2> QED
        BY <1>1, <2>1, <2>2
<1> DEFINE x == win[ri + 1]
           w == win[Len(win)]
           l == Len(win)
<1>9. /\ x \in Int /\ w \in Int /\ l \in Int /\ ri \in Int /\ playedSrc \in Int
      /\ w = x + (l - ri - 1) /\ w = playedSrc - 1
    BY <1>1, <1>4, <1>6, <1>8
<1> HIDE DEF x, w, l
<1>10. x = playedSrc - (l - ri)
    BY <1>9
<1> QED
    BY <1>3, <1>10 DEF x, l

-----------------------------------------------------------------------------
LEMMA SpliceMeansNext == RsInv' => (NoSplice' <=> (WindowRuns' /\ Abuts'))
<1>1. RsInv => (NoSplice <=> (WindowRuns /\ Abuts))
    BY SpliceMeans
<1> QED
    BY <1>1, PTL

(* What Seamless says of a step. *)
SeamStep ==
    /\ NoSplice /\ rsStage \notin {"drain", "servo"} => NoSplice'
    /\ Rs!Unconsumed > 0 /\ NoSplice =>
         \/ Position' = Position /\ rsOut' \in {rsOut, <<>>}
         \/ /\ \A k \in 1..RsPeriod : rsOut'[k] \in {Position + (k - 1) * step, Rs!Stale}
            /\ Position' = Position + Rs!Produced * step

LEMMA FeedSeam ==
    ASSUME RsAssumption, RsInv, RsInv', Rs!FeedWindow
    PROVE  SeamStep
<1>1. CASE FeedsOne /\ UNCHANGED <<frac, rsOut, arrived>>
    <2> DEFINE t == Rs!Take
    <2>1. RsTypes
        BY DEF RsInv
    <2>2. PICK sh : FeedShape(sh, t)
        BY <1>1, <2>1, FeedShapes
    <2> HIDE DEF t
    <2>3. /\ win \in Seq(Int) /\ queued \in Seq(Int) /\ Len(win) \in Nat /\ Len(queued) \in Nat
          /\ ri \in Nat \ {0} /\ (ri = 1 \/ ri < Len(win)) /\ arrived \in Nat
        BY <2>1, LenProperties DEF RsTypes
    <2>4. /\ sh \in Nat /\ t \in Nat \ {0} /\ t <= Len(queued) /\ sh < ri /\ ri' = ri - sh
          /\ Len(win') = Len(win) - sh + t /\ Len(win) - sh \in Nat
          /\ Len(queued') = Len(queued) - t
        BY <2>2 DEF FeedShape
    <2> DEFINE l == Len(win) - sh
    <2>5. /\ \A j \in 1..l : win'[j] = win[j + sh]
          /\ \A i \in 1..t : win'[l + i] = queued[i]
          /\ \A i \in 1..(Len(queued) - t) : queued'[i] = queued[t + i]
        BY <2>2 DEF FeedShape
    <2>6. l \in Nat /\ l + sh = Len(win) /\ Len(win') = l + t
        BY <2>3, <2>4
    <2>7. \A i \in 1..Len(queued) : queued[i] = arrived - Len(queued) + i - 1
        BY DEF RsInv, QueueRuns, RunsTo
    <2> HIDE DEF l
    <2>8. ASSUME NoSplice PROVE NoSplice'
        <3>1. WindowRuns /\ Abuts
            BY <2>8, SpliceMeans
        <3>2. ASSUME NEW j \in (ri' + 1)..(Len(win') - 1) PROVE win'[j + 1] = win'[j] + 1
            <4>1. CASE j < l
                <5>1. j \in 1..l /\ j + 1 \in 1..l /\ j + sh \in (ri + 1)..(Len(win) - 1)
                      /\ j + sh + 1 = (j + 1) + sh
                    BY <2>3, <2>4, <2>6, <4>1
                <5>2. win[j + sh + 1] = win[j + sh] + 1
                    BY <3>1, <5>1 DEF WindowRuns
                <5> QED
                    BY <2>5, <5>1, <5>2
            <4>2. CASE j = l
                <5>1. /\ j \in 1..l /\ 1 \in 1..t /\ j + sh = Len(win) /\ Len(win) > ri
                      /\ Len(queued) > 0
                    BY <2>3, <2>4, <2>6, <4>2
                <5>2. win'[j] = win[Len(win)] /\ win'[j + 1] = queued[1]
                    BY <2>5, <4>2, <5>1
                <5> QED
                    BY <3>1, <5>1, <5>2 DEF Abuts
            <4>3. CASE j > l
                <5>1. /\ j - l \in 1..t /\ j - l + 1 \in 1..t
                      /\ l + (j - l) = j /\ l + (j - l + 1) = j + 1
                      /\ j - l \in 1..Len(queued) /\ j - l + 1 \in 1..Len(queued)
                    BY <2>3, <2>4, <2>6, <4>3
                <5>2. win'[j] = queued[j - l] /\ win'[j + 1] = queued[j - l + 1]
                    BY <2>5, <5>1
                <5>3. /\ queued[j - l] = arrived - Len(queued) + (j - l) - 1
                      /\ queued[j - l + 1] = arrived - Len(queued) + (j - l + 1) - 1
                    BY <2>7, <5>1
                <5> QED
                    BY <2>3, <2>6, <5>2, <5>3
            <4>4. j \in Int /\ l \in Int
                BY <2>6
            <4> QED
                BY <4>1, <4>2, <4>3, <4>4
        <3>3. ASSUME Len(win') > ri', Len(queued') > 0 PROVE queued'[1] = win'[Len(win')] + 1
            <4>1. /\ 1 \in 1..(Len(queued) - t) /\ t \in 1..t /\ t \in 1..Len(queued)
                  /\ t + 1 \in 1..Len(queued) /\ l + t = Len(win')
                <5>1. Len(queued) - t > 0
                    BY <2>4, <3>3
                <5>2. \A n \in Nat, x \in Nat \ {0} : n - x > 0 =>
                          /\ 1 \in 1..(n - x) /\ x \in 1..x /\ x \in 1..n /\ x + 1 \in 1..n
                    OBVIOUS
                <5>3. Len(queued) \in Nat /\ t \in Nat \ {0} /\ l + t = Len(win')
                    BY <2>3, <2>4, <2>6
                <5> QED
                    BY <5>1, <5>2, <5>3
            <4>2. queued'[1] = queued[t + 1] /\ win'[Len(win')] = queued[t]
                BY <2>5, <4>1
            <4>3. /\ queued[t + 1] = arrived - Len(queued) + (t + 1) - 1
                  /\ queued[t] = arrived - Len(queued) + t - 1
                BY <2>7, <4>1
            <4> QED
                BY <2>3, <2>4, <4>2, <4>3
        <3> QED
            BY <3>2, <3>3, SpliceMeansNext DEF WindowRuns, Abuts
    <2>9. ASSUME Rs!Unconsumed > 0 PROVE Position' = Position
        <3>1. Len(win) > ri
            BY <2>3, <2>9 DEF Rs!Unconsumed, Rs!WinN
        <3>2. ri' + 1 \in 1..l /\ ri' + 1 + sh = ri + 1
            BY <2>3, <2>4, <2>6, <3>1
        <3>3. win'[ri' + 1] = win[ri + 1]
            BY <2>5, <3>2
        <3>4. frac' = frac
            BY <1>1
        <3> QED
            BY <3>3, <3>4 DEF Position
    <2>10. rsOut' = rsOut
        BY <1>1
    <2> QED
        BY <2>8, <2>9, <2>10 DEF SeamStep
<1>2. CASE UNCHANGED <<win, ri, frac, queued, rsOut>>
    BY <1>2 DEF SeamStep, NoSplice, Upcoming, Position
<1> QED
    BY <1>1, <1>2 DEF Rs!FeedWindow, FeedsOne

LEMMA OutputSeam ==
    ASSUME RsAssumption, RsInv, RsInv', Rs!Output
    PROVE  SeamStep
<1>1. win' = win /\ queued' = queued
    BY DEF Rs!Output
<1>2. CASE UNCHANGED <<ri, frac>> /\ rsOut' = <<>>
    BY <1>1, <1>2 DEF SeamStep, NoSplice, Upcoming, Position
<1>3. CASE /\ Rs!Unconsumed >= RsPeriod + 3
           /\ rsOut' = [k \in 1..RsPeriod |->
                          IF Rs!Reaches(k - 1)
                          THEN win[ri + Rs!At(k - 1) \div Unit + 1] * Unit + (Rs!At(k - 1) % Unit)
                          ELSE Rs!Stale]
           /\ ri' = ri + Rs!At(Rs!Produced) \div Unit
           /\ frac' = Rs!At(Rs!Produced) % Unit
    <2> DEFINE p == Rs!Produced
               q == Rs!At(p) \div Unit
    <2>1. /\ win \in Seq(Int) /\ Len(win) \in Nat /\ ri \in Nat \ {0} /\ RsTypes
          /\ frac \in Int /\ step \in Int /\ Unit \in Nat \ {0}
        BY LenProperties DEF RsInv, RsTypes, RsAssumption
    <2>2. p \in Nat
        BY <2>1, ProducedReach DEF RsAssumption
    <2>3. q \in Nat /\ (Rs!Unconsumed > 0 => ri + q < Len(win))
        BY <2>1, PullStays
    <2>4. ASSUME NoSplice PROVE NoSplice'
        <3>1. WindowRuns /\ Abuts
            BY <2>4, SpliceMeans
        <3>2. ri' = ri + q
            BY <1>3
        <3> HIDE DEF q, p
        <3>3. \A j \in (ri' + 1)..(Len(win) - 1) : j \in (ri + 1)..(Len(win) - 1)
            BY <2>1, <2>3, <3>2
        <3>4. Len(win) > ri' => Len(win) > ri
            BY <2>1, <2>3, <3>2
        <3>5. WindowRuns' /\ Abuts'
            BY <1>1, <3>1, <3>3, <3>4 DEF WindowRuns, Abuts
        <3> QED
            BY <3>5, SpliceMeansNext
    <2>5. ASSUME Rs!Unconsumed > 0, NoSplice
          PROVE  /\ \A k \in 1..RsPeriod : rsOut'[k] \in {Position + (k - 1) * step, Rs!Stale}
                 /\ Position' = Position + Rs!Produced * step
        <3>1. WindowRuns
            BY <2>5, SpliceMeans
        <3>2. Position = win[ri + 1] * Unit + frac /\ win[ri + 1] \in Int
            <4>1. ri + 1 \in 1..Len(win)
                BY <2>1, <2>5 DEF Rs!Unconsumed, Rs!WinN
            <4> QED
                BY <2>1, <4>1, ElementOfSeq DEF Position
        <3>3. ASSUME NEW k \in Nat, ri + Rs!At(k) \div Unit < Len(win)
              PROVE  win[ri + Rs!At(k) \div Unit + 1] * Unit + (Rs!At(k) % Unit) = Position + k * step
            <4> DEFINE d == Rs!At(k) \div Unit
                       r == Rs!At(k) % Unit
                       x == win[ri + 1]
            <4>1. d \in Nat /\ r \in Int /\ Rs!At(k) = d * Unit + r
                <5>1. d \in Nat /\ r \in 0..(Unit - 1) /\ Rs!At(k) = d * Unit + r
                    BY <2>1, AtType
                <5> HIDE DEF d, r
                <5> QED
                    BY <2>1, <5>1
            <4>2. Rs!At(k) = frac + k * step
                BY DEF Rs!At
            <4>3. k * step \in Int
                BY <2>1, Products
            <4>4. ri + 1 + d <= Len(win)
                BY <2>1, <3>3, <4>1
            <4> HIDE DEF d, r
            <4>5. win[ri + 1 + d] = x + d
                BY <2>1, <3>1, <4>1, <4>4, RunOn
            <4>6. ri + 1 + d = ri + d + 1
                BY <2>1, <4>1
            <4>7. x \in Int
                BY <3>2
            <4> HIDE DEF x
            <4>8. (x + d) * Unit = x * Unit + d * Unit /\ x * Unit \in Int /\ d * Unit \in Int
                BY <2>1, <4>1, <4>7
            <4>9. Position = x * Unit + frac
                BY <3>2 DEF x
            <4> DEFINE ks == k * step
                       xu == x * Unit
                       du == d * Unit
                       xd == (x + d) * Unit
            <4>10. /\ Rs!At(k) = du + r /\ Rs!At(k) = frac + ks /\ ks \in Int /\ xu \in Int /\ du \in Int
                   /\ xd = xu + du /\ Position = xu + frac
                BY <4>1, <4>2, <4>3, <4>8, <4>9
            <4> HIDE DEF ks, xu, du, xd
            <4>11. xd + r = Position + ks
                BY <2>1, <4>1, <4>10
            <4> QED
                BY <4>5, <4>6, <4>11 DEF d, r, ks, xd
        <3>4. ASSUME NEW k \in 1..RsPeriod
              PROVE  rsOut'[k] \in {Position + (k - 1) * step, Rs!Stale}
            <4>1. k - 1 \in Nat
                BY DEF RsAssumption
            <4>2. rsOut'[k] = IF Rs!Reaches(k - 1)
                              THEN win[ri + Rs!At(k - 1) \div Unit + 1] * Unit + (Rs!At(k - 1) % Unit)
                              ELSE Rs!Stale
                BY <1>3
            <4>3. Rs!At(k - 1) \div Unit \in Nat
                BY <2>1, <4>1, AtType
            <4>4. Rs!Reaches(k - 1) => ri + Rs!At(k - 1) \div Unit < Len(win)
                BY <2>1, <4>3 DEF Rs!Reaches, Rs!WinN
            <4>5. Rs!Reaches(k - 1) =>
                     win[ri + Rs!At(k - 1) \div Unit + 1] * Unit + (Rs!At(k - 1) % Unit)
                        = Position + (k - 1) * step
                BY <3>3, <4>1, <4>4
            <4> QED
                BY <4>2, <4>5
        <3>5. Position' = Position + p * step
            <4>1. ri + Rs!At(p) \div Unit < Len(win)
                BY <2>3, <2>5
            <4>2. win[ri + Rs!At(p) \div Unit + 1] * Unit + (Rs!At(p) % Unit) = Position + p * step
                BY <2>2, <3>3, <4>1
            <4>3. Position' = win[ri + Rs!At(p) \div Unit + 1] * Unit + (Rs!At(p) % Unit)
                BY <1>1, <1>3 DEF Position
            <4> QED
                BY <4>2, <4>3
        <3> QED
            BY <3>4, <3>5
    <2> QED
        BY <2>4, <2>5 DEF SeamStep
<1> QED
    BY <1>2, <1>3 DEF Rs!Output, Rs!Unconsumed

LEMMA OtherSeams ==
    ASSUME \/ Rs!Servo \/ Rs!ReadNothing
           \/ \E k \in Reads : Rs!ReadFrames(k) \/ Rs!Reanchor(k)
    PROVE  SeamStep
<1>1. Rs!Servo => rsStage = "servo" /\ UNCHANGED <<win, ri, frac, rsOut>>
    BY DEF Rs!Servo
<1>2. ASSUME NEW k PROVE Rs!ReadFrames(k) => rsStage = "drain" /\ UNCHANGED <<win, ri, frac, rsOut>>
    BY DEF Rs!ReadFrames
<1>3. ASSUME NEW k PROVE Rs!Reanchor(k) => rsStage = "drain" /\ UNCHANGED <<win, ri, frac, rsOut>>
    BY DEF Rs!Reanchor
<1>4. Rs!ReadNothing => rsStage = "drain" /\ UNCHANGED <<win, ri, frac, rsOut>>
    BY DEF Rs!ReadNothing
<1>5. rsStage \in {"drain", "servo"} /\ UNCHANGED <<win, ri, frac, rsOut>>
    BY <1>1, <1>2, <1>3, <1>4
<1> QED
    BY <1>5 DEF SeamStep, Position

(* For windows, periods and steps of any size: every period starts where the one
   before it ended, and only a re-anchor or a snap of the servo makes a seam. *)
THEOREM SeamlessTheorem == RsAssumption => (StreamsSpec => Seamless)
<1> SUFFICES ASSUME RsAssumption PROVE StreamsSpec => Seamless
    OBVIOUS
<1>1. RsInv /\ RsInv' /\ [StreamsNext]_allVars => [SeamStep]_rsState
    <2> SUFFICES ASSUME RsInv, RsInv', [StreamsNext]_allVars PROVE SeamStep \/ UNCHANGED rsState
        OBVIOUS
    <2> QED
        BY StepOfResampler, FeedSeam, OutputSeam, OtherSeams DEF Rs!RsNext
<1>2. StreamsSpec => [][SeamStep]_rsState
    <2>1. StreamsSpec => []RsInv
        BY RsInvariant
    <2> QED
        BY <1>1, <2>1, PTL DEF StreamsSpec
<1> QED
    BY <1>2 DEF Seamless, SeamStep

-----------------------------------------------------------------------------
(* A period that is not written whole. *)

(* Frames are numbered from 0: none is the mark of a frame that was not written. *)
NatFrames == Len(queued) <= arrived /\ \A j \in 1..Len(win) : win[j] >= 0

LEMMA NatFramesStep ==
    ASSUME RsAssumption, RsInv, NatFrames, Rs!RsNext
    PROVE  NatFrames'
<1>0. /\ win \in Seq(Int) /\ queued \in Seq(Int) /\ Len(win) \in Nat /\ Len(queued) \in Nat
      /\ arrived \in Nat
    BY LenProperties DEF RsInv, RsTypes
<1>1. ASSUME NEW k \in Reads, Rs!ReadFrames(k) PROVE NatFrames'
    <2>1. k \in Nat /\ RunsTo(queued, arrived)
        BY DEF RsAssumption, RsInv, QueueRuns
    <2>2. /\ queued' = queued \o [i \in 1..k |-> arrived + i - 1]
          /\ arrived' = arrived + k /\ win' = win
        BY <1>1 DEF Rs!ReadFrames
    <2>3. Len(queued') = Len(queued) + k
        BY <1>0, <2>1, <2>2, ReadRuns
    <2> QED
        BY <1>0, <2>1, <2>2, <2>3 DEF NatFrames
<1>2. ASSUME NEW k \in Reads, Rs!Reanchor(k) PROVE NatFrames'
    <2> DEFINE all == queued \o [i \in 1..k |-> arrived + i - 1]
               over == IF Len(all) > RingCap THEN Len(all) - RingCap ELSE 0
    <2>1. k \in Nat /\ RunsTo(queued, arrived) /\ RingCap \in Nat
        BY DEF RsAssumption, RsInv, QueueRuns
    <2>2. queued' = SubSeq(all, over + 1, Len(all)) /\ arrived' = arrived + k /\ win' = win
        BY <1>2 DEF Rs!Reanchor
    <2>3. all \in Seq(Int) /\ Len(all) = Len(queued) + k
        BY <1>0, <2>1, ReadRuns
    <2> HIDE DEF all
    <2>4. over \in 0..Len(all)
        BY <1>0, <2>1, <2>3
    <2> HIDE DEF over
    <2>5. Len(queued') = Len(all) - over
        BY <2>2, <2>3, <2>4, Dropping
    <2> QED
        BY <1>0, <2>1, <2>2, <2>3, <2>4, <2>5 DEF NatFrames
<1>3. CASE Rs!FeedWindow
    <2>1. CASE FeedsOne /\ UNCHANGED arrived
        <3> DEFINE t == Rs!Take
        <3>1. PICK sh : FeedShape(sh, t)
            BY <2>1, FeedShapes DEF RsInv
        <3> HIDE DEF t
        <3>2. /\ sh \in Nat /\ t \in Nat \ {0} /\ t <= Len(queued)
              /\ Len(win') = Len(win) - sh + t /\ Len(win) - sh \in Nat
              /\ Len(queued') = Len(queued) - t
              /\ \A j \in 1..(Len(win) - sh) : win'[j] = win[j + sh]
              /\ \A i \in 1..t : win'[Len(win) - sh + i] = queued[i]
            BY <3>1 DEF FeedShape
        <3>3. ASSUME NEW j \in 1..Len(win') PROVE win'[j] >= 0
            <4>1. CASE j <= Len(win) - sh
                <5>1. j \in 1..(Len(win) - sh) /\ j + sh \in 1..Len(win)
                    BY <1>0, <3>2, <4>1
                <5> QED
                    BY <3>2, <5>1 DEF NatFrames
            <4>2. CASE j > Len(win) - sh
                <5> DEFINE i == j - (Len(win) - sh)
                <5>1. i \in 1..t /\ i \in 1..Len(queued) /\ Len(win) - sh + i = j
                    BY <1>0, <3>2, <4>2
                <5> HIDE DEF i
                <5>2. win'[j] = queued[i]
                    BY <3>2, <5>1
                <5>3. queued[i] = arrived - Len(queued) + i - 1
                    BY <5>1 DEF RsInv, QueueRuns, RunsTo
                <5> QED
                    BY <1>0, <5>1, <5>2, <5>3 DEF NatFrames
            <4> QED
                BY <1>0, <3>2, <4>1, <4>2
        <3>4. Len(queued') <= arrived'
            BY <1>0, <2>1, <3>2 DEF NatFrames
        <3> QED
            BY <3>3, <3>4 DEF NatFrames
    <2>2. CASE UNCHANGED <<win, queued, arrived>>
        BY <2>2 DEF NatFrames
    <2> QED
        BY <1>3, <2>1, <2>2 DEF Rs!FeedWindow, FeedsOne
<1>4. CASE Rs!Servo
    <2>1. win' = win /\ arrived' = arrived
        BY <1>4 DEF Rs!Servo
    <2>2. Len(queued') <= Len(queued)
        <3>1. ASSUME NEW d \in 0..Len(queued), queued' = SubSeq(queued, d + 1, Len(queued))
              PROVE  Len(queued') <= Len(queued)
            BY <1>0, <3>1, Dropping
        <3>2. CASE queued' = queued
            BY <1>0, <3>2
        <3> QED
            BY <1>4, <3>1, <3>2 DEF Rs!Servo, Rs!SnapBehind, Rs!SnapAhead, Rs!Trim
    <2>3. Len(queued') \in Int
        <3>1. RsInv'
            BY RsStepInv
        <3> QED
            BY <3>1, LenProperties DEF RsInv, RsTypes
    <2> QED
        BY <1>0, <2>1, <2>2, <2>3 DEF NatFrames
<1>5. CASE Rs!ReadNothing \/ Rs!Output
    BY <1>5 DEF Rs!ReadNothing, Rs!Output, NatFrames
<1> QED
    BY <1>1, <1>2, <1>3, <1>4, <1>5 DEF Rs!RsNext

(* The window is fed up to a period and the margin, or the ring is dry. *)
FedOrDry ==
    rsStage \in {"servo", "output"} => Rs!Unconsumed >= RsPeriod + Margin \/ queued = <<>>

(* A window with room for a period and the margin, fed by more than nothing at a time;
   and a margin that covers what the largest trim takes in a period. *)
RoomAssumption == FeedChunk > 0 /\ Window >= RsPeriod + Margin + 4
MarginAssumption == (RsPeriod - 1) * StepFine <= (Margin - 2) * Unit

LEMMA SnapOfNothing == SubSeq(<<>>, 1, 0) = <<>>
OBVIOUS

LEMMA FedOrDryStep ==
    ASSUME RsAssumption, RoomAssumption, RsInv, FedOrDry, Rs!RsNext
    PROVE  FedOrDry'
<1>0. /\ win \in Seq(Int) /\ queued \in Seq(Int) /\ Len(win) \in Nat /\ Len(queued) \in Nat
      /\ ri \in Nat /\ {RsPeriod, Margin, Window, FeedChunk} \subseteq Nat
    BY LenProperties DEF RsInv, RsTypes, RsAssumption
<1>1. CASE rsStage = "feed" /\ rsStage' = "servo"
    <2>1. /\ UNCHANGED <<win, ri, queued>>
          /\ Rs!Unconsumed >= RsPeriod + Margin \/ Rs!Take <= 0
        BY <1>1 DEF Rs!RsNext, Rs!ReadFrames, Rs!Reanchor, Rs!ReadNothing, Rs!FeedWindow,
                    Rs!Servo, Rs!Output
    <2>2. ASSUME Rs!Take <= 0, ~ (Rs!Unconsumed >= RsPeriod + Margin) PROVE queued = <<>>
        <3> DEFINE S == {Len(queued), FeedChunk, Window - Rs!Unconsumed - 4}
        <3>1. Rs!Unconsumed \in Int
            BY <1>0 DEF Rs!Unconsumed, Rs!WinN
        <3>2. FeedChunk > 0 /\ Window - Rs!Unconsumed - 4 > 0
            BY <1>0, <2>2, <3>1 DEF RoomAssumption
        <3>3. \E n \in S : \A m \in S : n <= m
            BY <1>0, <3>1, LeastOfThree
        <3>4. Rs!Take \in S
            <4> HIDE DEF S
            <4>1. Rs!Take = CHOOSE n \in S : \A m \in S : n <= m
                BY DEF S, Rs!Take, Rs!Smallest
            <4> QED
                BY <3>3, <4>1
        <3>5. Len(queued) = 0
            BY <1>0, <2>2, <3>1, <3>2, <3>4
        <3> QED
            BY <1>0, <3>5, EmptySeq
    <2> QED
        BY <2>1, <2>2 DEF FedOrDry, Rs!Unconsumed, Rs!WinN
<1>2. CASE rsStage = "servo"
    <2>1. Rs!Servo
        BY <1>2 DEF Rs!RsNext, Rs!ReadFrames, Rs!Reanchor, Rs!ReadNothing, Rs!FeedWindow,
                    Rs!Output
    <2>2. UNCHANGED <<win, ri>>
        BY <2>1 DEF Rs!Servo
    <2>3. ASSUME queued = <<>> PROVE queued' = <<>>
        <3>1. ASSUME NEW d \in 0..Len(queued), queued' = SubSeq(queued, d + 1, Len(queued))
              PROVE  queued' = <<>>
            <4>1. Len(queued) = 0 /\ d = 0
                BY <2>3, <1>0
            <4>2. queued' = SubSeq(<<>>, 1, 0)
                BY <2>3, <3>1, <4>1
            <4> QED
                BY <4>2, SnapOfNothing
        <3> QED
            BY <2>1, <2>3, <3>1 DEF Rs!Servo, Rs!SnapBehind, Rs!SnapAhead, Rs!Trim
    <2> QED
        BY <1>2, <2>2, <2>3 DEF FedOrDry, Rs!Unconsumed, Rs!WinN
<1>3. CASE rsStage # "servo" /\ ~ (rsStage = "feed" /\ rsStage' = "servo")
    BY <1>3 DEF Rs!RsNext, Rs!ReadFrames, Rs!Reanchor, Rs!ReadNothing, Rs!FeedWindow,
                Rs!Servo, Rs!Output, FedOrDry
<1> QED
    BY <1>1, <1>2, <1>3

(* Where the window does not reach an output frame, the trim takes more than a frame off
   the period, and the window holds less than the margin. *)
LEMMA ShortReach ==
    ASSUME RsAssumption, RsTypes, NEW k \in 0..(RsPeriod - 1), ~ Rs!Reaches(k),
           Rs!Unconsumed >= RsPeriod + 3
    PROVE  /\ (RsPeriod - 1) * (step - Unit) > Unit
           /\ MarginAssumption => Rs!Unconsumed < RsPeriod + Margin
<1> DEFINE q == Rs!At(k) \div Unit
           w == Rs!Unconsumed - 2
           p == RsPeriod - 1
           e == step - Unit
<1>1. /\ Unit \in Nat \ {0} /\ frac \in Nat /\ frac <= Unit - 1 /\ step \in Nat /\ e \in Int
      /\ e <= StepFine /\ p \in Nat /\ RsPeriod = p + 1 /\ k \in Nat /\ k <= p
      /\ w \in Nat /\ w >= p + 2 /\ Margin \in Nat /\ StepFine \in Nat
    <2>1. Rs!Unconsumed \in Int
        BY LenProperties DEF RsTypes, Rs!Unconsumed, Rs!WinN
    <2> QED
        BY <2>1 DEF RsAssumption, RsTypes
<1>2. /\ q \in Nat /\ Rs!At(k) \in Nat /\ Rs!At(k) % Unit \in Nat
      /\ Rs!At(k) = q * Unit + (Rs!At(k) % Unit)
    BY <1>1, AtType
<1>3. q >= w
    BY <1>2, LenProperties DEF RsTypes, Rs!Reaches, Rs!Unconsumed, Rs!WinN
<1>4. Rs!At(k) = frac + k * step /\ k * step \in Nat /\ p * step \in Nat /\ k * step <= p * step
    BY <1>1, Products DEF Rs!At
<1> HIDE DEF q, w
<1>5. q * Unit >= w * Unit /\ q * Unit \in Nat /\ w * Unit \in Nat
    <2>1. \A x, y, u \in Nat : x >= y => x * u >= y * u /\ x * u \in Nat /\ y * u \in Nat
        OBVIOUS
    <2> QED
        BY <1>1, <1>2, <1>3, <2>1
<1>6. p * step = p * Unit + p * e /\ p * Unit \in Nat /\ p * e \in Int
    <2>1. \A x \in Nat, u \in Nat, s \in Nat : x * s = x * u + x * (s - u)
                                              /\ x * u \in Nat /\ x * (s - u) \in Int
        OBVIOUS
    <2> QED
        BY <1>1, <2>1
<1> HIDE DEF p
<1>7. p * step + Unit > w * Unit
    BY <1>1, <1>2, <1>4, <1>5
<1> HIDE DEF e
<1>8. w * Unit >= (p + 2) * Unit /\ (p + 2) * Unit = p * Unit + 2 * Unit
    <2>1. \A x, y, u \in Nat : x >= y => x * u >= y * u
        OBVIOUS
    <2>2. \A x, u \in Nat : (x + 2) * u = x * u + 2 * u
        OBVIOUS
    <2>3. p + 2 \in Nat
        BY <1>1
    <2> QED
        BY <1>1, <2>1, <2>2, <2>3
<1>9. p * e > Unit
    BY <1>1, <1>5, <1>6, <1>7, <1>8
<1>10. ASSUME MarginAssumption, w >= p + Margin - 1 PROVE FALSE
    <2>1. p * e <= p * StepFine /\ p * StepFine \in Nat
        <3>1. \A x \in Nat, a, b \in Int : a <= b => x * a <= x * b
            OBVIOUS
        <3>2. \A a, b \in Nat : a * b \in Nat
            OBVIOUS
        <3> QED
            BY <1>1, <3>1, <3>2
    <2>2. p * StepFine <= (Margin - 2) * Unit
        BY <1>10 DEF MarginAssumption, p
    <2>3. w * Unit >= p * Unit + (Margin - 2) * Unit + Unit /\ (Margin - 2) * Unit \in Int
        <3>1. \A x, m, v, u \in Int : u > 0 /\ v >= x + m - 1 =>
                 /\ v * u >= (x + m - 1) * u /\ (x + m - 1) * u = x * u + (m - 2) * u + u
                 /\ (m - 2) * u \in Int
            <4> TAKE x, m, v, u \in Int
            <4>1. (x + m - 1) * u = x * u + (m - 2) * u + u
                BY SMT
            <4>2. u > 0 /\ v >= x + m - 1 => v * u >= (x + m - 1) * u
                <5>1. \A a, b \in Int, c \in Nat : a >= b => a * c >= b * c
                    BY SMT
                <5> QED
                    BY <5>1
            <4> QED
                BY <4>1, <4>2
        <3>2. {p, Margin, w, Unit} \subseteq Int /\ Unit > 0
            BY <1>1
        <3> QED
            BY <1>10, <3>1, <3>2
    <2> QED
        BY <1>1, <1>5, <1>6, <1>7, <2>1, <2>2, <2>3
<1>11. MarginAssumption => Rs!Unconsumed < RsPeriod + Margin
    <2>1. Rs!Unconsumed = w + 2 /\ RsPeriod = p + 1
        <3>1. Rs!Unconsumed \in Int
            BY LenProperties DEF RsTypes, Rs!Unconsumed, Rs!WinN
        <3> QED
            BY <1>1, <3>1 DEF w
    <2> QED
        BY <1>1, <1>10, <2>1
<1> QED
    BY <1>9, <1>11 DEF p, e

(* An output frame that is not written is one that the window did not reach. *)
LEMMA ShortIs ==
    ASSUME RsAssumption, RsInv, NatFrames, Rs!Output, ~ FullPeriods'
    PROVE  /\ Rs!Unconsumed >= RsPeriod + 3
           /\ \E k \in 0..(RsPeriod - 1) : ~ Rs!Reaches(k)
<1>0. RsPeriod \in Nat \ {0} /\ Unit \in Nat \ {0} /\ RsTypes
    BY DEF RsAssumption, RsInv
<1>1. CASE ~ (Rs!Unconsumed >= RsPeriod + 3)
    <2>1. rsOut' = <<>>
        BY <1>1 DEF Rs!Output
    <2> QED
        BY <2>1 DEF FullPeriods
<1>2. CASE Rs!Unconsumed >= RsPeriod + 3
    <2>1. rsOut' = [k \in 1..RsPeriod |->
                      IF Rs!Reaches(k - 1)
                      THEN win[ri + Rs!At(k - 1) \div Unit + 1] * Unit + (Rs!At(k - 1) % Unit)
                      ELSE Rs!Stale]
        BY <1>2 DEF Rs!Output
    <2>2. PICK n \in 1..Len(rsOut') : rsOut'[n] = Rs!Stale
        BY DEF FullPeriods
    <2>3. Len(rsOut') = RsPeriod
        BY <1>0, <2>1
    <2>4. n - 1 \in 0..(RsPeriod - 1) /\ n - 1 \in Nat /\ n \in 1..RsPeriod
        BY <1>0, <2>2, <2>3
    <2>5. ASSUME Rs!Reaches(n - 1) PROVE FALSE
        <3> DEFINE a == Rs!At(n - 1)
                   x == ri + a \div Unit + 1
        <3>1. a \div Unit \in Nat /\ a % Unit \in 0..(Unit - 1)
            BY <1>0, <2>4, AtType
        <3>2. ri + a \div Unit + 2 < Len(win)
            BY <2>5 DEF Rs!Reaches, Rs!WinN
        <3>3. rsOut'[n] = win[x] * Unit + (a % Unit)
            BY <2>1, <2>4, <2>5
        <3> HIDE DEF a
        <3>4. ri \in Nat /\ Len(win) \in Nat
            BY <1>0, LenProperties DEF RsTypes
        <3>5. x \in 1..Len(win)
            BY <3>1, <3>2, <3>4
        <3> HIDE DEF x
        <3>6. win[x] \in Nat
            BY <1>0, <3>5, ElementOfSeq DEF NatFrames, RsTypes
        <3>7. win[x] * Unit \in Nat
            BY <1>0, <3>6
        <3> QED
            BY <1>0, <2>2, <3>1, <3>3, <3>7 DEF Rs!Stale
    <2> QED
        BY <1>2, <2>4, <2>5
<1> QED
    BY <1>1, <1>2

(* "never emits a partial period from stale samples" holds but for one case: the ring has
   run dry, the window holds less than a period and the margin, and the trim takes more
   than a frame off the period.  Then the last frames of it are stale. *)
ShortOnlyDry ==
    [][rsStage = "output" /\ ~ FullPeriods' =>
           /\ queued = <<>> /\ Rs!Unconsumed \in (RsPeriod + 3)..(RsPeriod + Margin - 1)
           /\ (RsPeriod - 1) * (step - Unit) > Unit]_rsState

THEOREM ShortOnlyDryTheorem ==
    RsAssumption /\ RoomAssumption /\ MarginAssumption => (StreamsSpec => ShortOnlyDry)
<1> SUFFICES ASSUME RsAssumption, RoomAssumption, MarginAssumption
             PROVE  StreamsSpec => ShortOnlyDry
    OBVIOUS
<1> DEFINE I == NatFrames /\ FedOrDry
           A == rsStage = "output" /\ ~ FullPeriods' =>
                    /\ queued = <<>>
                    /\ Rs!Unconsumed \in (RsPeriod + 3)..(RsPeriod + Margin - 1)
                    /\ (RsPeriod - 1) * (step - Unit) > Unit
<1>1. StreamsInit => I
    <2>1. StreamsInit => win = <<>> /\ queued = <<>> /\ arrived = 0 /\ rsStage = "drain"
        BY DEF StreamsInit, Rs!RsInit
    <2> QED
        BY <2>1 DEF NatFrames, FedOrDry
<1>2. RsInv /\ I /\ [StreamsNext]_allVars => I'
    <2> SUFFICES ASSUME RsInv, I, [StreamsNext]_allVars PROVE I'
        OBVIOUS
    <2>1. CASE Rs!RsNext
        BY <2>1, NatFramesStep, FedOrDryStep
    <2>2. CASE UNCHANGED rsState
        BY <2>2 DEF rsState, NatFrames, FedOrDry, Rs!Unconsumed, Rs!WinN
    <2> QED
        BY <2>1, <2>2, StepOfResampler
<1>3. RsInv /\ I /\ [StreamsNext]_allVars => [A]_rsState
    <2> SUFFICES ASSUME RsInv, I, Rs!RsNext, rsStage = "output", ~ FullPeriods'
                 PROVE  /\ queued = <<>>
                        /\ Rs!Unconsumed \in (RsPeriod + 3)..(RsPeriod + Margin - 1)
                        /\ (RsPeriod - 1) * (step - Unit) > Unit
        BY StepOfResampler
    <2>1. Rs!Output
        BY DEF Rs!RsNext, Rs!ReadFrames, Rs!Reanchor, Rs!ReadNothing, Rs!FeedWindow, Rs!Servo
    <2>2. Rs!Unconsumed >= RsPeriod + 3 /\ \E k \in 0..(RsPeriod - 1) : ~ Rs!Reaches(k)
        BY <2>1, ShortIs
    <2>3. (RsPeriod - 1) * (step - Unit) > Unit /\ Rs!Unconsumed < RsPeriod + Margin
        BY <2>2, ShortReach DEF RsInv
    <2>4. Rs!Unconsumed \in Int /\ RsPeriod \in Int /\ Margin \in Int
        BY LenProperties DEF RsInv, RsTypes, RsAssumption, Rs!Unconsumed, Rs!WinN
    <2>5. queued = <<>>
        BY <2>3, <2>4 DEF FedOrDry
    <2> QED
        BY <2>2, <2>3, <2>4, <2>5
<1>4. StreamsSpec => []RsInv
    BY RsInvariant
<1> QED
    BY <1>1, <1>2, <1>3, <1>4, PTL DEF StreamsSpec, ShortOnlyDry, A

(* Where no trim takes a frame off a period, every period is whole. *)
SlowTrim == (RsPeriod - 1) * StepFine <= Unit

THEOREM FullPeriodsTheorem == RsAssumption /\ SlowTrim => (StreamsSpec => []FullPeriods)
<1> SUFFICES ASSUME RsAssumption, SlowTrim PROVE StreamsSpec => []FullPeriods
    OBVIOUS
<1> DEFINE I == NatFrames /\ FullPeriods
<1>1. StreamsInit => I
    <2>1. StreamsInit => win = <<>> /\ queued = <<>> /\ arrived = 0 /\ rsOut = <<>>
        BY DEF StreamsInit, Rs!RsInit
    <2> QED
        BY <2>1 DEF NatFrames, FullPeriods
<1>2. RsInv /\ I /\ [StreamsNext]_allVars => I'
    <2> SUFFICES ASSUME RsInv, I, [StreamsNext]_allVars PROVE I'
        OBVIOUS
    <2>1. CASE UNCHANGED rsState
        BY <2>1 DEF rsState, NatFrames, FullPeriods
    <2>2. CASE Rs!RsNext
        <3>1. NatFrames'
            BY <2>2, NatFramesStep
        <3>2. ASSUME Rs!Output, ~ FullPeriods' PROVE FALSE
            <4>1. (RsPeriod - 1) * (step - Unit) > Unit
                BY <3>2, ShortIs, ShortReach DEF RsInv
            <4>2. (RsPeriod - 1) * (step - Unit) <= (RsPeriod - 1) * StepFine
                <5>1. \A x \in Nat, a, b \in Int : a <= b => x * a <= x * b
                    OBVIOUS
                <5>2. RsPeriod - 1 \in Nat /\ step - Unit \in Int /\ StepFine \in Int
                      /\ step - Unit <= StepFine
                    BY DEF RsInv, RsTypes, RsAssumption
                <5> QED
                    BY <5>1, <5>2
            <4>3. /\ (RsPeriod - 1) * (step - Unit) \in Int /\ (RsPeriod - 1) * StepFine \in Int
                  /\ Unit \in Int
                <5>1. RsPeriod - 1 \in Int /\ step - Unit \in Int /\ StepFine \in Int
                    BY DEF RsInv, RsTypes, RsAssumption
                <5>2. \A a, b \in Int : a * b \in Int
                    OBVIOUS
                <5> QED
                    BY <5>1, <5>2 DEF RsAssumption
            <4> QED
                BY <4>1, <4>2, <4>3 DEF SlowTrim
        <3>3. ~ Rs!Output => FullPeriods'
            BY <2>2 DEF Rs!RsNext, Rs!ReadFrames, Rs!Reanchor, Rs!ReadNothing, Rs!FeedWindow,
                        Rs!Servo, FullPeriods
        <3> QED
            BY <3>1, <3>2, <3>3
    <2> QED
        BY <2>1, <2>2, StepOfResampler
<1>3. I => FullPeriods
    OBVIOUS
<1>4. StreamsSpec => []RsInv
    BY RsInvariant
<1> QED
    BY <1>1, <1>2, <1>3, <1>4, PTL DEF StreamsSpec

-----------------------------------------------------------------------------
(* The label of the playout without resampling: PlayoutProofs, of the playout that
   is a part here. *)
Lab == INSTANCE PlayoutProofs WITH pc <- doing

LEMMA StepOfPlayout == [StreamsNext]_allVars => Play!Next \/ UNCHANGED playState
BY DEF StreamsNext, allVars, ClockStep, RingStep, CodecStep, PlayStep, WireStep, RsStep,
       HsStep, PaceStep, SchedStep

LEMMA SamePlayout ==
    /\ Play!PlayoutAssumption = Lab!PlayoutAssumption /\ Play!Init = Lab!Init
    /\ Play!Next = Lab!Next /\ Play!LabelTrue = Lab!LabelTrue
    /\ UNCHANGED playState => UNCHANGED Lab!vars
<1>1. Play!PlayoutAssumption = Lab!PlayoutAssumption
    BY DEF Play!PlayoutAssumption, Lab!PlayoutAssumption
<1>2. Play!Init = Lab!Init
    BY DEF Play!Init, Lab!Init
<1>3. Play!Next = Lab!Next
    BY DEF Play!Newest, Lab!Newest, Play!Dropped, Lab!Dropped, Play!SendChunk,
           Lab!SendChunk, Play!Gap, Lab!Gap, Play!CloseSource, Lab!CloseSource, Play!Fits,
           Lab!Fits, Play!ReadMsg, Lab!ReadMsg, Play!Prebuffer, Lab!Prebuffer,
           Play!StartPlayout, Lab!StartPlayout, Play!ClosedEarly, Lab!ClosedEarly,
           Play!Drain, Lab!Drain, Play!EofSeen, Lab!EofSeen, Play!Drained, Lab!Drained,
           Play!Whole, Lab!Whole, Play!Period, Lab!Period, Play!Breaks, Lab!Breaks,
           Play!Next, Lab!Next, Play!source, Lab!source, Play!rx, Lab!rx, Play!label,
           Lab!label, Play!vars, Lab!vars
<1>4. Play!LabelTrue = Lab!LabelTrue
    BY DEF Play!LabelTrue, Lab!LabelTrue, Play!Labelled, Lab!Labelled
<1>5. UNCHANGED playState => UNCHANGED Lab!vars
    BY DEF playState, Lab!vars, Lab!source, Lab!rx, Lab!label
<1> QED
    BY <1>1, <1>2, <1>3, <1>4, <1>5

(* For windows, rings, sockets and buffers of any size: the label either servo steers
   by is the source index of the frame at the head of the ring. *)
THEOREM LabelTheorem ==
    Play!PlayoutAssumption /\ RsAssumption => (StreamsSpec => []LabelTrue)
<1> SUFFICES ASSUME Play!PlayoutAssumption, RsAssumption PROVE StreamsSpec => []LabelTrue
    OBVIOUS
<1>1. StreamsInit => Lab!LabelInv
    <2>1. StreamsInit => Lab!Init
        BY SamePlayout DEF StreamsInit
    <2> QED
        BY <2>1, Lab!InitLabel
<1>2. Lab!LabelInv /\ [StreamsNext]_allVars => Lab!LabelInv'
    <2>1. [StreamsNext]_allVars => [Lab!Next]_(Lab!vars)
        BY StepOfPlayout, SamePlayout
    <2>2. Lab!PlayoutAssumption
        BY SamePlayout
    <2> QED
        BY <2>1, <2>2, Lab!LabelStep
<1>3. Lab!LabelInv /\ RsInv => LabelTrue
    BY SamePlayout, Lab!LabelOfHead, RsLabel DEF LabelTrue
<1>4. StreamsSpec => []RsInv
    BY RsInvariant
<1> QED
    BY <1>1, <1>2, <1>3, <1>4, PTL DEF StreamsSpec

-----------------------------------------------------------------------------
(* Every index, count and buffer of every part stays in its range. *)

(* Multiples of d. *)
LEMMA Multiples ==
    ASSUME NEW d \in Nat \ {0}, NEW a \in Int, NEW b \in Int, a % d = 0, b % d = 0
    PROVE  (a + b) % d = 0 /\ (a - b) % d = 0
<1> DEFINE x == a \div d
           y == b \div d
<1>1. x \in Int /\ a = d * x /\ y \in Int /\ b = d * y
    OBVIOUS
<1> HIDE DEF x, y
<1>2. a + b = d * (x + y) /\ a - b = d * (x - y) /\ x + y \in Int /\ x - y \in Int
    BY <1>1
<1>3. \A q \in Int : (d * q) % d = 0
    OBVIOUS
<1>4. (d * (x + y)) % d = 0 /\ (d * (x - y)) % d = 0
    BY <1>2, <1>3
<1> QED
    BY <1>2, <1>4

(* The byte ring moves by whole frames, round its end too: every amount is the smaller
   of two multiples. *)
LEMMA AlignedStep ==
    ASSUME FramesAssumption, RingTypeOK, Aligned, RingNext
    PROVE  Aligned'
<1> DEFINE d == FrameBytes
           M(n) == n % d = 0
<1>0. /\ d \in Nat \ {0} /\ RingBytes \in Nat \ {0} /\ M(RingBytes)
      /\ rhead \in Int /\ rcount \in Int /\ M(rhead) /\ M(rcount)
    BY RingAssumption DEF FramesAssumption, RingTypeOK, Aligned
<1>1. \A a, b \in Int : M(a) /\ M(b) => M(a + b) /\ M(a - b)
    BY <1>0, Multiples
<1> HIDE DEF d, M
<1>2. \A a, b \in Int : M(a) /\ M(b) => M(Least(a, b))
    BY DEF Least
<1>3. \A a \in Int : M(a) => M(Wrap(a))
    <2>1. \A a \in Int : M(a) => M(a - RingBytes)
        BY <1>0, <1>1
    <2>2. \A a \in Int : Wrap(a) = a \/ Wrap(a) = a - RingBytes
        BY DEF Wrap
    <2> QED
        BY <2>1, <2>2
<1>4. ASSUME NEW n \in Int, M(n), Advance(n) PROVE Aligned'
    <2>1. rhead + n \in Int /\ M(rhead + n) /\ M(rcount - n)
        BY <1>0, <1>1, <1>4
    <2>2. M(rhead') /\ M(rcount')
        BY <1>3, <1>4, <2>1 DEF Advance
    <2> QED
        BY <2>2 DEF Aligned, M, d
<1>5. ASSUME NEW p \in Chunks, RbPush(p) PROVE Aligned'
    <2>1. Len(p) \in Int /\ M(Len(p))
        BY RingAssumption DEF FramesAssumption, M, d
    <2>2. Space \in Int /\ M(Space)
        BY <1>0, <1>1 DEF Space
    <2>3. M(Least(Len(p), Space)) /\ Least(Len(p), Space) \in Int
        BY <1>2, <2>1, <2>2 DEF Least
    <2>4. rhead' = rhead /\ rcount' = rcount + Least(Len(p), Space)
        BY <1>5 DEF RbPush
    <2>5. M(rhead') /\ M(rcount')
        BY <1>0, <1>1, <2>3, <2>4
    <2> QED
        BY <2>5 DEF Aligned, M, d
<1>6. ASSUME NEW n \in Amounts, RbPop(n) \/ RbDrop(n) PROVE Aligned'
    <2>1. n \in Int /\ M(n)
        BY RingAssumption DEF FramesAssumption, M, d
    <2>2. M(Least(n, rcount)) /\ Least(n, rcount) \in Int
        BY <1>0, <1>2, <2>1 DEF Least
    <2>3. Advance(Least(n, rcount))
        BY <1>6 DEF RbPop, RbDrop
    <2> QED
        BY <1>4, <2>2, <2>3
<1> QED
    BY <1>5, <1>6 DEF RingNext

LEMMA AlignedInvariant == FramesAssumption => (StreamsSpec => []Aligned)
<1> SUFFICES ASSUME FramesAssumption PROVE StreamsSpec => []Aligned
    OBVIOUS
<1>1. StreamsInit => Aligned
    <2>1. 0 % FrameBytes = 0
        BY DEF FramesAssumption
    <2> QED
        BY <2>1 DEF StreamsInit, RingInit, Aligned
<1>2. RingTypeOK /\ Aligned /\ [StreamsNext]_allVars => Aligned'
    <2>1. UNCHANGED ringState /\ Aligned => Aligned'
        BY DEF ringState, Aligned
    <2> QED
        BY <2>1, AlignedStep, StepOfRing
<1> QED
    BY <1>1, <1>2, RingTypes, PTL DEF StreamsSpec

(* The clock and the count of samples. *)
PaceRange == sent \in 0..MaxSamples /\ clock \in Uptime..MaxClock

LEMMA PaceInRange == PaceAssumption => (StreamsSpec => []PaceRange)
<1> SUFFICES ASSUME PaceAssumption PROVE StreamsSpec => []PaceRange
    OBVIOUS
<1>1. StreamsInit => PaceRange
    BY DEF StreamsInit, Pace!PaceInit, PaceAssumption, PaceRange
<1>2. PaceRange /\ [StreamsNext]_allVars => PaceRange'
    <2> SUFFICES ASSUME PaceRange, Pace!PaceNext \/ UNCHANGED paceState PROVE PaceRange'
        BY StepOfPacing
    <2>1. /\ Uptime \in Nat /\ MaxClock \in Nat /\ MaxSamples \in Nat /\ PaceChunk \in Nat
          /\ sent \in 0..MaxSamples /\ clock \in Uptime..MaxClock
        BY DEF PaceAssumption, PaceRange
    <2>2. CASE Pace!ClockTicks
        BY <2>1, <2>2 DEF Pace!ClockTicks, PaceRange
    <2>3. CASE Pace!BeginChunk \/ Pace!Reopens \/ Pace!PlayerGone \/ UNCHANGED paceState
        BY <2>1, <2>3 DEF Pace!BeginChunk, Pace!Reopens, Pace!PlayerGone, paceState, PaceRange
    <2>4. ASSUME NEW n \in 0..PaceChunk, Pace!ReadAndSend(n) PROVE PaceRange'
        BY <2>1, <2>4 DEF Pace!ReadAndSend, PaceRange
    <2> QED
        BY <2>2, <2>3, <2>4 DEF Pace!PaceNext
<1> QED
    BY <1>1, <1>2, PTL DEF StreamsSpec

(* PINGs and PONGs. *)
HsRange ==
    /\ late \in BOOLEAN
    /\ up \in [Sinks -> 0..MaxPings] /\ down \in [Sinks -> Seq({"pong", "chunk"})]
    /\ hsPongs \in [Sinks -> 0..Enough]

LEMMA StepOfHandshake == [StreamsNext]_allVars => Hs!HsNext \/ UNCHANGED hsState
BY DEF StreamsNext, allVars, ClockStep, RingStep, CodecStep, PlayStep, WireStep, RsStep,
       HsStep, PaceStep, SchedStep

LEMMA PongsAppended ==
    ASSUME NEW q \in Seq({"pong", "chunk"}), NEW n \in Nat
    PROVE  LET r == q \o [i \in 1..n |-> "pong"]
           IN  /\ r \in Seq({"pong", "chunk"}) /\ Len(r) = Len(q) + n
               /\ \A i \in 1..Len(q) : r[i] = q[i]
               /\ \A i \in (Len(q) + 1)..(Len(q) + n) : r[i] = "pong"
<1> DEFINE p == [i \in 1..n |-> "pong"]
<1>1. p \in Seq({"pong", "chunk"}) /\ Len(p) = n /\ \A i \in 1..n : p[i] = "pong"
    <2>1. p \in [1..n -> {"pong", "chunk"}]
        OBVIOUS
    <2>2. p \in Seq({"pong", "chunk"})
        BY <2>1, SeqDef
    <2> QED
        BY <2>1, <2>2, LenProperties
<1> HIDE DEF p
<1>2. Len(q) \in Nat
    OBVIOUS
<1>3. /\ q \o p \in Seq({"pong", "chunk"}) /\ Len(q \o p) = Len(q) + n
      /\ \A i \in 1..(Len(q) + n) : (q \o p)[i] = IF i <= Len(q) THEN q[i] ELSE p[i - Len(q)]
    BY <1>1, ConcatProperties
<1>4. \A i \in (Len(q) + 1)..(Len(q) + n) :
          i \in 1..(Len(q) + n) /\ ~ (i <= Len(q)) /\ i - Len(q) \in 1..n
    BY <1>2
<1>5. \A i \in 1..Len(q) : i \in 1..(Len(q) + n) /\ i <= Len(q)
    BY <1>2
<1>6. \A i \in (Len(q) + 1)..(Len(q) + n) : (q \o p)[i] = "pong"
    BY <1>1, <1>3, <1>4
<1> QED
    BY <1>3, <1>5, <1>6 DEF p

LEMMA AnsweredKeeps ==
    ASSUME HsAssumption, HsRange, NEW n \in [Sinks -> Nat], \A s \in Sinks : n[s] <= up[s],
           Hs!Answered(n)
    PROVE  /\ up' \in [Sinks -> 0..MaxPings] /\ down' \in [Sinks -> Seq({"pong", "chunk"})]
<1>1. MaxPings \in Nat /\ up \in [Sinks -> 0..MaxPings] /\ down \in [Sinks -> Seq({"pong", "chunk"})]
    BY DEF HsAssumption, HsRange
<1>2. /\ up' = [s \in Sinks |-> up[s] - n[s]]
      /\ down' = [s \in Sinks |-> down[s] \o [i \in 1..n[s] |-> "pong"]]
    BY DEF Hs!Answered
<1>3. \A s \in Sinks : up[s] - n[s] \in 0..MaxPings
    <2> SUFFICES ASSUME NEW s \in Sinks PROVE up[s] - n[s] \in 0..MaxPings
        OBVIOUS
    <2>1. up[s] \in 0..MaxPings /\ n[s] \in Nat /\ n[s] <= up[s]
        BY <1>1
    <2> QED
        BY <1>1, <2>1
<1>4. \A s \in Sinks : down[s] \o [i \in 1..n[s] |-> "pong"] \in Seq({"pong", "chunk"})
    BY <1>1, PongsAppended
<1> QED
    BY <1>2, <1>3, <1>4

LEMMA PingKeeps ==
    ASSUME HsAssumption, HsRange, NEW s \in Sinks, Hs!Ping(s)
    PROVE  HsRange'
<1> DEFINE n == Hs!Count(s, "pong")
<1>1. n \in Nat
    <2> DEFINE I == 1..Len(down[s])
               P == {i \in I : down[s][i] = "pong"}
    <2>1. Len(down[s]) \in Nat
        BY DEF HsRange
    <2>2. IsFiniteSet(I)
        <3>1. 1 \in Int /\ Len(down[s]) \in Int
            BY <2>1
        <3> QED
            BY <3>1, FS_Interval
    <2>3. IsFiniteSet(P)
        BY <2>2, FS_Subset
    <2>4. Cardinality(P) \in Nat
        BY <2>3, FS_CardinalityType
    <2>5. Hs!Cardinality(P) = Cardinality(P)
        BY DEF Cardinality, Hs!Cardinality
    <2> QED
        BY <2>4, <2>5 DEF Hs!Count
<1> HIDE DEF n
<1>2. /\ up[s] + n < MaxPings /\ up' = [up EXCEPT ![s] = @ + 1]
      /\ late' = late /\ down' = down /\ hsPongs' = hsPongs
    BY DEF Hs!Ping, n
<1>3. MaxPings \in Nat /\ up \in [Sinks -> 0..MaxPings] /\ up[s] + 1 \in 0..MaxPings
    BY <1>1, <1>2 DEF HsAssumption, HsRange
<1>4. up' \in [Sinks -> 0..MaxPings]
    BY <1>2, <1>3
<1> QED
    BY <1>2, <1>4 DEF HsRange

LEMMA ReadKeepsRange ==
    ASSUME HsAssumption, HsRange, NEW s \in Sinks, Hs!Read(s)
    PROVE  HsRange'
<1>1. /\ down \in [Sinks -> Seq({"pong", "chunk"})] /\ down[s] # <<>>
      /\ down' = [down EXCEPT ![s] = Tail(@)] /\ late' = late /\ up' = up
    BY DEF HsRange, Hs!Read
<1>2. down' \in [Sinks -> Seq({"pong", "chunk"})]
    <2>1. Tail(down[s]) \in Seq({"pong", "chunk"})
        BY <1>1
    <2> QED
        BY <1>1, <2>1
<1>3. hsPongs' \in [Sinks -> 0..Enough]
    <2>1. Enough \in Nat /\ hsPongs \in [Sinks -> 0..Enough]
        BY DEF HsAssumption, HsRange
    <2>2. hsPongs' = [hsPongs EXCEPT ![s] = IF @ < Enough THEN @ + 1 ELSE @] \/ hsPongs' = hsPongs
        BY DEF Hs!Read
    <2>3. (IF hsPongs[s] < Enough THEN hsPongs[s] + 1 ELSE hsPongs[s]) \in 0..Enough
        BY <2>1
    <2> QED
        BY <2>1, <2>2, <2>3
<1> QED
    BY <1>1, <1>2, <1>3 DEF HsRange

LEMMA HsStepRange ==
    ASSUME HsAssumption, HsRange, Hs!HsNext
    PROVE  HsRange'
<1>1. CASE Hs!PaceServe
    <2>1. PICK s \in Hs!Asking : Hs!Answered(Hs!OneOf(s))
        BY <1>1 DEF Hs!PaceServe
    <2>2. Hs!OneOf(s) \in [Sinks -> Nat] /\ \A x \in Sinks : Hs!OneOf(s)[x] <= up[x]
        BY DEF Hs!Asking, Hs!OneOf, HsRange
    <2>3. late' = late /\ hsPongs' = hsPongs
        BY <1>1 DEF Hs!PaceServe, Hs!linkVars
    <2> QED
        BY <2>1, <2>2, <2>3, AnsweredKeeps DEF HsRange
<1>2. CASE Hs!Drain
    <2>1. Hs!Drained \in [Sinks -> Nat] /\ \A x \in Sinks : Hs!Drained[x] <= up[x]
        BY DEF Hs!Drained, HsRange, HsAssumption
    <2>2. late' = late /\ hsPongs' = hsPongs /\ Hs!Answered(Hs!Drained)
        BY <1>2 DEF Hs!Drain, Hs!linkVars
    <2> QED
        BY <2>1, <2>2, AnsweredKeeps DEF HsRange
<1>3. CASE Hs!PaceOver \/ Hs!ReadChunk
    BY <1>3 DEF Hs!PaceOver, Hs!ReadChunk, Hs!linkVars, HsRange
<1>4. CASE Hs!SendChunk
    <2>1. /\ down' = [s \in Sinks |-> IF s \in Hs!Served THEN Append(down[s], "chunk") ELSE down[s]]
          /\ late' = late /\ up' = up /\ hsPongs' = hsPongs
        BY <1>4 DEF Hs!SendChunk, Hs!linkVars
    <2>2. \A s \in Sinks : down[s] \in Seq({"pong", "chunk"})
                           /\ Append(down[s], "chunk") \in Seq({"pong", "chunk"})
        BY DEF HsRange
    <2>3. down' \in [Sinks -> Seq({"pong", "chunk"})]
        BY <2>1, <2>2
    <2> QED
        BY <2>1, <2>3 DEF HsRange
<1>5. ASSUME NEW s \in Sinks, Hs!PingDue(s) \/ Hs!PingAgain(s) PROVE HsRange'
    BY <1>5, PingKeeps DEF Hs!PingDue, Hs!PingAgain
<1>6. ASSUME NEW s \in Sinks, Hs!Read(s) PROVE HsRange'
    BY <1>6, ReadKeepsRange
<1>7. ASSUME NEW s \in Sinks, Hs!Sticks(s) PROVE HsRange'
    BY <1>7 DEF Hs!Sticks, HsRange
<1> QED
    BY <1>1, <1>2, <1>3, <1>4, <1>5, <1>6, <1>7 DEF Hs!HsNext, Hs!FanoutLoop

LEMMA HsInRange == HsAssumption => (StreamsSpec => []HsRange)
<1> SUFFICES ASSUME HsAssumption PROVE StreamsSpec => []HsRange
    OBVIOUS
<1>1. StreamsInit => HsRange
    BY DEF StreamsInit, Hs!HsInit, HsRange, HsAssumption
<1>2. HsRange /\ [StreamsNext]_allVars => HsRange'
    <2>1. UNCHANGED hsState /\ HsRange => HsRange'
        BY DEF hsState, HsRange
    <2> QED
        BY <2>1, HsStepRange, StepOfHandshake
<1> QED
    BY <1>1, <1>2, PTL DEF StreamsSpec

(* The socket. *)
SockRange == Len(sock) <= SockMax

LEMMA SockStep ==
    ASSUME WireAssumption, WireTypes, SockRange, Wire!WireNext
    PROVE  SockRange'
<1>1. /\ sock \in Seq(Octet) /\ out \in Seq(Octet) /\ Len(sock) \in Nat /\ Len(sock) <= SockMax
      /\ SockMax \in Nat
    BY DEF WireTypes, SockRange, WireAssumption
<1>2. CASE Wire!WriteSome
    <2>1. PICK w \in 1..Len(out) : Len(sock) + w <= SockMax /\ sock' = sock \o SubSeq(out, 1, w)
        BY <1>2 DEF Wire!WriteSome
    <2>2. SubSeq(out, 1, w) \in Seq(Octet) /\ Len(SubSeq(out, 1, w)) = w
        BY <1>1
    <2>3. Len(sock') = Len(sock) + w
        BY <1>1, <2>1, <2>2
    <2> QED
        BY <2>1, <2>3 DEF SockRange
<1>3. CASE Wire!ReadSome
    <2>1. PICK r \in Nat : r >= 1 /\ r <= Len(sock) /\ sock' = SubSeq(sock, r + 1, Len(sock))
        <3>1. \E r \in 1..(Wire!Need - Len(buf)) :
                  r <= Len(sock) /\ sock' = SubSeq(sock, r + 1, Len(sock))
            BY <1>3 DEF Wire!ReadSome
        <3> QED
            BY <3>1
    <2>2. Len(sock') <= Len(sock) /\ Len(sock') \in Nat
        BY <1>1, <2>1
    <2> QED
        BY <1>1, <2>2 DEF SockRange
<1>4. CASE Wire!Reset
    <2>1. PICK k \in 0..Len(sock) : sock' = SubSeq(sock, 1, k)
        BY <1>4 DEF Wire!Reset
    <2>2. Len(sock') = k
        BY <1>1, <2>1
    <2> QED
        BY <1>1, <2>2 DEF SockRange
<1>5. CASE \/ Wire!SendAudio \/ Wire!Skip \/ Wire!SendPong \/ Wire!CloseWire \/ Wire!Dies
           \/ Wire!ReadEnd \/ Wire!Parse
    <2>1. sock' = sock
        BY <1>5 DEF Wire!SendAudio, Wire!Skip, Wire!SendPong, Wire!Begin, Wire!CloseWire, Wire!Dies, Wire!ReadEnd,
           Wire!Parse
    <2> QED
        BY <2>1 DEF SockRange
<1> QED
    BY <1>2, <1>3, <1>4, <1>5 DEF Wire!WireNext, Wire!Player

LEMMA SockInRange == WireAssumption => (StreamsSpec => []SockRange)
<1> SUFFICES ASSUME WireAssumption PROVE StreamsSpec => []SockRange
    OBVIOUS
<1>1. StreamsInit => SockRange
    <2> SUFFICES ASSUME StreamsInit PROVE SockRange
        OBVIOUS
    <2>1. sock = <<>> /\ SockMax \in Nat
        BY DEF StreamsInit, Wire!WireInit, WireAssumption
    <2> QED
        BY <2>1 DEF SockRange
<1>2. WireInvariant /\ SockRange /\ [StreamsNext]_allVars => SockRange'
    <2>1. UNCHANGED wireState /\ SockRange => SockRange'
        BY DEF wireState, SockRange
    <2> QED
        BY <2>1, SockStep, StepOfWire DEF WireInvariant, WireInv
<1> QED
    BY <1>1, <1>2, WireKeeps, PTL DEF StreamsSpec

(* The playout: the ranges of PlayoutProofs. *)
LEMMA PlayoutInRange == Play!PlayoutAssumption => (StreamsSpec => []Play!TypeOK)
<1> SUFFICES ASSUME Play!PlayoutAssumption PROVE StreamsSpec => []Play!TypeOK
    OBVIOUS
<1>1. Lab!PlayoutAssumption
    BY SamePlayout
<1>2. StreamsInit => Lab!RangeInv
    BY <1>1, SamePlayout, Lab!InitRange DEF StreamsInit
<1>3. Lab!RangeInv /\ [StreamsNext]_allVars => Lab!RangeInv'
    <2>1. [StreamsNext]_allVars => [Lab!Next]_(Lab!vars)
        BY StepOfPlayout, SamePlayout
    <2> QED
        BY <1>1, <2>1, Lab!RangeStep
<1>4. Lab!RangeInv => Play!TypeOK
    BY DEF Lab!RangeInv, Lab!TypeOK, Play!TypeOK
<1> QED
    BY <1>2, <1>3, <1>4, PTL DEF StreamsSpec

LEMMA CodecInRange == Cod!CodecAssumption /\ CodecThresholds => (StreamsSpec => []Cod!TypeOK)
<1> SUFFICES ASSUME Cod!CodecAssumption, CodecThresholds PROVE StreamsSpec => []Cod!TypeOK
    OBVIOUS
<1>1. StreamsInit => CodecInv
    BY CodecInit
<1>2. CodecInv /\ [StreamsNext]_allVars => CodecInv'
    BY CodecKeeps
<1>3. CodecInv => Cod!TypeOK
    BY DEF CodecInv
<1> QED
    BY <1>1, <1>2, <1>3, PTL DEF StreamsSpec

(* For sizes of every kind the assumptions allow: no index, count or buffer of any part
   leaves its range, the payload a player accepts fits its buffer, the resampler reads
   inside its window, and the ring stays in step with the frames. *)
THEOREM AllTypesTheorem ==
    /\ Cod!CodecAssumption /\ CodecThresholds /\ Play!PlayoutAssumption
    /\ WireAssumption /\ RsAssumption /\ PaceAssumption /\ HsAssumption /\ FramesAssumption
    => (StreamsSpec => []AllTypeOK)
<1> SUFFICES ASSUME Cod!CodecAssumption, CodecThresholds, Play!PlayoutAssumption,
                    WireAssumption, RsAssumption, PaceAssumption, HsAssumption, FramesAssumption
             PROVE  StreamsSpec => []AllTypeOK
    OBVIOUS
<1>1. RsInv => /\ Len(win) <= Window /\ ri \in 1..Window /\ frac \in 0..(Unit - 1)
               /\ step \in (Unit - StepFine)..(Unit + StepFine)
    <2> SUFFICES ASSUME RsTypes PROVE ri \in 1..Window
        BY DEF RsInv, RsTypes
    <2>1. /\ Len(win) \in Nat /\ Len(win) <= Window /\ Window \in Nat \ {0} /\ ri \in Nat \ {0}
          /\ ri = 1 \/ ri < Len(win)
        BY DEF RsTypes, RsAssumption
    <2> QED
        BY <2>1
<1>2. WireInvariant => Len(buf) <= Wire!Need
    BY DEF WireInvariant, WireInv, WireTypes
<1>3. /\ TypeOK /\ OffsetBound /\ RingTypeOK /\ Cod!TypeOK /\ Play!TypeOK /\ Aligned
      /\ SockRange /\ WireInvariant /\ RsInv /\ HsRange /\ PaceRange
      => AllTypeOK
    BY <1>1, <1>2 DEF AllTypeOK, SockRange, HsRange, PaceRange
<1>4. StreamsSpec => []RingTypeOK
    BY RingTypes
<1>5. StreamsSpec => []Cod!TypeOK
    BY CodecInRange
<1>6. StreamsSpec => []Play!TypeOK
    BY PlayoutInRange
<1>7. StreamsSpec => []Aligned
    BY AlignedInvariant
<1>8. StreamsSpec => []SockRange
    BY SockInRange
<1>9. StreamsSpec => []WireInvariant
    BY WireKeeps
<1>10. StreamsSpec => []RsInv
    BY RsInvariant
<1>11. StreamsSpec => []HsRange
    BY HsInRange
<1>12. StreamsSpec => []PaceRange
    BY PaceInRange
<1> QED
    BY <1>3, <1>4, <1>5, <1>6, <1>7, <1>8, <1>9, <1>10, <1>11, <1>12, OffsetTheorem, PTL

-----------------------------------------------------------------------------
(* A sink that waits for a PONG has a PING or a PONG on its way: so it never waits in
   vain, and need not give up on one.  (That the way comes to an end is Starts.) *)
UnderWay(s) == up[s] > 0 \/ \E i \in 1..Len(down[s]) : down[s][i] = "pong"
Answered == \A s \in Sinks : waiting[s] => UnderWay(s)

LEMMA WaitingStep ==
    ASSUME HsRange, waiting \in [Sinks -> BOOLEAN], Answered, Hs!HsNext
    PROVE  waiting' \in [Sinks -> BOOLEAN] /\ Answered'
<1>0. /\ \A s \in Sinks : up[s] \in Int /\ down[s] \in Seq({"pong", "chunk"}) /\ Len(down[s]) \in Nat
      /\ up \in [Sinks -> 0..MaxPings] /\ down \in [Sinks -> Seq({"pong", "chunk"})]
    BY DEF HsRange
<1>1. ASSUME NEW n \in [Sinks -> Nat], Hs!Answered(n), waiting' = waiting PROVE Answered'
    <2> SUFFICES ASSUME NEW s \in Sinks, waiting[s] PROVE UnderWay(s)'
        BY <1>1 DEF Answered
    <2>1. n[s] \in Nat /\ up'[s] = up[s] - n[s]
        BY <1>1 DEF Hs!Answered
    <2>2. down'[s] = down[s] \o [i \in 1..n[s] |-> "pong"]
        BY <1>1 DEF Hs!Answered
    <2>3. /\ Len(down'[s]) = Len(down[s]) + n[s]
          /\ \A i \in 1..Len(down[s]) : down'[s][i] = down[s][i]
          /\ \A i \in (Len(down[s]) + 1)..(Len(down[s]) + n[s]) : down'[s][i] = "pong"
        BY <1>0, <2>1, <2>2, PongsAppended
    <2>4. CASE n[s] = 0
        <3>1. up'[s] = up[s] /\ Len(down'[s]) = Len(down[s])
            BY <1>0, <2>1, <2>3, <2>4
        <3> QED
            BY <2>3, <3>1 DEF Answered, UnderWay
    <2>5. CASE n[s] # 0
        <3>1. /\ Len(down[s]) + 1 \in 1..Len(down'[s])
              /\ Len(down[s]) + 1 \in (Len(down[s]) + 1)..(Len(down[s]) + n[s])
            BY <1>0, <2>1, <2>3, <2>5
        <3>2. down'[s][Len(down[s]) + 1] = "pong"
            BY <2>3, <3>1
        <3> QED
            BY <3>1, <3>2 DEF UnderWay
    <2> QED
        BY <2>4, <2>5
<1>2. CASE Hs!PaceServe \/ Hs!Drain
    <2>1. \E n \in [Sinks -> Nat] : Hs!Answered(n)
        <3>1. Hs!Drained \in [Sinks -> Nat] /\ \A s : Hs!OneOf(s) \in [Sinks -> Nat]
            BY DEF Hs!Drained, Hs!OneOf, HsRange
        <3> QED
            BY <1>2, <3>1 DEF Hs!PaceServe, Hs!Drain
    <2>2. waiting' = waiting
        BY <1>2 DEF Hs!PaceServe, Hs!Drain, Hs!linkVars
    <2> QED
        BY <1>1, <2>1, <2>2
<1>3. CASE Hs!PaceOver \/ Hs!ReadChunk
    BY <1>3 DEF Hs!PaceOver, Hs!ReadChunk, Hs!linkVars, Answered, UnderWay
<1>4. CASE Hs!SendChunk
    <2>1. /\ down' = [s \in Sinks |-> IF s \in Hs!Served THEN Append(down[s], "chunk") ELSE down[s]]
          /\ up' = up /\ waiting' = waiting
        BY <1>4 DEF Hs!SendChunk, Hs!linkVars
    <2> SUFFICES ASSUME NEW s \in Sinks, waiting[s] PROVE UnderWay(s)'
        BY <2>1 DEF Answered
    <2>2. \A i \in 1..Len(down[s]) : i \in 1..Len(down'[s]) /\ down'[s][i] = down[s][i]
        <3>1. CASE down'[s] = Append(down[s], "chunk")
            BY <1>0, <3>1
        <3> QED
            BY <2>1, <3>1
    <2> QED
        BY <2>1, <2>2 DEF Answered, UnderWay
<1>5. ASSUME NEW p \in Sinks, Hs!Ping(p) PROVE waiting' \in [Sinks -> BOOLEAN] /\ Answered'
    <2>1. waiting' = [waiting EXCEPT ![p] = TRUE] /\ up' = [up EXCEPT ![p] = @ + 1] /\ down' = down
        BY <1>5 DEF Hs!Ping
    <2>2. up[p] \in 0..MaxPings /\ up'[p] = up[p] + 1
        BY <1>0, <2>1
    <2>3. up'[p] > 0
        BY <2>2
    <2>4. \A s \in Sinks : s # p => up'[s] = up[s] /\ (waiting'[s] <=> waiting[s])
        BY <1>0, <2>1
    <2> QED
        BY <2>1, <2>3, <2>4 DEF Answered, UnderWay
<1>6. ASSUME NEW p \in Sinks, Hs!Read(p) PROVE waiting' \in [Sinks -> BOOLEAN] /\ Answered'
    <2>1. /\ down[p] # <<>> /\ down' = [down EXCEPT ![p] = Tail(@)] /\ up' = up
          /\ \/ waiting' = [waiting EXCEPT ![p] = FALSE]
             \/ Head(down[p]) = "chunk" /\ waiting' = waiting
        BY <1>6 DEF Hs!Read
    <2>2. \A s \in Sinks : s # p => down'[s] = down[s] /\ (waiting'[s] => waiting[s])
        BY <1>0, <2>1
    <2>3. ASSUME waiting'[p] PROVE UnderWay(p)'
        <3>1. Head(down[p]) = "chunk" /\ waiting[p]
            BY <2>1, <2>3
        <3>2. /\ down[p] \in Seq({"pong", "chunk"}) /\ down[p] # <<>> /\ down'[p] = Tail(down[p])
            BY <1>0, <2>1
        <3>3. /\ Len(down[p]) \in Nat \ {0} /\ Head(down[p]) = down[p][1]
              /\ Len(down'[p]) = Len(down[p]) - 1
              /\ \A i \in 1..Len(down'[p]) : down'[p][i] = down[p][i + 1]
            BY <3>2, HeadTailProperties, EmptySeq
        <3>4. CASE up[p] > 0
            BY <2>1, <3>4 DEF UnderWay
        <3>5. ASSUME NEW i \in 1..Len(down[p]), down[p][i] = "pong" PROVE UnderWay(p)'
            <4>1. i # 1
                BY <3>1, <3>3, <3>5
            <4>2. i - 1 \in 1..Len(down'[p]) /\ (i - 1) + 1 = i
                BY <3>3, <4>1
            <4>3. down'[p][i - 1] = "pong"
                BY <3>3, <3>5, <4>2
            <4> QED
                BY <4>2, <4>3 DEF UnderWay
        <3> QED
            BY <3>1, <3>4, <3>5 DEF Answered, UnderWay
    <2>4. waiting' \in [Sinks -> BOOLEAN]
        BY <2>1
    <2>5. ASSUME NEW s \in Sinks, waiting'[s], s # p PROVE UnderWay(s)'
        BY <2>1, <2>2, <2>5 DEF Answered, UnderWay
    <2> QED
        BY <2>3, <2>4, <2>5 DEF Answered
<1>7. ASSUME NEW s \in Sinks, Hs!Sticks(s) PROVE waiting' \in [Sinks -> BOOLEAN] /\ Answered'
    BY <1>7 DEF Hs!Sticks, Answered, UnderWay
<1>8. CASE Hs!PaceServe \/ Hs!Drain \/ Hs!PaceOver \/ Hs!ReadChunk \/ Hs!SendChunk
    <2>1. waiting' = waiting
        BY <1>8 DEF Hs!PaceServe, Hs!Drain, Hs!PaceOver, Hs!ReadChunk, Hs!SendChunk, Hs!linkVars
    <2> QED
        BY <1>2, <1>3, <1>4, <1>8, <2>1
<1> QED
    BY <1>5, <1>6, <1>7, <1>8 DEF Hs!HsNext, Hs!FanoutLoop, Hs!PingDue, Hs!PingAgain

(* For any number of sinks, whatever the feed does and whoever gets stuck: a sink that
   waits for the answer to a PING is not forgotten. *)
THEOREM AnsweredTheorem == HsAssumption => (StreamsSpec => []Answered)
<1> SUFFICES ASSUME HsAssumption PROVE StreamsSpec => []Answered
    OBVIOUS
<1> DEFINE I == waiting \in [Sinks -> BOOLEAN] /\ Answered
<1>1. StreamsInit => I
    BY DEF StreamsInit, Hs!HsInit, Answered
<1>2. HsRange /\ I /\ [StreamsNext]_allVars => I'
    <2>1. UNCHANGED hsState /\ I => I'
        BY DEF hsState, Answered, UnderWay
    <2> QED
        BY <2>1, WaitingStep, StepOfHandshake
<1>3. I => Answered
    OBVIOUS
<1> HIDE DEF I
<1> QED
    BY <1>1, <1>2, <1>3, HsInRange, PTL DEF StreamsSpec

-----------------------------------------------------------------------------
(* The schedule servo.  What is being written of a period is not yet played. *)
InHand == IF place = "write" /\ ~ silence THEN SdPeriod ELSE 0

SchedRange ==
    /\ lag \in Int /\ skew \in SdSkews /\ flight \in Nat /\ depth \in Nat
    /\ flight + depth <= SdRingMax
    /\ queue \in 0..SdDacMax /\ toWrite \in 0..SdPeriod /\ sinceCorr \in 0..SdPause
    /\ fresh \in BOOLEAN /\ silence \in BOOLEAN

(* What an anchor taken now would say of the label. *)
Held == Sched!Anchored(flight, depth + InHand)
Conserved == (~ fresh => lag = Held) /\ lag >= Held

SchedInv == SchedRange /\ Conserved

LEMMA StepOfSchedule == [StreamsNext]_allVars => Sched!SchedNext \/ UNCHANGED schedState
BY DEF StreamsNext, allVars, ClockStep, RingStep, CodecStep, PlayStep, WireStep, RsStep,
       HsStep, PaceStep, SchedStep

LEMMA LessHeld ==
    ASSUME NEW f \in Nat, NEW d \in Nat, NEW n \in Nat, NEW m \in Nat, NEW r \in Nat,
           n <= f, m <= d + n, f + d <= r
    PROVE  (f - n) \in Nat /\ (f - n) + m <= r
OBVIOUS

LEMMA SchedStepInv ==
    ASSUME SchedAssumption, SchedInv, Sched!SchedNext
    PROVE  SchedInv'
<1> DEFINE h == InHand
<1>0. /\ SdPeriod \in Nat /\ SdTarget \in Nat /\ SdDeadband \in Nat /\ SdMaxStep \in Nat
      /\ SdFloor \in Nat /\ SdPause \in Nat /\ SdDacMax \in Nat /\ SdRingMax \in Nat
      /\ skew \in Int /\ SdPeriod + skew <= SdTarget + SdDacMax
    BY DEF SchedAssumption, SchedInv, SchedRange
<1>1. /\ lag \in Int /\ skew \in SdSkews /\ flight \in Nat /\ depth \in Nat
      /\ flight + depth <= SdRingMax
      /\ queue \in 0..SdDacMax /\ toWrite \in 0..SdPeriod /\ sinceCorr \in 0..SdPause
      /\ fresh \in BOOLEAN /\ silence \in BOOLEAN
    BY DEF SchedInv, SchedRange
<1>2. /\ ~ fresh => lag = flight + (depth + h) - SdTarget + skew
      /\ lag >= flight + (depth + h) - SdTarget + skew
      /\ h \in {0, SdPeriod}
    BY DEF SchedInv, Conserved, Held, Sched!Anchored, InHand
<1>3. h = IF place = "write" /\ ~ silence THEN SdPeriod ELSE 0
    BY DEF InHand
<1>4. ASSUME NEW n \in 0..SdRingMax, Sched!Look(n) PROVE SchedInv'
    <2>1. /\ n <= flight /\ depth + n <= SdRingMax /\ flight' = flight - n
          /\ place' = "servo" /\ h = 0
          /\ UNCHANGED <<queue, toWrite, silence, skew>>
        BY <1>3, <1>4 DEF Sched!Look, Sched!Read, Sched!env
    <2>2. InHand' = 0
        BY <2>1 DEF InHand
    <2>3. CASE /\ fresh /\ n > 0
               /\ depth' = Sched!Lesser(depth + n, SdTarget)
               /\ lag' = Sched!Anchored(flight', depth')
               /\ sinceCorr' = SdPause /\ fresh' = FALSE
        <3>1. depth' \in Nat /\ depth' <= depth + n
            BY <1>0, <1>1, <2>3 DEF Sched!Lesser
        <3>2. PICK f, d \in Nat : f = flight' /\ d = depth' /\ f = flight - n /\ d <= depth + n
            BY <1>1, <2>1, <3>1
        <3>3. f + d <= SdRingMax
            <4>1. n \in Nat /\ n <= flight /\ d <= depth + n /\ f = flight - n
                BY <2>1, <3>2
            <4>2. (flight - n) + d <= SdRingMax
                BY <1>0, <1>1, <4>1, LessHeld
            <4> QED
                BY <4>1, <4>2
        <3>4. lag' = f + d - SdTarget + skew /\ d + 0 = d
            BY <2>3, <3>2 DEF Sched!Anchored
        <3>5. SchedRange'
            <4>1. lag' \in Int
                BY <1>0, <3>2, <3>4
            <4>2. sinceCorr' \in 0..SdPause
                BY <1>0, <2>3
            <4>3. fresh' \in BOOLEAN
                BY <2>3, Zenon
            <4>4. flight' \in Nat /\ depth' \in Nat /\ flight' + depth' <= SdRingMax
                BY <3>2, <3>3
            <4> QED
                BY <1>1, <2>1, <4>1, <4>2, <4>3, <4>4 DEF SchedRange
        <3>6. Held' = f + (d + 0) - SdTarget + skew
            BY <2>1, <2>2, <3>2 DEF Held, Sched!Anchored
        <3>7. lag' = Held' /\ lag' >= Held'
            BY <1>0, <3>2, <3>4, <3>6
        <3> QED
            BY <3>5, <3>7 DEF SchedInv, Conserved
    <2>4. CASE depth' = depth + n /\ UNCHANGED <<lag, sinceCorr, fresh>>
        <3>1. PICK f, d \in Nat : f = flight' /\ d = depth' /\ f = flight - n /\ d = depth + n
            BY <1>1, <2>1, <2>4
        <3>2. f + d = flight + depth
            BY <1>1, <3>1
        <3>3. Held' = f + (d + 0) - SdTarget + skew
            BY <2>1, <2>2, <3>1 DEF Held, Sched!Anchored
        <3>4. Held' = flight + (depth + h) - SdTarget + skew
            BY <1>0, <1>1, <2>1, <3>1, <3>2, <3>3
        <3>5. SchedRange'
            BY <1>1, <2>1, <2>4, <3>1, <3>2 DEF SchedRange
        <3>6. Conserved'
            BY <1>2, <2>4, <3>4 DEF Conserved
        <3> QED
            BY <3>5, <3>6 DEF SchedInv
    <2> QED
        BY <1>4, <2>3, <2>4 DEF Sched!Look
<1>5. CASE Sched!ServoBehind
    <2>1. /\ UNCHANGED <<flight, queue, toWrite, silence, fresh, skew>>
          /\ sinceCorr' = 0 /\ place' = "period" /\ h = 0
        BY <1>3, <1>5 DEF Sched!ServoBehind, Sched!env
    <2>2. InHand' = 0
        BY <2>1 DEF InHand
    <2>3. \E k \in Nat : k <= depth /\ depth' = depth - k /\ lag' = lag - k
        <3>1. CASE depth' = depth /\ lag' = lag
            BY <1>1, <3>1
        <3>2. CASE Sched!Skip > 0 /\ depth' = depth - Sched!Skip /\ lag' = lag - Sched!Skip
            <4>1. Sched!Skip \in Int /\ Sched!Skip <= depth
                BY <1>0, <1>1 DEF Sched!Skip, Sched!Lesser, Sched!Err
            <4> QED
                BY <3>2, <4>1
        <3> QED
            BY <1>5, <3>1, <3>2 DEF Sched!ServoBehind
    <2>4. PICK k \in Nat : k <= depth /\ depth' = depth - k /\ lag' = lag - k
        BY <2>3
    <2>5. Held' = flight + ((depth - k) + 0) - SdTarget + skew
        BY <2>1, <2>2, <2>4 DEF Held, Sched!Anchored
    <2>6. depth - k \in Nat /\ flight + (depth - k) <= SdRingMax
        BY <1>0, <1>1, <2>4
    <2>7. SchedRange'
        BY <1>0, <1>1, <2>1, <2>4, <2>6 DEF SchedRange
    <2>8. (~ fresh => lag - k = Held') /\ lag - k >= Held'
        BY <1>0, <1>1, <1>2, <2>1, <2>5
    <2> QED
        BY <2>1, <2>4, <2>7, <2>8 DEF SchedInv, Conserved
<1>6. CASE Sched!ServoAhead
    <2>1. /\ toWrite' = Sched!Lesser(Sched!Lesser(-Sched!Err, SdMaxStep), SdPeriod)
          /\ Sched!Err < -SdDeadband
          /\ UNCHANGED <<lag, flight, depth, queue, fresh, skew>>
          /\ sinceCorr' = 0 /\ place' = "write" /\ silence' = TRUE /\ h = 0
        BY <1>3, <1>6 DEF Sched!ServoAhead, Sched!env, Sched!audio
    <2>2. toWrite' \in 0..SdPeriod
        BY <1>0, <1>1, <2>1 DEF Sched!Lesser, Sched!Err
    <2>3. SchedRange'
        BY <1>0, <1>1, <2>1, <2>2 DEF SchedRange
    <2>4. InHand' = 0
        BY <2>1 DEF InHand
    <2>5. Held' = flight + (depth + h) - SdTarget + skew
        BY <2>1, <2>4 DEF Held, Sched!Anchored
    <2> QED
        BY <1>2, <2>1, <2>3, <2>5 DEF SchedInv, Conserved
<1>7. CASE Sched!ServoRests
    <2>1. /\ UNCHANGED <<lag, flight, depth, queue, toWrite, silence, sinceCorr, fresh, skew>>
          /\ place' = "period" /\ h = 0
        BY <1>3, <1>7 DEF Sched!ServoRests, Sched!env, Sched!audio
    <2>2. Held' = flight + (depth + h) - SdTarget + skew
        BY <2>1 DEF Held, Sched!Anchored, InHand
    <2> QED
        BY <1>1, <1>2, <2>1, <2>2 DEF SchedInv, SchedRange, Conserved
<1>8. CASE Sched!PlayPeriod
    <2>1. UNCHANGED <<lag, flight, queue, sinceCorr, fresh, skew>> /\ h = 0
        BY <1>3, <1>8 DEF Sched!PlayPeriod, Sched!env
    <2>2. CASE /\ depth >= SdPeriod /\ depth' = depth - SdPeriod /\ toWrite' = SdPeriod
               /\ silence' = FALSE /\ place' = "write"
        <3>1. InHand' = SdPeriod
            BY <2>2 DEF InHand
        <3>2. Held' = flight + ((depth - SdPeriod) + SdPeriod) - SdTarget + skew
            BY <2>1, <2>2, <3>1 DEF Held, Sched!Anchored
        <3>3. Held' = flight + (depth + h) - SdTarget + skew
            BY <1>0, <1>1, <2>1, <3>2
        <3>4. depth - SdPeriod \in Nat /\ flight + (depth - SdPeriod) <= SdRingMax
            BY <1>0, <1>1, <2>2
        <3>5. SchedRange'
            <4>1. toWrite' \in 0..SdPeriod
                BY <1>0, <2>2
            <4>2. silence' \in BOOLEAN
                BY <2>2, Zenon
            <4>3. depth' \in Nat /\ flight' + depth' <= SdRingMax
                BY <2>1, <2>2, <3>4
            <4> QED
                BY <1>1, <2>1, <4>1, <4>2, <4>3 DEF SchedRange
        <3> QED
            BY <1>2, <2>1, <3>3, <3>5 DEF SchedInv, Conserved
    <2>3. CASE place' = "wait" /\ UNCHANGED <<depth, toWrite, silence>>
        <3>1. Held' = flight + (depth + h) - SdTarget + skew
            BY <2>1, <2>3 DEF Held, Sched!Anchored, InHand
        <3> QED
            BY <1>1, <1>2, <2>1, <2>3, <3>1 DEF SchedInv, SchedRange, Conserved
    <2> QED
        BY <1>8, <2>2, <2>3 DEF Sched!PlayPeriod
<1>9. CASE Sched!Write
    <2>1. /\ toWrite > 0 /\ queue < SdDacMax
          /\ queue' = queue + Sched!Lesser(toWrite, SdDacMax - queue)
          /\ toWrite' = toWrite - Sched!Lesser(toWrite, SdDacMax - queue)
          /\ UNCHANGED <<lag, flight, depth, place, silence, sinceCorr, fresh, skew>>
        BY <1>9 DEF Sched!Write, Sched!env
    <2>2. queue' \in 0..SdDacMax /\ toWrite' \in 0..SdPeriod
        BY <1>0, <1>1, <2>1 DEF Sched!Lesser
    <2>3. Held' = flight + (depth + h) - SdTarget + skew
        BY <2>1 DEF Held, Sched!Anchored, InHand
    <2> QED
        BY <1>1, <1>2, <2>1, <2>2, <2>3 DEF SchedInv, SchedRange, Conserved
<1>10. CASE Sched!Written
    <2>1. UNCHANGED <<flight, depth, queue, toWrite, silence, sinceCorr, fresh, skew>>
        BY <1>10 DEF Sched!Written, Sched!env, Sched!audio
    <2>2. CASE silence /\ lag' = lag /\ place' = "period"
        <3>1. Held' = flight + (depth + h) - SdTarget + skew
            BY <1>3, <2>1, <2>2 DEF Held, Sched!Anchored, InHand
        <3> QED
            BY <1>1, <1>2, <2>1, <2>2, <3>1 DEF SchedInv, SchedRange, Conserved
    <2>3. CASE ~ silence /\ lag' = lag - SdPeriod /\ place' = "look" /\ place = "write"
        <3>1. h = SdPeriod /\ InHand' = 0
            BY <2>3 DEF InHand
        <3>2. Held' = flight + (depth + 0) - SdTarget + skew
            BY <2>1, <3>1 DEF Held, Sched!Anchored
        <3>3. (~ fresh => lag - SdPeriod = Held') /\ lag - SdPeriod >= Held'
            BY <1>0, <1>1, <1>2, <3>1, <3>2
        <3>4. SchedRange'
            BY <1>0, <1>1, <2>1, <2>3 DEF SchedRange
        <3> QED
            BY <2>1, <2>3, <3>3, <3>4 DEF SchedInv, Conserved
    <2> QED
        BY <1>10, <2>2, <2>3 DEF Sched!Written
<1>11. ASSUME NEW n \in 0..2, NEW k \in {0, 1}, Sched!Tick(n, k) PROVE SchedInv'
    <2>1. /\ flight + depth + k <= SdRingMax /\ flight' = flight + k
          /\ lag' = Sched!Bounded(lag + 1) /\ sinceCorr' = Sched!Lesser(sinceCorr + 1, SdPause)
          /\ fresh' = (fresh \/ k = 0)
          /\ UNCHANGED <<depth, toWrite, silence, skew>>
        <3>1. flight + depth + k <= SdRingMax - (IF calm THEN 0 ELSE SdPeriod + 1)
            BY <1>11 DEF Sched!Tick
        <3>2. flight + depth + k <= SdRingMax
            BY <1>0, <1>1, <3>1
        <3> QED
            BY <1>11, <3>2 DEF Sched!Tick, Sched!env
    <2>2. InHand' = h
        <3>1. place' = IF place = "wait" THEN "look" ELSE place
            BY <1>11 DEF Sched!Tick
        <3> QED
            BY <2>1, <3>1 DEF InHand
    <2>3. queue' \in 0..SdDacMax
        BY <1>0, <1>1, <1>11 DEF Sched!Tick, Sched!Plays
    <2>4. /\ sinceCorr' \in 0..SdPause /\ flight + k \in Nat /\ (flight + k) + depth <= SdRingMax
          /\ fresh' \in BOOLEAN
        BY <1>0, <1>1, <2>1 DEF Sched!Lesser
    <2>5. Held' = (flight + k) + (depth + h) - SdTarget + skew
        BY <2>1, <2>2 DEF Held, Sched!Anchored
    <2>6. Held' <= SdRingMax + SdDacMax
        BY <1>0, <1>1, <1>2, <2>1, <2>5
    <2>7. lag' = IF lag + 1 > SdRingMax + SdDacMax THEN SdRingMax + SdDacMax ELSE lag + 1
        BY <2>1 DEF Sched!Bounded
    <2>8. lag + 1 >= Held' /\ (~ fresh' => lag + 1 = Held')
        <3>1. CASE k = 0
            <4>1. Held' = flight + (depth + h) - SdTarget + skew
                BY <1>1, <2>5, <3>1
            <4>2. fresh'
                BY <2>1, <3>1, Zenon
            <4>3. lag + 1 >= Held'
                BY <1>0, <1>1, <1>2, <4>1
            <4> QED
                BY <4>2, <4>3
        <3>2. CASE k = 1
            <4>1. (fresh' <=> fresh) /\ Held' = flight + (depth + h) - SdTarget + skew + 1
                BY <1>0, <1>1, <1>2, <2>1, <2>5, <3>2
            <4> QED
                BY <1>0, <1>1, <1>2, <4>1
        <3> QED
            BY <3>1, <3>2
    <2>9. PICK hh \in Int : hh = Held'
        BY <1>0, <1>1, <1>2, <2>5
    <2>10. lag' \in Int /\ lag' >= hh /\ (~ fresh' => lag' = hh)
        BY <1>0, <1>1, <2>6, <2>7, <2>8, <2>9
    <2>11. SchedRange'
        BY <1>1, <2>1, <2>3, <2>4, <2>10 DEF SchedRange
    <2> QED
        BY <2>9, <2>10, <2>11 DEF SchedInv, Conserved
<1>12. CASE Sched!Weather
    BY <1>12 DEF Sched!Weather, Sched!audio, SchedInv, SchedRange, Conserved, Held, Sched!Anchored, InHand
<1> QED
    BY <1>4, <1>5, <1>6, <1>7, <1>8, <1>9, <1>10, <1>11, <1>12
       DEF Sched!SchedNext, Sched!TimePasses, Sched!FeedStalls

(* For buffers, steps, periods and skews of any size, in any weather: unless an epoch is
   about to begin, the servo's label is exactly what an anchor taken now would make it.
   Whatever the servo skips, plays or holds back with silence and however often the DAC
   runs dry, the label does not creep away from the schedule's; and no buffer or count
   leaves its range. *)
THEOREM ConservedTheorem == SchedAssumption => (StreamsSpec => []SchedInv)
<1> SUFFICES ASSUME SchedAssumption PROVE StreamsSpec => []SchedInv
    OBVIOUS
<1>1. StreamsInit => SchedInv
    <2> SUFFICES ASSUME StreamsInit PROVE SchedInv
        OBVIOUS
    <2>1. /\ skew \in SdSkews /\ flight = 0 /\ depth \in 0..SdRingMax
          /\ lag = Sched!Anchored(0, depth)
          /\ queue = 0 /\ place = "look" /\ toWrite = 0 /\ silence = FALSE
          /\ sinceCorr = SdPause /\ fresh = TRUE
        BY DEF StreamsInit, Sched!SchedInit
    <2>2. /\ SdTarget \in Nat /\ skew \in Int /\ SdDacMax \in Nat /\ SdPeriod \in Nat
          /\ SdPause \in Nat /\ SdRingMax \in Nat
        BY <2>1 DEF SchedAssumption
    <2>5. depth \in Nat /\ depth <= SdRingMax /\ 0 + depth = depth /\ depth + 0 = depth
        BY <2>1, <2>2
    <2>6. lag = depth - SdTarget + skew
        <3>1. lag = 0 + depth - SdTarget + skew
            BY <2>1 DEF Sched!Anchored
        <3> QED
            BY <2>2, <2>5, <3>1
    <2>3. SchedRange
        <3>1. lag \in Int
            BY <2>2, <2>5, <2>6
        <3>2. flight + depth <= SdRingMax
            BY <2>1, <2>5
        <3>3. queue \in 0..SdDacMax /\ toWrite \in 0..SdPeriod /\ sinceCorr \in 0..SdPause
            BY <2>1, <2>2
        <3>4. fresh \in BOOLEAN /\ silence \in BOOLEAN
            BY <2>1, Zenon
        <3>5. flight \in Nat /\ skew \in SdSkews
            BY <2>1
        <3> QED
            BY <2>5, <3>1, <3>2, <3>3, <3>4, <3>5 DEF SchedRange
    <2>4. Held = lag
        <3>1. InHand = 0
            BY <2>1 DEF InHand
        <3>2. Held = 0 + (depth + 0) - SdTarget + skew
            BY <2>1, <3>1 DEF Held, Sched!Anchored
        <3>3. depth \in Int /\ depth + 0 = depth
            BY <2>5
        <3> QED
            BY <2>2, <2>6, <3>2, <3>3
    <2> QED
        BY <2>1, <2>3, <2>4 DEF SchedInv, SchedRange, Conserved
<1>2. SchedInv /\ [StreamsNext]_allVars => SchedInv'
    <2>1. UNCHANGED schedState /\ SchedInv => SchedInv'
        BY DEF schedState, SchedInv, SchedRange, Conserved, Held, Sched!Anchored, InHand
    <2> QED
        BY <2>1, SchedStepInv, StepOfSchedule
<1> QED
    BY <1>1, <1>2, PTL DEF StreamsSpec
=============================================================================
