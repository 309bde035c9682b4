------------------------------- MODULE PcmRing -------------------------------
(***************************************************************************)
(* The circular buffer between the network and the DAC (struct pcmring,    *)
(* rb_push, rb_pop, rb_drop), byte for byte.  head and the tail are less   *)
(* than RingBytes and count is at most that, so `% RN_RING_BYTES` is one   *)
(* subtraction.                                                            *)
(***************************************************************************)
EXTENDS Integers, Sequences

CONSTANTS RingBytes,  \* RN_RING_BYTES
          Chunks,     \* what is pushed: sequences of bytes
          Amounts,    \* how many bytes are popped or dropped
          Byte

ASSUME RingAssumption ==
    /\ RingBytes \in Nat \ {0} /\ Amounts \subseteq Nat /\ Byte # {}
    /\ \A p \in Chunks : p \in Seq(Byte)

VARIABLES rbuf, rhead, rcount,
          took   \* what the last rb_pop handed over

ringVars == <<rbuf, rhead, rcount, took>>

Wrap(i) == IF i >= RingBytes THEN i - RingBytes ELSE i
Least(n, m) == IF n <= m THEN n ELSE m

(* rb_init; what the memory holds before does not matter. *)
RingInit ==
    /\ rbuf \in [0..(RingBytes - 1) -> Byte]
    /\ rhead = 0 /\ rcount = 0 /\ took = <<>>

Space == RingBytes - rcount
RingTail == Wrap(rhead + rcount)

(* Two memcpy: up to the end of the buffer, then from its start. *)
SecondCopyLost(p, n, first) ==                                        \* fault
    [k \in 0..(RingBytes - 1) |->
        IF RingTail <= k /\ k < RingTail + n THEN p[k - RingTail + 1] ELSE rbuf[k]]
Copied(p, n, first) ==
    [k \in 0..(RingBytes - 1) |->
        IF RingTail <= k /\ k < RingTail + first THEN p[k - RingTail + 1]
        ELSE IF k < n - first THEN p[first + k + 1] ELSE rbuf[k]]

RbPush(p) ==
    LET n == Least(Len(p), Space)
    IN /\ rbuf' = Copied(p, n, Least(RingBytes - RingTail, n))
       /\ rcount' = rcount + n
       /\ UNCHANGED <<rhead, took>>

Taken(n, first) ==
    [i \in 1..n |-> IF i <= first THEN rbuf[rhead + i - 1] ELSE rbuf[i - first - 1]]

Advance(n) == rhead' = Wrap(rhead + n) /\ rcount' = rcount - n

RbPop(m) ==
    LET n == Least(m, rcount)
    IN /\ took' = Taken(n, Least(RingBytes - rhead, n))
       /\ Advance(n)
       /\ UNCHANGED rbuf

RbDrop(m) == Advance(Least(m, rcount)) /\ UNCHANGED <<rbuf, took>>

RingNext == (\E p \in Chunks : RbPush(p)) \/ (\E n \in Amounts : RbPop(n) \/ RbDrop(n))
RingSpec == RingInit /\ [][RingNext]_ringVars

-----------------------------------------------------------------------------
(* The queue it stands for: count bytes from head on, going round. *)
Contents == [i \in 1..rcount |-> rbuf[Wrap(rhead + i - 1)]]

Queue == INSTANCE Fifo WITH Capacity <- RingBytes, queue <- Contents, popped <- took

RingTypeOK ==
    /\ rbuf \in [0..(RingBytes - 1) -> Byte]
    /\ rhead \in 0..(RingBytes - 1) /\ rcount \in 0..RingBytes
    /\ took \in Seq(Byte)

(* The ring is a bounded queue: whatever the wrap does to a push or a pop. *)
RingPromised == Queue!FifoSpec
=============================================================================
