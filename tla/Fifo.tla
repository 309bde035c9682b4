-------------------------------- MODULE Fifo --------------------------------
(***************************************************************************)
(* What the jitter buffer promises: a bounded queue.  A push keeps what    *)
(* fits of what it is given, a pop hands over the oldest, a drop discards  *)
(* the oldest.                                                             *)
(***************************************************************************)
EXTENDS Integers, Sequences

CONSTANTS Capacity, Chunks, Amounts

VARIABLES queue, popped

fifoVars == <<queue, popped>>

AtMost(n, m) == IF n <= m THEN n ELSE m
First(s, n) == [i \in 1..n |-> s[i]]
Rest(s, n) == [i \in 1..(Len(s) - n) |-> s[n + i]]

FifoInit == queue = <<>> /\ popped = <<>>

Push(p) == LET n == AtMost(Len(p), Capacity - Len(queue))
           IN queue' = [i \in 1..(Len(queue) + n) |->
                          IF i <= Len(queue) THEN queue[i] ELSE p[i - Len(queue)]]
              /\ UNCHANGED popped

Pop(n) == LET m == AtMost(n, Len(queue))
          IN popped' = First(queue, m) /\ queue' = Rest(queue, m)

Drop(n) == queue' = Rest(queue, AtMost(n, Len(queue))) /\ UNCHANGED popped

FifoNext == (\E p \in Chunks : Push(p)) \/ (\E n \in Amounts : Pop(n) \/ Drop(n))

FifoSpec == FifoInit /\ [][FifoNext]_fifoVars
=============================================================================
