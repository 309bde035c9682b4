------------------------------- MODULE Channel -------------------------------
(***************************************************************************)
(* What replaynet's wire promises to the player that reads it: the         *)
(* messages of one source in the order they were sent, each of them whole, *)
(* up to an end that is "clean" only if the source itself closed and       *)
(* nothing it sent is missing.                                             *)
(***************************************************************************)
EXTENDS Sequences, Naturals

CONSTANT Message   \* the messages there are

VARIABLES queue,   \* sent and not yet received
          shut,    \* the source: "no", "closed", or "lost" with some of the queue
          got,     \* the last message received, NoMessage before the first
          end      \* the receiver: "open", "clean" or "broken"

NoMessage == [kind |-> "none"]
chanVars == <<queue, shut, got, end>>

ChanInit == queue = <<>> /\ shut = "no" /\ got = NoMessage /\ end = "open"

Send == /\ shut = "no" /\ Len(queue') = Len(queue) + 1
        /\ queue'[Len(queue')] \in Message
        /\ queue' = Append(queue, queue'[Len(queue')])
        /\ UNCHANGED <<shut, got, end>>

Shut == /\ shut = "no" /\ shut' = "closed"
        /\ UNCHANGED <<queue, got, end>>

Lose == /\ shut' = "lost"
        /\ \E k \in 0..Len(queue) : queue' = SubSeq(queue, 1, k)
        /\ UNCHANGED <<got, end>>

Receive == /\ end = "open" /\ queue # <<>>
           /\ got' = Head(queue) /\ queue' = Tail(queue)
           /\ UNCHANGED <<shut, end>>

End == /\ end = "open"
       /\ \/ end' = "clean" /\ shut = "closed" /\ queue = <<>>
          \/ end' = "broken" /\ shut = "lost" /\ queue = <<>>
       /\ UNCHANGED <<queue, shut, got>>

ChanNext == Send \/ Shut \/ Lose \/ Receive \/ End

ChanSpec == ChanInit /\ [][ChanNext]_chanVars
=============================================================================
