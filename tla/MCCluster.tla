------------------------------ MODULE MCCluster -----------------------------
(***************************************************************************)
(* A whole household of node daemons under fair gossip: do they agree?     *)
(***************************************************************************)
EXTENDS Node

MCSignal == [n \in Nodes |-> IF n = Cardinality(Nodes) THEN 1 ELSE 2]

(* Gossip is on time: no entry of a peer table outlives the TTL. *)
OnTime == Init /\ [][Daemons]_vars /\ Fairness

(* Once commands, restarts and deaths of fan-outs cease, gossip brings all
   nodes to agree for good, with no arbiter. *)
Converges == <>[]Agreed
=============================================================================
