------------------------------ MODULE MCFanout ------------------------------
(***************************************************************************)
(* The properties of the fan-out, for TLC.                                 *)
(***************************************************************************)
EXTENDS Fanout

(* The members the unread commands are about to add ("+") or remove ("-"). *)
Unread(op) == {pipe[i].ip : i \in {j \in DOMAIN pipe : pipe[j].op = op}}

Cmd == [op : {"+", "-"}, ip : Ips]

TypeOK ==
    /\ cur \in SUBSET Ips /\ twice \in SUBSET (cur \ {Loopback})
    /\ fan \in {"none", "run", "exited"} /\ pc \in {"start", "ctrl", "retry", "send"}
    /\ pipe \in Seq(Cmd) /\ unwritten \in 0..Len(pipe) /\ todo \in Seq(Ips)
    /\ sock \in [Slots -> Ips \cup {NoIp}] /\ up \in [Slots -> BOOLEAN]
    /\ skips \in [Slots -> 0..MaxSkips]
    /\ pend \in [Ips -> Nat] /\ NPend(pend) <= FanoutMax
    /\ player \in [Ips -> {"listening", "connected", "down"}]
    /\ nodeUp \in BOOLEAN /\ changes \in 0..MaxChanges /\ failures \in 0..MaxFailures

(* No member gets the stream twice, and a player that is connected is
   connected in one slot: a "+" for a member that is there, pending or half
   dead opens no second connection. *)
OneConnection ==
    /\ \A s, t \in Slots : sock[s] = sock[t] /\ sock[s] # NoIp => s = t
    /\ \A ip \in Ips : player[ip] = "connected" <=> \E s \in Slots : sock[s] = ip /\ up[s]

(* The fan-out serves, and keeps trying, only members the node asked for: who
   is in neither cur_ips nor about to be removed is not connected, not retried. *)
OnlyAskedFor ==
    fan = "run" => Live \cup Pending \cup Range(todo) \subseteq cur \cup Unread("-")

(* "A member joining/leaving/flapping never disrupts ... the other rooms": a
   member that is asked for all along, whose player is up and not stuck, stays
   in its slot whatever happens to the others. *)
StaysConnected ==
    \A s \in Slots :
        /\ sock[s] # NoIp /\ up[s] /\ sock[s] \in (cur \cap cur') \ Unread("-")
        /\ fan = "run" /\ fan' = "run"
        => sock'[s] = sock[s] \/ (skips[s] = MaxSkips /\ failures' > failures)

Undisturbed == [][StaysConnected]_vars

(* "A member that isn't listening yet (sink mid-respawn) is retried": when the
   fan-out goes into another round with a player in some slot, so that the next
   chunk does not find all its sinks gone, each member asked for is connected,
   pending, or about to be added. *)
NobodyForgotten ==
    At("ctrl") /\ (\E s \in Slots : up[s])
        => cur \subseteq Live \cup Pending \cup Range(todo) \cup Unread("+")

(* Once the members stop changing, and as long as no player failed, the fan-out
   streams to exactly the members of the last consensus. *)
Settles == <>[](fan = "run" /\ failures = 0 => Live = cur /\ Pending = {})

(* "control pipe closed - exiting": a fan-out does not outlive its node. *)
NoOrphan == ~ nodeUp ~> fan # "run"
=============================================================================
