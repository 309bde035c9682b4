-------------------------------- MODULE Node --------------------------------
(***************************************************************************)
(* The node daemon of replaynet (run_node): its voluntary claim, its peer  *)
(* table fed by lossy gossip, the control commands, and the consensus tick *)
(* that turns the table into this node's role and the set of members it    *)
(* asks its fan-out to stream to.  The fan-out itself is module Fanout.    *)
(*                                                                         *)
(* An observer is a node whose daemon is modelled in full.  Of any other   *)
(* node only the claim is, and it changes the way its own commands and     *)
(* restarts change it.  Time is counted in gossip periods (1 s).  A        *)
(* multicast datagram is heard at once or lost; nothing repeats it.        *)
(***************************************************************************)
EXTENDS Integers, FiniteSets, Grouping

CONSTANTS
    Nodes,         \* device ids, positive integers in strcmp order
    Observers,     \* the nodes modelled in full
    DefaultGroup,  \* the group a node listens to when it starts
    Signal,        \* [Nodes -> Int], the --signal each node was started with
    Slots,         \* RN_MAX_PEERS
    FanoutMax,     \* RN_FANOUT_MAX
    TTL,           \* RN_PEER_TTL_NS, in gossip periods
    Grace,         \* RN_GROUP_GRACE_NS, in gossip periods
    MaxCommands    \* bound on commands, restarts and deaths of a fan-out

Groups == Nodes \cup {DefaultGroup}

ASSUME NodeAssumption ==
    /\ Nodes \subseteq Nat \ {0} /\ Observers \subseteq Nodes
    /\ DefaultGroup \in Nat \ {0} /\ DefaultGroup \notin Nodes
    /\ Signal \in [Nodes -> Int]
    /\ Slots \in Nat /\ FanoutMax \in Nat \ {0}
    /\ TTL \in Nat /\ Grace \in Nat /\ TTL < Grace
    /\ MaxCommands \in Nat

VARIABLES
    claim,     \* claim[n]: struct rn_dev self of node n, which it gossips
    peers,     \* peers[o]: the peer table, a function of slots
    role,      \* role[o]: the group o sources by its last consensus, or NONE
    cur,       \* cur[o]: cur_ips, the members asked for ({} = no fan-out)
    due,       \* due[o]: 500 ms have passed since o's last_consensus
    commands   \* commands, restarts and deaths of a fan-out so far

vars == <<claim, peers, role, cur, due, commands>>

Self(n) == [id |-> n, source |-> NONE, sink |-> DefaultGroup,
            signal |-> Signal[n], time |-> 0]

NoPeer == [used |-> FALSE, dev |-> [Self(CHOOSE n \in Nodes : TRUE) EXCEPT !.id = NONE],
           age |-> Grace]

Init ==
    /\ claim = [n \in Nodes |-> Self(n)]
    /\ peers = [o \in Observers |-> [k \in 1..Slots |-> NoPeer]]
    /\ role = [o \in Observers |-> NONE]
    /\ cur = [o \in Observers |-> {}]
    /\ due = [o \in Observers |-> TRUE]
    /\ commands = 0

-----------------------------------------------------------------------------
(* The peer table. *)

Least(S) == CHOOSE k \in S : \A m \in S : k <= m

(* What a slot holds once dev's gossip is recorded in it. *)
RefreshOnly(old, dev) ==                    \* fault: a known peer is not updated
    [used |-> TRUE, dev |-> IF old.dev.id = dev.id THEN old.dev ELSE dev, age |-> 0]
Heard(old, dev) == [used |-> TRUE, dev |-> dev, age |-> 0]

(* peer_find, else peer_slot: the live entry of this id, else the first slot
   not in use, whatever an expired peer left in it; else it is not recorded. *)
Register(tbl, dev) ==
    LET known  == {k \in 1..Slots : tbl[k].used /\ tbl[k].dev.id = dev.id}
        unused == {k \in 1..Slots : ~ tbl[k].used}
    IN  IF known # {} THEN [tbl EXCEPT ![Least(known)] = Heard(@, dev)]
        ELSE IF unused # {} THEN [tbl EXCEPT ![Least(unused)] = Heard(@, dev)]
        ELSE tbl

Expire(tbl) ==
    [k \in 1..Slots |-> [tbl[k] EXCEPT !.used = @ /\ tbl[k].age <= TTL]]

(* self first, then the live peers in slot order *)
Config(self, tbl) ==
    LET live  == {k \in 1..Slots : tbl[k].used}
        order == CHOOSE f \in [1..Cardinality(live) -> live] :
                     \A i, j \in 1..Cardinality(live) : i < j => f[i] < f[j]
    IN  [i \in 1..Cardinality(live) + 1 |-> IF i = 1 THEN self ELSE tbl[order[i - 1]].dev]

(* Live, or expired yet still within the grace period. *)
KeptWhileLive(entry) == entry.used                                     \* fault: no grace
KeptForGood(entry) == entry.used \/ entry.dev.id # NONE                \* fault: no end to it
Kept(entry) == entry.used \/ (entry.dev.id # NONE /\ entry.age < Grace)

(* The slots the member list is built from: those kept whose peer listens to
   the group, the first FanoutMax - 1. *)
MemberSlots(tbl, group) ==
    LET within == {k \in 1..Slots : Kept(tbl[k]) /\ tbl[k].dev.sink = group}
    IN  {k \in within : Cardinality({m \in within : m < k}) < FanoutMax - 1}

(* "127.0.0.1" stands for the node itself. *)
Members(o, tbl, group) == {o} \cup {tbl[k].dev.id : k \in MemberSlots(tbl, group)}

-----------------------------------------------------------------------------
(* Expire, then the consensus: my role, and the members to ask for. *)
Consensus(o, self, tbl) ==
    LET table == Expire(tbl)
        mine  == AssignGroups(Config(self, table))[1].source
    IN  /\ peers' = [peers EXCEPT ![o] = table]
        /\ claim' = [claim EXCEPT ![o] = self]
        /\ role' = [role EXCEPT ![o] = mine]
        /\ cur' = [cur EXCEPT ![o] = IF mine = NONE THEN {} ELSE Members(o, table, mine)]

Restarts(o) == due' = [due EXCEPT ![o] = FALSE]

(* What a node says of itself once a second. *)
Gossip(p) == claim[p]

(* A datagram from p arrives; the iteration ends with a consensus if due. *)
HearGossip(o, p) ==
    /\ p # o
    /\ LET table == Register(peers[o], Gossip(p))
       IN  \/ due[o] /\ Consensus(o, claim[o], table) /\ Restarts(o)
           \/ /\ ~ due[o]
              /\ peers' = [peers EXCEPT ![o] = Expire(table)]
              /\ UNCHANGED <<claim, role, cur, due>>
    /\ UNCHANGED commands

(* The poll times out with a consensus due. *)
Idle(o) ==
    /\ due[o]
    /\ Restarts(o)
    /\ Consensus(o, claim[o], peers[o])
    /\ UNCHANGED commands

(* 500 ms after the last consensus the next is due. *)
Due(o) ==
    /\ ~ due[o]
    /\ due' = [due EXCEPT ![o] = TRUE]
    /\ UNCHANGED <<claim, peers, role, cur, commands>>

(* The group the last live peer with a claim sources, or NONE. *)
Active(tbl) ==
    LET sources == {k \in 1..Slots : tbl[k].used /\ tbl[k].dev.source # NONE}
    IN  IF sources = {} THEN NONE
        ELSE tbl[CHOOSE k \in sources : \A m \in sources : m <= k].dev.source

(* node_apply_ctl *)
SourceOwnGroup(d) == [d EXCEPT !.source = d.sink, !.time = 1]   \* fault: group keeps its name
BecomeSource(d) == [d EXCEPT !.sink = d.id, !.source = d.id, !.time = 1]
JoinGroup(d, g) == [d EXCEPT !.sink = g, !.source = NONE]
LeaveGroup(d)   == [d EXCEPT !.sink = d.id, !.source = NONE]

(* A bare "join" goes to the active source; "toggle" does too, unless grouped. *)
BareJoin(d, active) == IF active = NONE THEN LeaveGroup(d) ELSE JoinGroup(d, active)
Toggle(d, active)   == IF d.sink # d.id THEN LeaveGroup(d) ELSE BareJoin(d, active)

Applied(d, active) ==
    {BecomeSource(d), LeaveGroup(d), BareJoin(d, active), Toggle(d, active)}
        \cup {JoinGroup(d, g) : g \in Groups}

(* A control command clears last_consensus: a consensus follows at once. *)
Command(o) ==
    /\ commands < MaxCommands
    /\ commands' = commands + 1
    /\ \E self \in Applied(claim[o], Active(peers[o])) :
         Consensus(o, self, peers[o])
    /\ Restarts(o)

(* The same command on a node that is not an observer. *)
RemoteCommand(n) ==
    /\ commands < MaxCommands
    /\ commands' = commands + 1
    /\ \E active \in Nodes \ {n} : \E d \in Applied(claim[n], active) :
         claim' = [claim EXCEPT ![n] = d]
    /\ UNCHANGED <<peers, role, cur, due>>

(* The fan-out exits; the loop reaps it and forgets the members it had. *)
ReapFanout(o) ==
    /\ cur[o] # {}
    /\ commands < MaxCommands
    /\ commands' = commands + 1
    /\ cur' = [cur EXCEPT ![o] = {}]
    /\ UNCHANGED <<claim, peers, role, due>>

(* The daemon restarts: nothing is persisted. *)
Restart(n) ==
    /\ commands < MaxCommands
    /\ commands' = commands + 1
    /\ claim' = [claim EXCEPT ![n] = Self(n)]
    /\ peers' = [o \in Observers |-> IF o = n THEN [k \in 1..Slots |-> NoPeer] ELSE peers[o]]
    /\ role' = [o \in Observers |-> IF o = n THEN NONE ELSE role[o]]
    /\ cur' = [o \in Observers |-> IF o = n THEN {} ELSE cur[o]]
    /\ due' = [o \in Observers |-> due[o] \/ o = n]

Older(age) == IF age < Grace THEN age + 1 ELSE age

(* A gossip period goes by.  Ages stop counting at Grace. *)
Tick ==
    /\ peers' = [o \in Observers |->
                    [k \in 1..Slots |-> [peers[o][k] EXCEPT !.age = Older(@)]]]
    /\ UNCHANGED <<claim, role, cur, due, commands>>

(* All that happens but the passing of time. *)
Daemons ==
    \/ \E o \in Observers, p \in Nodes : HearGossip(o, p)
    \/ \E o \in Observers : Idle(o)
    \/ \E o \in Observers : Due(o)
    \/ \E o \in Observers : Command(o)
    \/ \E n \in Nodes \ Observers : RemoteCommand(n)
    \/ \E o \in Observers : ReapFanout(o)
    \/ \E n \in Nodes : Restart(n)

Next == Daemons \/ Tick

Spec == Init /\ [][Next]_vars

(* Every node gossips once a second and every daemon polls five times a second:
   absent loss a datagram is always heard again, a consensus always becomes due
   again, and is then run.  (Only a consensus ends a due[o].) *)
Fairness ==
    /\ \A o \in Observers : WF_vars(Due(o)) /\ WF_due(due[o] /\ Restarts(o))
    /\ \A o \in Observers, p \in Nodes :
         WF_peers(p # o /\ peers' = [peers EXCEPT ![o] = Expire(Register(peers[o], Gossip(p)))])

-----------------------------------------------------------------------------
(* Who should source g: the device of that name if it claims to, else the
   strongest listener, and the greater id among equals. *)
RightSource(g) ==
    LET listeners == {n \in Nodes : claim[n].sink = g}
    IN  IF g \in Nodes /\ claim[g].source = g THEN g
        ELSE CHOOSE n \in listeners :
                 \A m \in listeners \ {n} : Prefer(claim[n], claim[m])

(* o takes the role of a group somebody listens to just when it is the right one
   to, and then asks its fan-out for exactly the listeners of the group. *)
AgreedAt(o) ==
    \A g \in {claim[n].sink : n \in Nodes} :
        /\ (role[o] = g) <=> (o = RightSource(g))
        /\ role[o] = g => cur[o] = {n \in Nodes : claim[n].sink = g}

(* Each such group has one source and it is the right one: no other daemon takes
   the role. *)
Agreed == \A o \in Observers : AgreedAt(o)
=============================================================================
