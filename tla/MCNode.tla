------------------------------- MODULE MCNode -------------------------------
(***************************************************************************)
(* Instances of Node for TLC, and the safety properties of the node        *)
(* daemon, some of them over what an observer has heard so far; and, as    *)
(* behaviours of their own, the consensus over every configuration.        *)
(***************************************************************************)
EXTENDS Node, MCGrouping

VARIABLES
    part,   \* what a behaviour is about: the "daemon" or the "rules"
    fresh,  \* fresh[o]: no command, death or Tick since o last ran consensus
    told    \* told[o][p][g] is how long ago o last heard p say it listens to g
            \* (Grace = that long or longer, or never), and told[o][p][NONE] the
            \* group p named last

(* All rooms hear the access point equally well but the last one. *)
MCSignal == [n \in Nodes |-> IF n = Cardinality(Nodes) THEN 1 ELSE 2]

NeverTold == [g \in Groups \cup {NONE} |-> IF g = NONE THEN NONE ELSE Grace]

HInit ==
    /\ \/ part = "rules" /\ RulesInit
       \/ part = "daemon" /\ cfg = <<>> /\ round = 0
    /\ Init
    /\ fresh = [o \in Observers |-> FALSE]
    /\ told = [o \in Observers |-> [p \in Nodes |-> NeverTold]]

Hears(o, p) ==
    told' = [told EXCEPT ![o][p][claim[p].sink] = 0, ![o][p][NONE] = claim[p].sink]

Forgets(n) ==
    told' = [o \in Observers |-> IF o = n THEN [p \in Nodes |-> NeverTold] ELSE told[o]]

Ages ==
    told' = [o \in Observers |-> [p \in Nodes |-> [g \in Groups \cup {NONE} |->
                IF g = NONE THEN told[o][p][g] ELSE Older(told[o][p][g])]]]

Reset(n) == fresh' = [o \in Observers |-> fresh[o] /\ o # n]

DaemonStep ==
    \/ \E o \in Observers, p \in Nodes :
         HearGossip(o, p) /\ Hears(o, p) /\ fresh' = [fresh EXCEPT ![o] = due[o]]
    \/ \E o \in Observers : Idle(o) /\ fresh' = [fresh EXCEPT ![o] = TRUE] /\ UNCHANGED told
    \/ \E o \in Observers : Due(o) /\ UNCHANGED <<fresh, told>>
    \/ \E o \in Observers : Command(o) /\ fresh' = [fresh EXCEPT ![o] = TRUE] /\ UNCHANGED told
    \/ \E n \in Nodes \ Observers : RemoteCommand(n) /\ UNCHANGED <<fresh, told>>
    \/ \E o \in Observers : ReapFanout(o) /\ Reset(o) /\ UNCHANGED told
    \/ \E n \in Nodes : Restart(n) /\ Reset(n) /\ Forgets(n)
    \/ Tick /\ Ages /\ fresh' = [o \in Observers |-> FALSE]

HNext ==
    \/ part = "daemon" /\ DaemonStep /\ UNCHANGED <<part, cfg, round>>
    \/ part = "rules" /\ Round /\ UNCHANGED <<part, vars, fresh, told>>

HSpec == HInit /\ [][HNext]_<<vars, fresh, told, part, cfg, round>>

Dev == [id : Nodes \cup {NONE}, source : Nodes \cup {NONE}, sink : Groups,
        signal : {Signal[n] : n \in Nodes}, time : {0, 1}]

TypeOK ==
    /\ \A n \in Nodes : claim[n] \in Dev /\ claim[n].id = n
    /\ \A o \in Observers, k \in 1..Slots :
         peers[o][k] \in [used : BOOLEAN, dev : Dev, age : 0..Grace]
    /\ role \in [Observers -> Groups \cup {NONE}]
    /\ cur \in [Observers -> SUBSET Nodes]
    /\ due \in [Observers -> BOOLEAN]
    /\ fresh \in [Observers -> BOOLEAN]
    /\ commands \in 0..MaxCommands
    /\ RulesTypeOK

(* The group a node streams to, as of a consensus nothing has overtaken. *)
Sourcing(o) == fresh[o] /\ role[o] # NONE

(* An entry of p that the table keeps beside the one it updates. *)
Stale(o, p) == \E k \in 1..Slots :
    ~ peers[o][k].used /\ peers[o][k].dev.id = p /\ Kept(peers[o][k])

(* "A clean double-tap LEAVE is still immediate": once o has heard p name another
   group, o's next consensus has p out of the fan-out.  One exception: a stale
   entry, which a peer leaves behind when its slot expired and it was registered
   anew in a lower one, keeps it in. *)
LeaveUnlessStale ==
    \A o \in Observers : Sourcing(o) =>
        \A p \in cur[o] \ {o} : told[o][p][NONE] = role[o] \/ Stale(o, p)

(* "Keep a member in the fan-out for a grace period after its gossip goes
   silent": a peer whose last word, within the grace period, was that it
   listens to o's group is in o's fan-out.  One exception: the slot of a
   silent peer was given to another, and at most an older entry is left. *)
GraceUnlessEvicted ==
    \A o \in Observers : Sourcing(o) =>
        \A p \in Nodes \ {o} :
            /\ told[o][p][NONE] = role[o] /\ told[o][p][role[o]] < Grace
            /\ p \notin cur[o]
            => \A k \in 1..Slots :
                   peers[o][k].dev.id = p => peers[o][k].age > told[o][p][role[o]]

(* Whatever the table went through, nobody is streamed to who has not asked
   for this group within the grace period: a dead or departed room is gone
   from the member list at the latest one grace period later. *)
AskedRecently ==
    \A o \in Observers : Sourcing(o) =>
        \A p \in cur[o] \ {o} : told[o][p][role[o]] < Grace

(* And a node is never the source of a group it does not itself listen to: its
   own room is always a member. *)
MembersAskedRecently ==
    /\ AskedRecently
    /\ \A o \in Observers : Sourcing(o) => claim[o].sink = role[o] /\ o \in cur[o]
=============================================================================
