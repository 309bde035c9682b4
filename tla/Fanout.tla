------------------------------- MODULE Fanout -------------------------------
(***************************************************************************)
(* The fan-out of replaynet (run_fanout) and the part of the node daemon   *)
(* that spawns it, tells it over a pipe who joined and who left, stops it  *)
(* and reaps it.  Each member runs a player that accepts ONE source, stops *)
(* listening, exits when the source goes away and is respawned.            *)
(*                                                                         *)
(* Members are the loopback (the node's own player) and remote players.    *)
(* The consensus that picks the members is module Node; here it may pick   *)
(* any set.  One pass of the fan-out's loop: apply the commands, retry the *)
(* pending members, pace while answering pings, send one chunk.            *)
(***************************************************************************)
EXTENDS Integers, Sequences, FiniteSets, Functions

CONSTANTS
    Remotes,      \* remote members, positive integers
    FanoutMax,    \* RN_FANOUT_MAX
    MaxSkips,     \* 500 in the code: skips in a row after which a sink is dropped
    DupMembers,   \* TRUE: the member list may name a remote twice (a peer table
                  \* with a stale second entry of it, see module Node)
    MaxChanges,   \* bound on new member sets
    MaxFailures,  \* bound on players that exit or stay stuck or away, and on
                  \* fan-outs that fail
    Crashes       \* TRUE: the node daemon may die

Loopback == 0     \* "127.0.0.1"
NoIp == -1        \* sock[i] < 0
Ips == Remotes \cup {Loopback}
Slots == 1..FanoutMax

ASSUME FanoutAssumption ==
    /\ Remotes \subseteq Nat \ {0} /\ IsFiniteSet(Remotes)
    /\ FanoutMax \in Nat \ {0} /\ MaxSkips \in Nat
    /\ DupMembers \in BOOLEAN /\ Crashes \in BOOLEAN
    /\ MaxChanges \in Nat /\ MaxFailures \in Nat

VARIABLES
    cur,       \* cur_ips, the members the node believes the fan-out has
    twice,     \* the members cur_ips holds twice
    fan,       \* the fan-out process: "none", "run" or "exited" (not reaped)
    pipe,      \* commands of the node's differences, not yet read
    unwritten, \* how many of them, the last ones, it has yet to write
    pc,        \* where run_fanout is: "start", "ctrl", "retry" or "send"
    todo,      \* the initial peers not tried yet
    sock,      \* sock[s]: the member connected in slot s, or NoIp
    up,        \* up[s]: the player behind slot s still holds the connection
    skips,     \* skips[s]: chunks in a row that slot s could not take
    pend,      \* pend[ip]: entries for ip among the pending members
    player,    \* player[ip]: "listening", "connected" or "down"
    nodeUp,    \* the node daemon, and with it the write end of the pipe
    changes, failures

conns == <<sock, up, skips, player>>
fanvars == <<fan, pipe, pc, todo, pend>>
daemon == <<twice, unwritten>>
env == <<nodeUp, changes, failures>>
vars == <<cur, daemon, fanvars, conns, env>>

NoSlots == [s \in Slots |-> NoIp]
NonePending == [ip \in Ips |-> 0]

Init ==
    /\ cur = {} /\ fan = "none" /\ pipe = <<>> /\ pc = "start" /\ todo = <<>>
    /\ sock = NoSlots /\ up = [s \in Slots |-> FALSE] /\ skips = [s \in Slots |-> 0]
    /\ pend = NonePending
    /\ player = [ip \in Ips |-> "listening"]
    /\ twice = {} /\ unwritten = 0
    /\ nodeUp = TRUE /\ changes = 0 /\ failures = 0

-----------------------------------------------------------------------------
(* Connections. *)

Live == {sock[s] : s \in Slots} \ {NoIp}
Free == {s \in Slots : sock[s] = NoIp}
Pending == {ip \in Ips : pend[ip] > 0}

(* npend: a sum, as a duplicate entry counts. *)
NPend(p) == SumFunction(p)

(* A slot is taken by ip, whether or not the player is still behind it. *)
ThereAndUp(ip) == \E s \in Slots : sock[s] = ip /\ up[s]    \* fault: half-dead slots forgotten
There(ip) == ip \in Live

(* connect_peer_timeout: a player that listens answers in time, no other does. *)
Connects(ip) == player[ip] = "listening"

(* sink_accept: one source is accepted, and no further one listened for. *)
Accepts(ip) == player' = [player EXCEPT ![ip] = "connected"]
Listens(ip) == player' = [player EXCEPT ![ip] = "listening"]

(* fanout_try_add returns 1: already there, or connected. *)
Added(ip) == There(ip) \/ Connects(ip)

(* fanout_try_add: into the first free slot; a full table connects and hangs up. *)
TryAdd(ip) ==
    \/ /\ There(ip) \/ ~ Connects(ip)
       /\ UNCHANGED conns
    \/ /\ ~ There(ip) /\ Connects(ip)
       /\ \/ /\ Free = {}
             /\ player' = [player EXCEPT ![ip] = "down"]
             /\ UNCHANGED <<sock, up, skips>>
          \/ \E s \in Free :
               /\ \A t \in Free : s <= t
               /\ sock' = [sock EXCEPT ![s] = ip]
               /\ up' = [up EXCEPT ![s] = TRUE]
               /\ skips' = [skips EXCEPT ![s] = 0]
               /\ Accepts(ip)

(* The slots D are closed: a player still holding on to one exits. *)
Close(D) ==
    /\ sock' = [s \in Slots |-> IF s \in D THEN NoIp ELSE sock[s]]
    /\ up' = [s \in Slots |-> up[s] /\ s \notin D]
    /\ player' = [ip \in Ips |-> IF \E s \in D : up[s] /\ sock[s] = ip
                                 THEN "down" ELSE player[ip]]

-----------------------------------------------------------------------------
(* The node daemon. *)

(* The members S in a row, those in D twice.  (The code sorts them by ip; the
   order means nothing here, so it may be any.) *)
Listings(S, D) ==
    {list \in [1..(Cardinality(S) + Cardinality(D)) -> S] :
        \A ip \in S : Cardinality({i \in DOMAIN list : list[i] = ip}) = IF ip \in D THEN 2 ELSE 1}

(* "+ip" or "-ip" for each of a row of members *)
Commands(op, list) == [i \in DOMAIN list |-> [op |-> op, ip |-> list[i]]]

NobodyLeaves(S) == {}                         \* fault: nobody is ever removed
Leavers(S) == cur \ (S \cup {Loopback})
Joiners(S) == (S \cup {Loopback}) \ cur

(* member_diff, as the commands the node is to write: additions before removals,
   and never a removal of the loopback.  A member listed twice is added or removed
   by two commands. *)
WriteDiff(S, D) ==
    \E adds \in Listings(Joiners(S), D \ cur),
       dels \in Listings(Leavers(S), twice \cap Leavers(S)) :
        /\ pipe' = pipe \o Commands("+", adds) \o Commands("-", dels)
        /\ unwritten' = Len(adds) + Len(dels)

(* A write() per command: the fan-out may read what is there in between. *)
Write ==
    /\ nodeUp /\ unwritten > 0
    /\ unwritten' = unwritten - 1
    /\ UNCHANGED <<cur, twice, fanvars, conns, env>>

(* spawn_fanout: a process with a pipe of its own, given the whole list. *)
Spawns(S, D) ==
    /\ fan = "none" /\ fan' = "run" /\ pc' = "start"
    /\ \E list \in Listings(S, D) : todo' = <<Loopback>> \o list
    /\ UNCHANGED <<pipe, unwritten, pend, conns>>

(* The member list is S, those in D twice: the first one spawns the fan-out,
   later ones are written as a difference, to a dead fan-out in vain. *)
Sources(S, D) ==
    /\ D = {} \/ DupMembers
    /\ cur' = S \cup {Loopback} /\ twice' = D
    /\ \/ Spawns(S, D)
       \/ fan = "run" /\ WriteDiff(S, D) /\ UNCHANGED <<fan, pc, todo, pend, conns>>
       \/ fan = "exited" /\ UNCHANGED <<unwritten, fanvars, conns>>

(* A consensus that makes this node a source. *)
Source ==
    /\ nodeUp /\ unwritten = 0 /\ changes < MaxChanges
    /\ changes' = changes + 1
    /\ \E S \in SUBSET Remotes : \E D \in SUBSET S :
        /\ 1 + Cardinality(S) + Cardinality(D) <= FanoutMax
        /\ Sources(S, D)
    /\ UNCHANGED <<nodeUp, failures>>

(* The process is gone: its sockets, its pipe and its memory with it. *)
Ends(state) ==
    /\ fan' = state /\ pipe' = <<>> /\ unwritten' = 0 /\ pc' = "start" /\ todo' = <<>>
    /\ pend' = NonePending
    /\ Close(Slots)
    /\ skips' = [s \in Slots |-> 0]

(* A consensus that does not: SIGTERM, and wait. *)
StopSourcing ==
    /\ nodeUp /\ unwritten = 0 /\ changes < MaxChanges /\ fan # "none"
    /\ changes' = changes + 1
    /\ Ends("none") /\ cur' = {} /\ twice' = {}
    /\ UNCHANGED <<nodeUp, failures>>

Reap ==
    /\ nodeUp /\ unwritten = 0 /\ fan = "exited"
    /\ fan' = "none" /\ cur' = {} /\ twice' = {}
    /\ UNCHANGED <<unwritten, pipe, pc, todo, pend, conns, env>>

(* The daemon dies and the write end of the pipe with it: what it has not written
   it never will.  On a pipe without
   a writer poll() says POLLHUP and not POLLIN, so the fan-out's loop, which
   reads only upon POLLIN, never gets to the read that would return 0. *)
NodeDies ==
    /\ Crashes /\ nodeUp
    /\ nodeUp' = FALSE
    /\ UNCHANGED <<cur, daemon, fanvars, conns, changes, failures>>

-----------------------------------------------------------------------------
(* run_fanout *)

At(place) == fan = "run" /\ pc = place

Queue(ip) == IF NPend(pend) < FanoutMax THEN [pend EXCEPT ![ip] = @ + 1] ELSE pend
Unqueue(ip) == [pend EXCEPT ![ip] = @ - 1]

(* The initial members, one at a time: no check for a duplicate entry. *)
Start ==
    /\ At("start")
    /\ IF todo = <<>>
       THEN pc' = "ctrl" /\ UNCHANGED <<todo, pend, conns>>
       ELSE /\ TryAdd(Head(todo))
            /\ pend' = IF Added(Head(todo)) THEN pend ELSE Queue(Head(todo))
            /\ todo' = Tail(todo)
            /\ UNCHANGED pc
    /\ UNCHANGED <<cur, daemon, fan, pipe, env>>

CtrlAdd(ip) ==
    /\ TryAdd(ip)
    /\ pend' = IF Added(ip) \/ pend[ip] > 0 THEN pend ELSE Queue(ip)

(* fanout_remove: the slots to close for "-ip" *)
SlotsNotOf(ip) == {s \in Slots : sock[s] \notin {ip, NoIp}}   \* fault: strcmp the wrong way
SlotsOf(ip) == {s \in Slots : sock[s] = ip}

(* The first pending entry of ip goes, if there is one. *)
DropPendingBlindly(ip) == Unqueue(ip)                        \* fault
LeavePending(ip) == pend                                     \* fault
DropPending(ip) == IF pend[ip] > 0 THEN Unqueue(ip) ELSE pend

CtrlRemove(ip) ==
    /\ Close(SlotsOf(ip))
    /\ pend' = DropPending(ip)
    /\ UNCHANGED skips

(* All commands written by then are read before the loop goes on. *)
Ctrl ==
    /\ At("ctrl")
    /\ IF Len(pipe) <= unwritten
       THEN pc' = "retry" /\ UNCHANGED <<pipe, pend, conns>>
       ELSE /\ \/ Head(pipe).op = "+" /\ CtrlAdd(Head(pipe).ip)
               \/ Head(pipe).op = "-" /\ CtrlRemove(Head(pipe).ip)
            /\ pipe' = Tail(pipe)
            /\ UNCHANGED pc
    /\ UNCHANGED <<cur, daemon, fan, todo, env>>

(* A pending member answers at last ... *)
Retry(ip) ==
    /\ At("retry") /\ pend[ip] > 0 /\ Added(ip)
    /\ TryAdd(ip)
    /\ pend' = Unqueue(ip)
    /\ UNCHANGED <<cur, daemon, fan, pipe, pc, todo, env>>

(* ... or has not for 8 s. *)
GiveUp(ip) ==
    /\ At("retry") /\ pend[ip] > 0 /\ ~ Added(ip)
    /\ failures < MaxFailures /\ failures' = failures + 1
    /\ pend' = Unqueue(ip)
    /\ UNCHANGED <<cur, daemon, fan, pipe, pc, todo, conns, nodeUp, changes>>

(* Waiting for the chunk's time: a ping answered, or a closed peer noticed. *)
Pace ==
    /\ At("retry")
    /\ pc' = "send"
    /\ \E D \in SUBSET {s \in Slots : sock[s] # NoIp /\ ~ up[s]} : Close(D)
    /\ UNCHANGED <<cur, daemon, fan, pipe, todo, pend, skips, env>>

(* A chunk: a slot takes it, or lags and is dropped once it has lagged more
   than MaxSkips chunks in a row, or gets an error and is dropped. *)
Send ==
    /\ At("send")
    /\ \E lag \in SUBSET {s \in Slots : sock[s] # NoIp /\ up[s]},
          err \in SUBSET {s \in Slots : sock[s] # NoIp /\ ~ up[s]} :
        LET stuck == {s \in lag : skips[s] = MaxSkips}
            alive == {s \in Slots : sock[s] # NoIp} \ (err \cup stuck)
        IN  /\ failures + Cardinality(stuck) <= MaxFailures
            /\ failures' = failures + Cardinality(stuck)
            /\ IF alive = {} /\ NPend(pend) = 0
               THEN Ends("exited")
               ELSE /\ Close(err \cup stuck)
                    /\ skips' = [s \in Slots |-> IF s \in lag \ stuck THEN skips[s] + 1 ELSE 0]
                    /\ pc' = "ctrl"
                    /\ UNCHANGED <<fan, pipe, unwritten, todo, pend>>
    /\ UNCHANGED <<cur, twice, nodeUp, changes>>

(* The FIFO's writer closed it between two chunks: nothing to send, and no look
   at who is alive; the FIFO is reopened. *)
Reopen ==
    /\ At("send")
    /\ pc' = "ctrl"
    /\ UNCHANGED <<cur, daemon, fan, pipe, todo, pend, conns, env>>

(* The PCM cannot be opened, read, or reopened. *)
PcmFails ==
    /\ At("send") \/ (At("start") /\ Live = {} /\ Pending = {})
    /\ failures < MaxFailures /\ failures' = failures + 1
    /\ Ends("exited")
    /\ UNCHANGED <<cur, twice, nodeUp, changes>>

-----------------------------------------------------------------------------
(* The players. *)

PlayerExits(ip) ==
    /\ player[ip] = "connected"
    /\ failures < MaxFailures /\ failures' = failures + 1
    /\ player' = [player EXCEPT ![ip] = "down"]
    /\ up' = [s \in Slots |-> up[s] /\ sock[s] # ip]
    /\ UNCHANGED <<cur, daemon, fanvars, sock, skips, nodeUp, changes>>

Respawn(ip) ==
    /\ player[ip] = "down"
    /\ Listens(ip)
    /\ UNCHANGED <<cur, daemon, fanvars, sock, up, skips, env>>

FanoutStep == Start \/ Ctrl \/ Pace \/ Send

Next ==
    \/ Source \/ Write \/ StopSourcing \/ Reap \/ NodeDies
    \/ FanoutStep \/ Reopen \/ PcmFails
    \/ \E ip \in Ips : Retry(ip) \/ GiveUp(ip) \/ PlayerExits(ip) \/ Respawn(ip)

Spec == Init /\ [][Next]_vars

(* Audio flows, so the fan-out's loop turns; a member that listens is retried
   once a second; each daemon reaps and respawns its children. *)
FairSpec ==
    /\ Spec
    /\ WF_vars(FanoutStep) /\ WF_vars(Write) /\ WF_vars(Reap)
    /\ \A ip \in Ips : SF_vars(Retry(ip)) /\ WF_vars(Respawn(ip))
=============================================================================
