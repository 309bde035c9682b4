---------------------------- MODULE FanoutProofs ----------------------------
(***************************************************************************)
(* The fan-out, for any number of members and slots, any bounds on changes *)
(* and failures, and with a node daemon that may die: no member is         *)
(* connected twice (OneConnection), none is connected or retried whom the  *)
(* node has not asked for, as long as the member list names nobody twice   *)
(* (OnlyAskedFor), one member's trouble is not another's (Undisturbed),    *)
(* and the table of pending members, counted with a fold, never overflows  *)
(* (TypeOK).  And until a player fails it serves exactly the members the   *)
(* node has, but for the commands it has yet to read (Exact), so that it   *)
(* takes a failure to forget a member.                                     *)
(***************************************************************************)
EXTENDS MCFanout, SequenceTheorems, FiniteSetTheorems, WellFoundedInduction, TLAPS

(* Slots and players. *)
Conn ==
    /\ sock \in [Slots -> Ips \cup {NoIp}] /\ up \in [Slots -> BOOLEAN]
    /\ player \in [Ips -> {"listening", "connected", "down"}]
    /\ OneConnection

(* The process: without one there are no sockets and nothing to do, and the
   initial members have all been tried before the first command is read. *)
Proc ==
    /\ cur \in SUBSET Ips
    /\ pipe \in Seq(Cmd) /\ todo \in Seq(Ips) /\ pend \in [Ips -> Nat]
    /\ fan # "run" => pipe = <<>> /\ todo = <<>> /\ sock = NoSlots /\ pend = NonePending
    /\ pc # "start" => todo = <<>>

(* ip is asked for, or about to be removed. *)
Asked(ip) ==
    ip \in cur \/ \E j \in 1..Len(pipe) : pipe[j].op = "-" /\ pipe[j].ip = ip

(* Among the pending members, and those still to be tried, each is at most
   once: so one "-" removes it. *)
Single ==
    /\ \A ip \in Ips : pend[ip] <= 1
    /\ \A i, j \in 1..Len(todo) : todo[i] = todo[j] => i = j
    /\ \A i \in 1..Len(todo) : pend[todo[i]] = 0

(* ip is connected, pending or still to be tried. *)
Served(ip) ==
    \/ \E s \in Slots : sock[s] = ip
    \/ pend[ip] > 0
    \/ \E i \in 1..Len(todo) : todo[i] = ip

Serves == fan = "run" => \A ip \in Ips : Served(ip) => Asked(ip)

(* A "+" in the pipe is for a member that is wanted, or taken back by a later "-". *)
PipeInOrder ==
    \A i \in 1..Len(pipe) :
        pipe[i].op = "+" =>
            \/ pipe[i].ip \in cur
            \/ \E j \in 1..Len(pipe) : j > i /\ pipe[j].op = "-" /\ pipe[j].ip = pipe[i].ip

AskedInv == Single /\ Serves /\ PipeInOrder

Sound == Conn /\ Proc /\ (~ DupMembers => AskedInv)

(* What the node has yet to write is the end of what the fan-out is to read. *)
Written == unwritten \in 0..Len(pipe) /\ twice \in SUBSET (cur \ {Loopback})

Inv == Sound /\ Written

-----------------------------------------------------------------------------
(* Connections. *)

LEMMA IpFacts == NoIp \notin Ips /\ Loopback \in Ips /\ IsFiniteSet(Remotes)
                 /\ Remotes \subseteq Ips /\ Loopback \notin Remotes
BY FanoutAssumption DEF Ips, NoIp, Loopback

(* Closing slots breaks no connection of another slot and makes none. *)
LEMMA CloseStep ==
    ASSUME Conn, NEW D \in SUBSET Slots, Close(D)
    PROVE  /\ Conn'
           /\ \A s \in Slots : sock'[s] = IF s \in D THEN NoIp ELSE sock[s]
BY IpFacts DEF Conn, Close, OneConnection

(* A member that is tried takes at most the one slot, and only if it has none. *)
LEMMA TryAddStep ==
    ASSUME Conn, NEW ip \in Ips, TryAdd(ip)
    PROVE  /\ Conn'
           /\ \A s \in Slots : sock'[s] = sock[s] \/ sock'[s] = ip
<1>1. CASE UNCHANGED conns
  BY <1>1 DEF conns, Conn, OneConnection
<1>2. CASE /\ ip \notin Live /\ player[ip] = "listening"
           /\ player' = [player EXCEPT ![ip] = "down"] /\ UNCHANGED <<sock, up, skips>>
  BY <1>2 DEF Conn, OneConnection
<1>3. ASSUME ip \notin Live, player[ip] = "listening", NEW s \in Free,
             sock' = [sock EXCEPT ![s] = ip], up' = [up EXCEPT ![s] = TRUE],
             player' = [player EXCEPT ![ip] = "connected"]
      PROVE  Conn' /\ \A t \in Slots : sock'[t] = sock[t] \/ sock'[t] = ip
  <2>1. s \in Slots /\ sock[s] = NoIp /\ \A t \in Slots : sock[t] # ip
    BY <1>3, IpFacts DEF Free, Live
  <2>2. /\ sock' \in [Slots -> Ips \cup {NoIp}] /\ up' \in [Slots -> BOOLEAN]
        /\ player' \in [Ips -> {"listening", "connected", "down"}]
    BY <1>3, <2>1 DEF Conn
  <2>3. \A t, u \in Slots : sock'[t] = sock'[u] /\ sock'[t] # NoIp => t = u
    BY <1>3, <2>1 DEF Conn, OneConnection
  <2>4. ASSUME NEW q \in Ips
        PROVE  player'[q] = "connected" <=> \E t \in Slots : sock'[t] = q /\ up'[t]
    <3>1. CASE q = ip
      BY <1>3, <2>1, <3>1 DEF Conn
    <3>2. CASE q # ip
      <4>1. player'[q] = player[q]
        BY <1>3, <3>2 DEF Conn
      <4>2. \A t \in Slots : sock'[t] = q /\ up'[t] <=> sock[t] = q /\ up[t]
        BY <1>3, <2>1, <3>2, IpFacts DEF Conn
      <4> QED
        BY <4>1, <4>2 DEF Conn, OneConnection
    <3> QED
      BY <3>1, <3>2
  <2> QED
    BY <1>3, <2>2, <2>3, <2>4 DEF Conn, OneConnection
<1> QED
  BY <1>1, <1>2, <1>3 DEF TryAdd, There, Connects, Accepts

-----------------------------------------------------------------------------
(* What the node writes. *)

(* A row of the members S, those in D twice, is a sequence of members of S;
   without doubles no member is in it twice; and each is in it. *)
LEMMA ListingsType ==
    ASSUME NEW S, S \subseteq Ips, NEW D, D \subseteq S, NEW list, list \in Listings(S, D)
    PROVE  /\ list \in Seq(S) /\ list \in Seq(Ips) /\ Len(list) \in Nat
           /\ \A ip \in S : \E i \in 1..Len(list) : list[i] = ip
           /\ D = {} => \A i, j \in 1..Len(list) : list[i] = list[j] => i = j
<1> DEFINE n == Cardinality(S) + Cardinality(D)
           Places(ip) == {i \in DOMAIN list : list[i] = ip}
<1>1. IsFiniteSet(S) /\ IsFiniteSet(D)
  <2>1. IsFiniteSet(Ips)
    BY IpFacts, FS_AddElement, FS_Singleton, FS_Union DEF Ips
  <2> QED
    BY <2>1, FS_Subset
<1>2. n \in Nat
  BY <1>1, FS_CardinalityType
<1>3. list \in [1..n -> S]
  BY DEF Listings
<1>4. list \in Seq(S) /\ Len(list) = n /\ DOMAIN list = 1..n
  BY <1>2, <1>3
<1>5. list \in Seq(Ips)
  BY <1>2, <1>3
<1>6. \A ip \in S : Cardinality(Places(ip)) = IF ip \in D THEN 2 ELSE 1
  BY DEF Listings
<1>7. \A ip \in S : IsFiniteSet(Places(ip))
  <2>1. IsFiniteSet(1..n)
    BY <1>2, FS_Interval
  <2> QED
    BY <1>4, <2>1, FS_Subset
<1>8. \A ip \in S : Places(ip) # {}
  BY <1>6, FS_EmptySet
<1>9. ASSUME D = {}, NEW i \in 1..Len(list), NEW j \in 1..Len(list), list[i] = list[j]
      PROVE  i = j
  <2>1. list[i] \in S /\ i \in Places(list[i]) /\ j \in Places(list[i])
    BY <1>2, <1>3, <1>4, <1>9
  <2>2. Cardinality(Places(list[i])) = 1
    BY <1>6, <1>9, <2>1
  <2>3. PICK p : Places(list[i]) = {p}
    BY <1>7, <2>1, <2>2, FS_Singleton, ZenonT(60)
  <2> QED
    BY <2>1, <2>3
<1> QED
  BY <1>2, <1>4, <1>5, <1>8, <1>9

(* In particular, no member is left out. *)
LEMMA ListingsAll ==
    ASSUME NEW S, S \subseteq Ips, NEW D, D \subseteq S,
           NEW list, list \in Listings(S, D), NEW ip \in S
    PROVE  \E i \in 1..Len(list) : list[i] = ip
BY ListingsType

(* The commands for a row of members name them in the same order. *)
LEMMA CommandsType ==
    ASSUME NEW list \in Seq(Ips), NEW op \in {"+", "-"}
    PROVE  /\ Commands(op, list) \in Seq(Cmd)
           /\ Len(Commands(op, list)) = Len(list)
           /\ \A i \in 1..Len(list) : Commands(op, list)[i].op = op
                                   /\ Commands(op, list)[i].ip = list[i]
<1>1. Len(list) \in Nat /\ DOMAIN list = 1..Len(list)
  BY LenProperties
<1>2. \A i \in 1..Len(list) : [op |-> op, ip |-> list[i]] \in Cmd
  BY ElementOfSeq DEF Cmd
<1>3. Commands(op, list) = [i \in 1..Len(list) |-> [op |-> op, ip |-> list[i]]]
  BY <1>1 DEF Commands
<1>4. Commands(op, list) \in [1..Len(list) -> Cmd]
  BY <1>2, <1>3
<1> QED
  BY <1>1, <1>3, <1>4

(* The difference: who is new gets a "+", all who left but the loopback get a "-",
   and nobody else is named. *)
LEMMA WriteDiffType ==
    ASSUME cur \in SUBSET Ips, NEW S \in SUBSET Remotes, NEW D \in SUBSET S,
           pipe \in Seq(Cmd), WriteDiff(S, D)
    PROVE  \E diff \in Seq(Cmd) :
           /\ pipe' = pipe \o diff /\ unwritten' = Len(diff)
           /\ \A i \in 1..Len(diff) : \/ diff[i].op = "+" /\ diff[i].ip \in Joiners(S)
                                      \/ diff[i].op = "-" /\ diff[i].ip \in Leavers(S)
           /\ \A ip \in Joiners(S) : \E i \in 1..Len(diff) : diff[i].op = "+" /\ diff[i].ip = ip
           /\ \A ip \in Leavers(S) : \E i \in 1..Len(diff) : diff[i].op = "-" /\ diff[i].ip = ip
<1> DEFINE new == Joiners(S)
           gone == Leavers(S)
<1>1. PICK adds \in Listings(new, D \ cur), dels \in Listings(gone, twice \cap gone) :
        /\ pipe' = pipe \o Commands("+", adds) \o Commands("-", dels)
        /\ unwritten' = Len(adds) + Len(dels)
  BY DEF WriteDiff
<1>0. adds \in Listings(new, D \ cur) /\ dels \in Listings(gone, twice \cap gone)
  OBVIOUS
<1>2. new \subseteq Ips /\ gone \subseteq Ips /\ D \ cur \subseteq new
      /\ twice \cap gone \subseteq gone
  BY IpFacts DEF Joiners, Leavers
<1> HIDE DEF new, gone
<1>3. /\ adds \in Seq(new) /\ adds \in Seq(Ips) /\ Len(adds) \in Nat
      /\ \A ip \in new : \E i \in 1..Len(adds) : adds[i] = ip
  <2>1. adds \in Seq(new) /\ adds \in Seq(Ips) /\ Len(adds) \in Nat
    BY <1>0, <1>2, ListingsType, Zenon
  <2>2. ASSUME NEW ip \in new PROVE \E i \in 1..Len(adds) : adds[i] = ip
    BY <1>0, <1>2, <2>2, ListingsAll
  <2> QED
    BY <2>1, <2>2
<1>4. /\ dels \in Seq(gone) /\ dels \in Seq(Ips) /\ Len(dels) \in Nat
      /\ \A ip \in gone : \E i \in 1..Len(dels) : dels[i] = ip
  <2>1. dels \in Seq(gone) /\ dels \in Seq(Ips) /\ Len(dels) \in Nat
    BY <1>0, <1>2, ListingsType, Zenon
  <2>2. ASSUME NEW ip \in gone PROVE \E i \in 1..Len(dels) : dels[i] = ip
    BY <1>0, <1>2, <2>2, ListingsAll
  <2> QED
    BY <2>1, <2>2
<1> DEFINE plus == Commands("+", adds)
           minus == Commands("-", dels)
           diff == plus \o minus
<1>5. /\ plus \in Seq(Cmd) /\ Len(plus) = Len(adds)
      /\ \A i \in 1..Len(adds) : plus[i].op = "+" /\ plus[i].ip = adds[i]
  BY <1>3, CommandsType
<1>6. /\ minus \in Seq(Cmd) /\ Len(minus) = Len(dels)
      /\ \A i \in 1..Len(dels) : minus[i].op = "-" /\ minus[i].ip = dels[i]
  BY <1>4, CommandsType
<1> HIDE DEF plus, minus
<1>7. pipe' = pipe \o diff
  <2>1. (pipe \o plus) \o minus = pipe \o (plus \o minus)
    BY <1>5, <1>6, ConcatAssociative, SMTT(30)
  <2> QED
    BY <1>1, <2>1 DEF plus, minus
<1>8. /\ diff \in Seq(Cmd) /\ Len(diff) = Len(adds) + Len(dels)
      /\ \A i \in 1..(Len(adds) + Len(dels)) :
            diff[i] = IF i <= Len(adds) THEN plus[i] ELSE minus[i - Len(adds)]
  <2>1. /\ diff \in Seq(Cmd) /\ Len(diff) = Len(plus) + Len(minus)
        /\ \A i \in 1..(Len(plus) + Len(minus)) :
              diff[i] = IF i <= Len(plus) THEN plus[i] ELSE minus[i - Len(plus)]
    <3>1. plus \in Seq(Cmd) /\ minus \in Seq(Cmd)
      BY <1>5, <1>6
    <3> QED
      BY <3>1, ConcatProperties
  <2>2. Len(plus) = Len(adds) /\ Len(minus) = Len(dels)
    BY <1>5, <1>6
  <2> QED
    BY <2>1, <2>2, Zenon
<1> HIDE DEF diff
<1>9. \A i \in 1..Len(diff) : \/ diff[i].op = "+" /\ diff[i].ip \in new
                              \/ diff[i].op = "-" /\ diff[i].ip \in gone
  <2> SUFFICES ASSUME NEW i \in 1..Len(diff)
               PROVE  \/ diff[i].op = "+" /\ diff[i].ip \in new
                      \/ diff[i].op = "-" /\ diff[i].ip \in gone
    OBVIOUS
  <2>1. CASE i <= Len(adds)
    <3>1. i \in 1..Len(adds) /\ diff[i] = plus[i]
      <4>1. i \in 1..(Len(adds) + Len(dels)) /\ Len(adds) \in Nat /\ Len(dels) \in Nat
        BY <1>3, <1>4, <1>8
      <4> QED
        BY <1>8, <2>1, <4>1
    <3>2. adds[i] \in new
      BY <1>3, <3>1, ElementOfSeq
    <3> QED
      BY <1>5, <3>1, <3>2
  <2>2. CASE ~ (i <= Len(adds))
    <3>1. i - Len(adds) \in 1..Len(dels) /\ diff[i] = minus[i - Len(adds)]
      BY <1>3, <1>4, <1>8, <2>2
    <3>2. dels[i - Len(adds)] \in gone
      BY <1>4, <3>1, ElementOfSeq
    <3> QED
      BY <1>6, <3>1, <3>2
  <2> QED
    BY <2>1, <2>2
<1>10. ASSUME NEW ip \in gone
       PROVE  \E i \in 1..Len(diff) : diff[i].op = "-" /\ diff[i].ip = ip
  <2>1. PICK k \in 1..Len(dels) : dels[k] = ip
    BY <1>4
  <2>2. /\ Len(adds) + k \in 1..Len(diff) /\ ~ (Len(adds) + k <= Len(adds))
        /\ (Len(adds) + k) - Len(adds) = k
    <3>1. Len(adds) \in Nat /\ Len(dels) \in Nat /\ Len(diff) = Len(adds) + Len(dels)
      BY <1>3, <1>4, <1>8, Zenon
    <3> QED
      BY <3>1
  <2>3. diff[Len(adds) + k] = minus[k]
    BY <1>8, <2>2
  <2> QED
    BY <1>6, <2>1, <2>2, <2>3
<1>11. ASSUME NEW ip \in new
       PROVE  \E i \in 1..Len(diff) : diff[i].op = "+" /\ diff[i].ip = ip
  <2>1. PICK k \in 1..Len(adds) : adds[k] = ip
    BY <1>3
  <2>2. k \in 1..Len(diff) /\ k <= Len(adds)
    <3>1. Len(adds) \in Nat /\ Len(dels) \in Nat /\ Len(diff) = Len(adds) + Len(dels)
      BY <1>3, <1>4, <1>8, Zenon
    <3> QED
      BY <3>1
  <2>3. diff[k] = plus[k]
    BY <1>8, <2>2
  <2> QED
    BY <1>5, <2>1, <2>2, <2>3
<1>12. unwritten' = Len(diff)
  BY <1>1, <1>8
<1> QED
  BY <1>7, <1>8, <1>9, <1>10, <1>11, <1>12 DEF new, gone
-----------------------------------------------------------------------------
(* Steps. *)

LEMMA InitInv == Init => Inv
<1> SUFFICES ASSUME Init PROVE Inv
  OBVIOUS
<1>1. Conn
  BY IpFacts DEF Init, Conn, OneConnection, NoSlots
<1>2. Proc
  <2>1. <<>> \in Seq(Cmd) /\ <<>> \in Seq(Ips)
    BY EmptySeq
  <2>2. pend \in [Ips -> Nat] /\ cur \in SUBSET Ips
    BY DEF Init, NonePending
  <2> QED
    BY <2>1, <2>2 DEF Init, Proc
<1>3. AskedInv
  <2>1. Len(pipe) = 0 /\ Len(todo) = 0
    BY DEF Init
  <2> QED
    BY <2>1 DEF Init, AskedInv, Single, Serves, PipeInOrder, NonePending
<1>4. Written
  BY DEF Init, Written
<1> QED
  BY <1>1, <1>2, <1>3, <1>4 DEF Inv, Sound

(* The fan-out ends, in whatever state it was. *)
LEMMA EndsStep ==
    ASSUME Inv, NEW state \in {"none", "exited"}, Ends(state), cur' \in SUBSET Ips
    PROVE  Sound'
<1>1. Conn' /\ \A s \in Slots : sock'[s] = NoIp
  BY CloseStep DEF Inv, Sound, Ends
<1>2. sock' = NoSlots
  BY <1>1 DEF Conn, NoSlots
<1>3. fan' = state /\ pipe' = <<>> /\ todo' = <<>> /\ pend' = NonePending /\ pc' = "start"
  BY DEF Ends
<1>4. Proc'
  <2>1. <<>> \in Seq(Cmd) /\ <<>> \in Seq(Ips)
    BY EmptySeq
  <2>2. NonePending \in [Ips -> Nat]
    BY DEF NonePending
  <2> QED
    BY <1>2, <1>3, <2>1, <2>2 DEF Proc
<1>5. AskedInv'
  <2>1. Len(pipe') = 0 /\ Len(todo') = 0
    BY <1>3
  <2> QED
    BY <1>3, <2>1 DEF AskedInv, Single, Serves, PipeInOrder, NonePending
<1> QED
  BY <1>1, <1>4, <1>5 DEF Inv, Sound

(* Connections and pending members may go; nothing is asked. *)
LEMMA FewerStep ==
    ASSUME Inv, Conn', UNCHANGED <<cur, pipe, todo>>, fan' = fan,
           pc = "start" => pc' \in {"start", "ctrl"} /\ (pc' = "ctrl" => todo = <<>>),
           pend' \in [Ips -> Nat], \A ip \in Ips : pend'[ip] <= pend[ip],
           \A s \in Slots : sock'[s] \in {sock[s], NoIp}
    PROVE  Sound'
<1>1. Proc'
  <2>1. ASSUME fan # "run" PROVE sock' = NoSlots /\ pend' = NonePending
    <3>1. \A s \in Slots : sock'[s] = NoIp
      BY <2>1 DEF Inv, Sound, Proc, NoSlots
    <3>2. \A ip \in Ips : pend'[ip] = 0
      BY <2>1 DEF Inv, Sound, Proc, NonePending
    <3> QED
      BY <3>1, <3>2 DEF Conn, NoSlots, NonePending
  <2> QED
    BY <2>1 DEF Inv, Sound, Proc
<1>2. ASSUME ~ DupMembers PROVE AskedInv'
  <2>1. AskedInv
    BY <1>2 DEF Inv, Sound
  <2>2. \A ip \in Ips : pend[ip] \in Nat /\ pend'[ip] \in Nat
    BY DEF Inv, Sound, Proc
  <2>3. \A i \in 1..Len(todo) : todo[i] \in Ips
    BY ElementOfSeq DEF Inv, Sound, Proc
  <2>4. Single'
    BY <2>1, <2>2, <2>3 DEF AskedInv, Single
  <2>5. Serves'
    <3>1. \A x \in Ips : Served(x)' => Served(x)
      BY <2>2, IpFacts DEF Served
    <3>2. \A x : Asked(x) => Asked(x)'
      BY DEF Asked
    <3> QED
      BY <2>1, <3>1, <3>2 DEF AskedInv, Serves
  <2>6. PipeInOrder'
    BY <2>1 DEF AskedInv, PipeInOrder
  <2> QED
    BY <2>4, <2>5, <2>6 DEF AskedInv
<1> QED
  BY <1>1, <1>2 DEF Inv, Sound

(* What "-ip" takes back from Asked, and what reading any other command does not. *)
LEMMA PipeHead ==
    ASSUME Proc, pipe # <<>>, pipe' = Tail(pipe), cur' = cur
    PROVE  /\ Head(pipe) = pipe[1] /\ pipe[1] \in Cmd /\ Len(pipe) \in Nat \ {0}
           /\ pipe' \in Seq(Cmd)
           /\ \A x : Asked(x) => Asked(x)' \/ (pipe[1].op = "-" /\ pipe[1].ip = x)
           /\ PipeInOrder => PipeInOrder'
           /\ \A x : PipeInOrder /\ pipe[1].op = "+" /\ pipe[1].ip = x => Asked(x)'
<1>1. /\ pipe \in Seq(Cmd) /\ Len(pipe) \in Nat \ {0} /\ pipe' \in Seq(Cmd)
      /\ Head(pipe) = pipe[1] /\ pipe[1] \in Cmd
      /\ Len(pipe') = Len(pipe) - 1 /\ \A i \in 1..Len(pipe') : pipe'[i] = pipe[i + 1]
  BY HeadTailProperties, EmptySeq DEF Proc
<1>2. \A j \in 1..Len(pipe) : j > 1 => j - 1 \in 1..Len(pipe') /\ pipe'[j - 1] = pipe[j]
  BY <1>1
<1>3. \A x : Asked(x) => Asked(x)' \/ (pipe[1].op = "-" /\ pipe[1].ip = x)
  <2> SUFFICES ASSUME NEW x, Asked(x) PROVE Asked(x)' \/ (pipe[1].op = "-" /\ pipe[1].ip = x)
    OBVIOUS
  <2>1. CASE x \in cur
    BY <2>1 DEF Asked
  <2>2. CASE \E j \in 1..Len(pipe) : pipe[j].op = "-" /\ pipe[j].ip = x
    <3>1. PICK j \in 1..Len(pipe) : pipe[j].op = "-" /\ pipe[j].ip = x
      BY <2>2
    <3>2. CASE j = 1
      BY <3>1, <3>2
    <3>3. CASE j > 1
      BY <1>2, <3>1, <3>3 DEF Asked
    <3> QED
      BY <3>2, <3>3
  <2> QED
    BY <2>1, <2>2 DEF Asked
<1>4. ASSUME PipeInOrder PROVE PipeInOrder'
  <2> SUFFICES ASSUME NEW i \in 1..Len(pipe'), pipe'[i].op = "+"
               PROVE  \/ pipe'[i].ip \in cur'
                      \/ \E j \in 1..Len(pipe') :
                             j > i /\ pipe'[j].op = "-" /\ pipe'[j].ip = pipe'[i].ip
    BY DEF PipeInOrder
  <2>1. i + 1 \in 1..Len(pipe) /\ pipe'[i] = pipe[i + 1]
    BY <1>1
  <2>2. CASE pipe[i + 1].ip \in cur
    BY <2>1, <2>2
  <2>3. CASE \E j \in 1..Len(pipe) :
                j > i + 1 /\ pipe[j].op = "-" /\ pipe[j].ip = pipe[i + 1].ip
    <3>1. PICK j \in 1..Len(pipe) :
                j > i + 1 /\ pipe[j].op = "-" /\ pipe[j].ip = pipe[i + 1].ip
      BY <2>3
    <3>2. j - 1 \in 1..Len(pipe') /\ pipe'[j - 1] = pipe[j] /\ j - 1 > i
      BY <1>2, <3>1
    <3> QED
      BY <2>1, <3>1, <3>2
  <2> QED
    BY <1>4, <2>1, <2>2, <2>3 DEF PipeInOrder
<1>5. ASSUME NEW x, PipeInOrder, pipe[1].op = "+", pipe[1].ip = x PROVE Asked(x)'
  <2>1. CASE x \in cur
    BY <2>1 DEF Asked
  <2>2. CASE \E j \in 1..Len(pipe) : j > 1 /\ pipe[j].op = "-" /\ pipe[j].ip = x
    BY <1>2, <2>2 DEF Asked
  <2> QED
    BY <1>1, <1>5, <2>1, <2>2 DEF PipeInOrder
<1> QED
  BY <1>1, <1>3, <1>4, <1>5
LEMMA QueueFacts ==
    ASSUME pend \in [Ips -> Nat], NEW ip \in Ips
    PROVE  /\ Queue(ip) \in [Ips -> Nat]
           /\ \A q \in Ips : Queue(ip)[q] <= IF q = ip THEN pend[q] + 1 ELSE pend[q]
           /\ pend[ip] > 0 => /\ Unqueue(ip) \in [Ips -> Nat]
                              /\ \A q \in Ips : Unqueue(ip)[q] = IF q = ip THEN pend[q] - 1
                                                                 ELSE pend[q]
           /\ DropPending(ip) \in [Ips -> Nat]
           /\ \A q \in Ips : DropPending(ip)[q] <= pend[q]
           /\ pend[ip] <= 1 => DropPending(ip)[ip] = 0
BY DEF Queue, Unqueue, DropPending

(* The next initial member is tried; it is none of those pending or left. *)
LEMMA StartStep == Inv /\ Start => Sound'
<1> SUFFICES ASSUME Inv, Start PROVE Sound'
  OBVIOUS
<1>1. CASE todo = <<>>
  BY <1>1, FewerStep DEF Start, conns, Inv, Sound, Conn, Proc, OneConnection, At
<1>2. CASE todo # <<>>
  <2>0. /\ TryAdd(Head(todo)) /\ (pend' = pend \/ pend' = Queue(Head(todo)))
        /\ todo' = Tail(todo)
        /\ fan = "run" /\ pc = "start" /\ UNCHANGED <<cur, fan, pipe, pc>>
    BY <1>2 DEF Start, At
  <2>1. /\ todo \in Seq(Ips) /\ Len(todo) \in Nat \ {0} /\ todo' \in Seq(Ips)
        /\ Len(todo') = Len(todo) - 1 /\ \A i \in 1..Len(todo') : todo'[i] = todo[i + 1]
    BY <1>2, <2>0, HeadTailProperties, EmptySeq DEF Inv, Sound, Proc
  <2> DEFINE ip == todo[1]
  <2>2. ip \in Ips /\ Head(todo) = ip
    BY <1>2, <2>1, HeadTailProperties
  <2>3. \A i \in 1..Len(todo') : i + 1 \in 1..Len(todo)
    BY <2>1
  <2> HIDE DEF ip
  <2>4. Conn' /\ \A s \in Slots : sock'[s] = sock[s] \/ sock'[s] = ip
    BY <2>0, <2>2, TryAddStep DEF Inv, Sound
  <2>5. /\ pend' \in [Ips -> Nat] /\ \A q \in Ips : pend[q] \in Nat /\ pend'[q] \in Nat
        /\ \A q \in Ips : pend'[q] <= IF q = ip THEN pend[q] + 1 ELSE pend[q]
    <3>1. pend \in [Ips -> Nat]
      BY DEF Inv, Sound, Proc
    <3>2. CASE pend' = pend
      BY <3>1, <3>2
    <3>3. CASE pend' = Queue(ip)
      BY <2>2, <3>1, <3>3, QueueFacts
    <3> QED
      BY <2>0, <2>2, <3>2, <3>3
  <2>6. Proc'
    BY <2>0, <2>1, <2>5 DEF Inv, Sound, Proc
  <2>7. ASSUME ~ DupMembers PROVE AskedInv'
    <3>1. AskedInv
      BY <2>7 DEF Inv, Sound
    <3>2. \A i \in 1..Len(todo') : todo'[i] \in Ips /\ todo'[i] # ip /\ pend[todo'[i]] = 0
      <4> SUFFICES ASSUME NEW i \in 1..Len(todo')
                   PROVE  todo'[i] \in Ips /\ todo'[i] # ip /\ pend[todo'[i]] = 0
        OBVIOUS
      <4>1. todo'[i] = todo[i + 1] /\ i + 1 \in 1..Len(todo) /\ 1 \in 1..Len(todo) /\ i + 1 # 1
        BY <2>1, <2>3
      <4>2. todo'[i] \in Ips
        BY <2>1, <4>1, ElementOfSeq
      <4> QED
        BY <3>1, <4>1, <4>2 DEF AskedInv, Single, ip
    <3>3. 1 \in 1..Len(todo) /\ pend[ip] = 0
      <4>1. 1 \in 1..Len(todo)
        BY <2>1
      <4> QED
        BY <3>1, <4>1 DEF AskedInv, Single, ip
    <3>4. Single'
      <4>1. \A q \in Ips : pend'[q] <= 1
        BY <2>5, <3>1, <3>3 DEF AskedInv, Single
      <4>2. \A i, j \in 1..Len(todo') : todo'[i] = todo'[j] => i = j
        BY <2>1, <2>3, <3>1 DEF AskedInv, Single
      <4>3. \A i \in 1..Len(todo') : pend'[todo'[i]] = 0
        BY <2>5, <3>2
      <4> QED
        BY <4>1, <4>2, <4>3 DEF Single
    <3>5. Serves'
      <4>1. Served(ip)
        BY <3>3 DEF Served, ip
      <4>2. ASSUME NEW x \in Ips, Served(x)', x # ip PROVE Served(x)
        <5>1. CASE \E s \in Slots : sock'[s] = x
          BY <2>4, <4>2, <5>1 DEF Served
        <5>2. CASE pend'[x] > 0
          BY <2>5, <4>2, <5>2 DEF Served
        <5>3. CASE \E i \in 1..Len(todo') : todo'[i] = x
          BY <2>1, <2>3, <5>3 DEF Served
        <5> QED
          BY <4>2, <5>1, <5>2, <5>3 DEF Served
      <4>3. \A x : Asked(x) => Asked(x)'
        BY <2>0 DEF Asked
      <4> SUFFICES ASSUME NEW x \in Ips, Served(x)' PROVE Asked(x)'
        BY DEF Serves
      <4>4. Served(x)
        BY <4>1, <4>2 DEF Served
      <4> QED
        BY <2>0, <3>1, <4>3, <4>4 DEF AskedInv, Serves
    <3>6. PipeInOrder'
      BY <2>0, <3>1 DEF AskedInv, PipeInOrder
    <3> QED
      BY <3>4, <3>5, <3>6 DEF AskedInv
  <2> QED
    BY <2>4, <2>6, <2>7 DEF Inv, Sound
<1> QED
  BY <1>1, <1>2

(* The fan-out reads a command only if one is there. *)
LEMMA SomethingToRead == ASSUME Inv, ~ (Len(pipe) <= unwritten) PROVE pipe # <<>>
<1>1. unwritten \in 0..Len(pipe) /\ Len(pipe) \in Nat
  BY LenProperties DEF Inv, Sound, Written, Proc
<1> QED
  BY <1>1

(* A "+" is read: it is for a member that is asked for; or a "-": then its member
   is in no slot and not pending any more. *)
LEMMA CtrlStep == Inv /\ Ctrl => Sound'
<1> SUFFICES ASSUME Inv, Ctrl PROVE Sound'
  OBVIOUS
<1>1. CASE Len(pipe) <= unwritten
  BY <1>1, FewerStep DEF Ctrl, conns, Inv, Sound, Conn, Proc, OneConnection, At
<1>2. CASE ~ (Len(pipe) <= unwritten)
  <2>0. pipe # <<>>
    BY <1>2, SomethingToRead
  <2>1. /\ pipe' = Tail(pipe) /\ UNCHANGED <<cur, fan, pc, todo>>
        /\ fan = "run" /\ pc = "ctrl" /\ todo = <<>>
        /\ \/ Head(pipe).op = "+" /\ CtrlAdd(Head(pipe).ip)
           \/ Head(pipe).op = "-" /\ CtrlRemove(Head(pipe).ip)
    BY <1>2 DEF Ctrl, At, Inv, Sound, Proc
  <2> DEFINE ip == pipe[1].ip
             op == pipe[1].op
  <2>2. /\ Head(pipe) = pipe[1] /\ pipe[1] \in Cmd /\ pipe' \in Seq(Cmd)
        /\ \A x : Asked(x) => Asked(x)' \/ (op = "-" /\ ip = x)
        /\ PipeInOrder => PipeInOrder'
        /\ \A x : PipeInOrder /\ op = "+" /\ ip = x => Asked(x)'
    BY <2>0, <2>1, PipeHead DEF Inv, Sound
  <2>3. ip \in Ips /\ pend \in [Ips -> Nat] /\ Len(todo') = 0 /\ Len(todo) = 0
    BY <2>1, <2>2 DEF Cmd, Inv, Sound, Proc
  <2>4. \/ op = "+" /\ CtrlAdd(ip)
        \/ op = "-" /\ CtrlRemove(ip)
    BY <2>1, <2>2
  <2> HIDE DEF ip, op
  <2>5. CASE op = "+" /\ CtrlAdd(ip)
    <3>1. TryAdd(ip) /\ (pend' = pend \/ (pend[ip] = 0 /\ pend' = Queue(ip)))
      BY <2>3, <2>5 DEF CtrlAdd
    <3>2. Conn' /\ \A s \in Slots : sock'[s] = sock[s] \/ sock'[s] = ip
      BY <2>3, <3>1, TryAddStep DEF Inv, Sound
    <3>3. /\ pend' \in [Ips -> Nat]
          /\ \A q \in Ips : pend'[q] = pend[q] \/ (q = ip /\ pend'[q] <= 1)
      <4>1. CASE pend' = pend
        BY <2>3, <4>1
      <4>2. CASE pend[ip] = 0 /\ pend' = Queue(ip)
        BY <2>3, <4>2 DEF Queue
      <4> QED
        BY <3>1, <4>1, <4>2
    <3>4. Proc'
      BY <2>1, <2>2, <3>3 DEF Inv, Sound, Proc
    <3>5. ASSUME ~ DupMembers PROVE AskedInv'
      <4>1. AskedInv /\ PipeInOrder'
        BY <2>2, <3>5 DEF Inv, Sound, AskedInv
      <4>2. Single'
        BY <2>3, <3>3, <4>1 DEF AskedInv, Single
      <4>4. \A x \in Ips : Served(x)' => Served(x) \/ x = ip
        BY <2>3, <3>2, <3>3 DEF Served
      <4>5. Serves'
        <5> SUFFICES ASSUME NEW x \in Ips, Served(x)' PROVE Asked(x)'
          BY DEF Serves
        <5>1. CASE x = ip
          BY <2>2, <2>5, <4>1, <5>1 DEF AskedInv
        <5>2. CASE Served(x)
          BY <2>1, <2>2, <2>5, <4>1, <5>2 DEF AskedInv, Serves
        <5> QED
          BY <4>4, <5>1, <5>2
      <4> QED
        BY <4>1, <4>2, <4>5 DEF AskedInv
    <3> QED
      BY <3>2, <3>4, <3>5 DEF Inv, Sound
  <2>6. CASE op = "-" /\ CtrlRemove(ip)
    <3>1. Close(SlotsOf(ip)) /\ pend' = DropPending(ip)
      BY <2>6 DEF CtrlRemove
    <3>2. Conn' /\ \A s \in Slots : sock'[s] = IF sock[s] = ip THEN NoIp ELSE sock[s]
      BY <3>1, CloseStep DEF Inv, Sound, SlotsOf
    <3>3. /\ pend' \in [Ips -> Nat] /\ \A q \in Ips : pend'[q] <= pend[q]
          /\ \A q \in Ips : pend[q] \in Nat /\ pend'[q] \in Nat
          /\ pend[ip] <= 1 => pend'[ip] = 0
      BY <2>3, <3>1, QueueFacts
    <3>4. Proc'
      BY <2>1, <2>2, <3>3 DEF Inv, Sound, Proc
    <3>5. ASSUME ~ DupMembers PROVE AskedInv'
      <4>1. AskedInv /\ PipeInOrder'
        BY <2>2, <3>5 DEF Inv, Sound, AskedInv
      <4>2. Single'
        BY <2>3, <3>3, <4>1 DEF AskedInv, Single
      <4>3. pend'[ip] = 0
        BY <2>3, <3>3, <4>1 DEF AskedInv, Single
      <4>4. \A x \in Ips : Served(x)' => Served(x) /\ x # ip
        BY <2>3, <3>2, <3>3, <4>3, IpFacts DEF Served
      <4>5. Serves'
        <5> SUFFICES ASSUME NEW x \in Ips, Served(x)' PROVE Asked(x)'
          BY DEF Serves
        <5>1. Asked(x) /\ x # ip
          BY <2>1, <4>1, <4>4 DEF AskedInv, Serves
        <5> QED
          BY <2>2, <5>1
      <4> QED
        BY <4>1, <4>2, <4>5 DEF AskedInv
    <3> QED
      BY <3>2, <3>4, <3>5 DEF Inv, Sound
  <2> QED
    BY <2>4, <2>5, <2>6
<1> QED
  BY <1>1, <1>2

LEMMA RetryStep == ASSUME NEW ip \in Ips PROVE Inv /\ Retry(ip) => Sound'
<1> SUFFICES ASSUME Inv, Retry(ip) PROVE Sound'
  OBVIOUS
<1>1. TryAdd(ip) /\ pend[ip] > 0 /\ pend' = Unqueue(ip) /\ fan = "run"
      /\ UNCHANGED <<cur, fan, pipe, pc, todo>>
  BY DEF Retry, At
<1>2. Conn' /\ \A s \in Slots : sock'[s] = sock[s] \/ sock'[s] = ip
  BY <1>1, TryAddStep DEF Inv, Sound
<1>3. /\ pend' \in [Ips -> Nat] /\ \A q \in Ips : pend'[q] <= pend[q]
      /\ \A q \in Ips : pend[q] \in Nat /\ pend'[q] \in Nat
  <2>1. pend \in [Ips -> Nat]
    BY DEF Inv, Sound, Proc
  <2> QED
    BY <1>1, <2>1, QueueFacts
<1>4. Proc'
  BY <1>1, <1>3 DEF Inv, Sound, Proc
<1>5. ASSUME ~ DupMembers PROVE AskedInv'
  <2>1. AskedInv /\ PipeInOrder'
    BY <1>1, <1>5 DEF Inv, Sound, AskedInv, PipeInOrder
  <2>2. \A i \in 1..Len(todo) : todo[i] \in Ips
    BY ElementOfSeq DEF Inv, Sound, Proc
  <2>3. Single'
    BY <1>1, <1>3, <2>1, <2>2 DEF AskedInv, Single
  <2>4. Serves'
    <3>1. \A x \in Ips : Served(x)' => Served(x)
      BY <1>1, <1>2, <1>3 DEF Served
    <3>2. \A x : Asked(x) => Asked(x)'
      BY <1>1 DEF Asked
    <3> QED
      BY <1>1, <2>1, <3>1, <3>2 DEF AskedInv, Serves
  <2> QED
    BY <2>1, <2>3, <2>4 DEF AskedInv
<1> QED
  BY <1>2, <1>4, <1>5 DEF Inv, Sound

(* A fan-out is spawned with the members it is to try. *)
LEMMA SpawnStep ==
    ASSUME Inv, fan # "run", NEW S \in SUBSET Remotes, NEW D \in SUBSET S,
           D = {} \/ DupMembers, cur' = S \cup {Loopback},
           NEW list \in Listings(S, D), todo' = <<Loopback>> \o list,
           fan' = "run", pc' = "start", UNCHANGED <<pipe, pend, conns>>
    PROVE  Sound'
<1>1. Conn'
  BY DEF Inv, Sound, Conn, OneConnection, conns
<1>2. /\ list \in Seq(S) /\ list \in Seq(Ips) /\ Len(list) \in Nat
      /\ D = {} => \A i, j \in 1..Len(list) : list[i] = list[j] => i = j
  <2>1. S \subseteq Ips /\ D \subseteq S /\ list \in Listings(S, D)
    BY IpFacts
  <2>2. list \in Seq(S) /\ list \in Seq(Ips) /\ Len(list) \in Nat
    BY <2>1, ListingsType
  <2>3. ASSUME D = {} PROVE \A i, j \in 1..Len(list) : list[i] = list[j] => i = j
    BY <2>1, <2>3, ListingsType
  <2> QED
    BY <2>2, <2>3
<1>3. /\ todo' \in Seq(Ips) /\ Len(todo') = Len(list) + 1 /\ todo'[1] = Loopback
      /\ \A i \in 1..Len(list) : todo'[i + 1] = list[i]
  BY <1>2, IpFacts
<1>4. \A i \in 1..Len(todo') : i = 1 \/ (i - 1 \in 1..Len(list) /\ todo'[i] = list[i - 1])
  BY <1>2, <1>3
<1>5. \A i \in 1..Len(list) : list[i] \in S
  BY <1>2, ElementOfSeq
<1>6. pipe' = <<>> /\ pend' = NonePending /\ sock' = NoSlots
  BY DEF Inv, Sound, Proc, conns
<1>7. Proc'
  <2>1. pipe' \in Seq(Cmd) /\ pend' \in [Ips -> Nat]
    BY DEF Inv, Sound, Proc
  <2> QED
    BY <1>3, <2>1, IpFacts DEF Proc
<1>8. ASSUME ~ DupMembers PROVE AskedInv'
  <2>1. \A i \in 1..Len(todo') : todo'[i] \in S \cup {Loopback}
    BY <1>3, <1>4, <1>5
  <2>2. \A i, j \in 1..Len(todo') : todo'[i] = todo'[j] => i = j
    <3> SUFFICES ASSUME NEW i \in 1..Len(todo'), NEW j \in 1..Len(todo'), todo'[i] = todo'[j]
                 PROVE  i = j
      OBVIOUS
    <3>1. Loopback \notin S
      BY IpFacts
    <3>2. CASE i = 1 \/ j = 1
      BY <1>3, <1>4, <1>5, <3>1, <3>2
    <3>3. CASE i # 1 /\ j # 1
      <4>1. /\ i - 1 \in 1..Len(list) /\ todo'[i] = list[i - 1]
            /\ j - 1 \in 1..Len(list) /\ todo'[j] = list[j - 1]
        BY <1>4, <3>3
      <4>2. i - 1 = j - 1
        BY <1>2, <1>8, <4>1
      <4> QED
        BY <4>2
    <3> QED
      BY <3>2, <3>3
  <2>3. Single'
    <3>1. \A q \in Ips : pend'[q] = 0
      BY <1>6 DEF NonePending
    <3>2. \A i \in 1..Len(todo') : todo'[i] \in Ips
      BY <2>1, IpFacts
    <3>3. \A i \in 1..Len(todo') : pend'[todo'[i]] = 0
      BY <3>1, <3>2
    <3> QED
      BY <2>2, <3>1, <3>3 DEF Single
  <2>4. Serves'
    BY <1>6, <2>1, IpFacts DEF Serves, Served, Asked, NoSlots, NonePending
  <2>5. PipeInOrder'
    <3>1. Len(pipe') = 0
      BY <1>6
    <3> QED
      BY <3>1 DEF PipeInOrder
  <2> QED
    BY <2>3, <2>4, <2>5 DEF AskedInv
<1> QED
  BY <1>1, <1>7, <1>8 DEF Inv, Sound

(* The difference is written behind what is in the pipe already. *)
LEMMA DiffStep ==
    ASSUME Inv, fan = "run", NEW S \in SUBSET Remotes, NEW D \in SUBSET S,
           cur' = S \cup {Loopback}, WriteDiff(S, D), UNCHANGED <<fan, pc, todo, pend, conns>>
    PROVE  Sound'
<1>1. Conn'
  BY DEF Inv, Sound, Conn, OneConnection, conns
<1>2. PICK diff \in Seq(Cmd) :
        /\ pipe' = pipe \o diff
        /\ \A i \in 1..Len(diff) : diff[i].op = "+" => diff[i].ip \in S \cup {Loopback}
        /\ \A ip \in cur \ (S \cup {Loopback}) :
               \E i \in 1..Len(diff) : diff[i].op = "-" /\ diff[i].ip = ip
  <2>1. cur \in SUBSET Ips /\ pipe \in Seq(Cmd)
    BY DEF Inv, Sound, Proc
  <2>2. /\ Joiners(S) \subseteq S \cup {Loopback} /\ Leavers(S) = cur \ (S \cup {Loopback})
        /\ "+" # "-"
    BY DEF Joiners, Leavers
  <2>3. PICK diff \in Seq(Cmd) :
           /\ pipe' = pipe \o diff /\ unwritten' = Len(diff)
           /\ \A i \in 1..Len(diff) : \/ diff[i].op = "+" /\ diff[i].ip \in Joiners(S)
                                      \/ diff[i].op = "-" /\ diff[i].ip \in Leavers(S)
           /\ \A ip \in Joiners(S) : \E i \in 1..Len(diff) : diff[i].op = "+" /\ diff[i].ip = ip
           /\ \A ip \in Leavers(S) : \E i \in 1..Len(diff) : diff[i].op = "-" /\ diff[i].ip = ip
    BY <2>1, WriteDiffType
  <2>4. \A i \in 1..Len(diff) : diff[i].op = "+" => diff[i].ip \in S \cup {Loopback}
    BY <2>2, <2>3
  <2> QED
    BY <2>2, <2>3, <2>4
<1> DEFINE n == Len(pipe)
           m == Len(diff)
<1>3. pipe \in Seq(Cmd) /\ n \in Nat /\ m \in Nat
  BY LenProperties DEF Inv, Sound, Proc
<1>4. /\ pipe' \in Seq(Cmd) /\ Len(pipe') = n + m
      /\ \A i \in 1..(n + m) : pipe'[i] = IF i <= n THEN pipe[i] ELSE diff[i - n]
  BY <1>2, <1>3, ConcatProperties
<1>5. \A i \in 1..n : i \in 1..Len(pipe') /\ pipe'[i] = pipe[i]
  BY <1>3, <1>4
<1>6. \A i \in 1..m : n + i \in 1..Len(pipe') /\ n + i > n /\ pipe'[n + i] = diff[i]
  <2> SUFFICES ASSUME NEW i \in 1..m
               PROVE  n + i \in 1..Len(pipe') /\ n + i > n /\ pipe'[n + i] = diff[i]
    OBVIOUS
  <2>1. n + i \in 1..(n + m) /\ ~ (n + i <= n) /\ (n + i) - n = i /\ n + i > n
    BY <1>3
  <2> QED
    BY <1>4, <2>1
<1>7. Proc'
  BY <1>4, IpFacts DEF Inv, Sound, Proc
<1> HIDE DEF n, m
<1>8. \A x \in cur : x \in cur' \/ \E j \in 1..Len(pipe') :
                                    j > n /\ pipe'[j].op = "-" /\ pipe'[j].ip = x
  <2> SUFFICES ASSUME NEW x \in cur, x \notin cur'
               PROVE  \E j \in 1..Len(pipe') : j > n /\ pipe'[j].op = "-" /\ pipe'[j].ip = x
    OBVIOUS
  <2>1. PICK k \in 1..m : diff[k].op = "-" /\ diff[k].ip = x
    BY <1>2 DEF m
  <2> QED
    BY <1>6, <2>1
<1>9. ASSUME ~ DupMembers PROVE AskedInv'
  <2>1. AskedInv
    BY <1>9 DEF Inv, Sound
  <2>2. Single'
    BY <2>1 DEF AskedInv, Single
  <2>3. \A x : Asked(x) => Asked(x)'
    <3> SUFFICES ASSUME NEW x, Asked(x) PROVE Asked(x)'
      OBVIOUS
    <3>1. CASE x \in cur
      BY <1>8, <3>1 DEF Asked
    <3>2. CASE \E j \in 1..n : pipe[j].op = "-" /\ pipe[j].ip = x
      BY <1>5, <3>2 DEF Asked
    <3> QED
      BY <3>1, <3>2 DEF Asked, n
  <2>4. Serves'
    <3>1. \A x \in Ips : Served(x)' => Served(x)
      BY DEF Served, conns
    <3> QED
      BY <2>1, <2>3, <3>1 DEF AskedInv, Serves
  <2>5. PipeInOrder'
    <3> SUFFICES ASSUME NEW i \in 1..Len(pipe'), pipe'[i].op = "+"
                 PROVE  \/ pipe'[i].ip \in cur'
                        \/ \E j \in 1..Len(pipe') :
                               j > i /\ pipe'[j].op = "-" /\ pipe'[j].ip = pipe'[i].ip
      BY DEF PipeInOrder
    <3>1. CASE i <= n
      <4>1. i \in 1..n /\ pipe'[i] = pipe[i]
        BY <1>3, <1>5, <3>1
      <4>2. CASE pipe[i].ip \in cur
        <5>1. \A j \in 1..Len(pipe') : j > n => j > i
          BY <1>3, <1>4, <3>1
        <5> QED
          BY <1>8, <4>1, <4>2, <5>1
      <4>3. CASE \E j \in 1..n : j > i /\ pipe[j].op = "-" /\ pipe[j].ip = pipe[i].ip
        BY <1>5, <4>1, <4>3
      <4> QED
        BY <2>1, <4>1, <4>2, <4>3 DEF AskedInv, PipeInOrder, n
    <3>2. CASE ~ (i <= n)
      <4>1. i - n \in 1..m /\ pipe'[i] = diff[i - n]
        BY <1>3, <1>4, <3>2
      <4> QED
        BY <1>2, <4>1 DEF m
    <3> QED
      BY <3>1, <3>2
  <2> QED
    BY <2>2, <2>4, <2>5 DEF AskedInv
<1> QED
  BY <1>1, <1>7, <1>9 DEF Inv, Sound

LEMMA SourceStep == Inv /\ Source => Sound'
<1> SUFFICES ASSUME Inv, Source PROVE Sound'
  OBVIOUS
<1>1. PICK S \in SUBSET Remotes :
        \E D \in SUBSET S : /\ 1 + Cardinality(S) + Cardinality(D) <= FanoutMax
                            /\ Sources(S, D)
  BY DEF Source
<1>5. PICK D \in SUBSET S : Sources(S, D)
  BY <1>1
<1>2. CASE fan = "none" /\ fan' = "run"
  BY <1>5, <1>2, SpawnStep DEF Sources, Spawns
<1>3. CASE fan = "run" /\ WriteDiff(S, D) /\ UNCHANGED <<fan, pc, todo, pend, conns>>
  BY <1>5, <1>3, DiffStep DEF Sources, Spawns
<1>4. CASE fan = "exited" /\ UNCHANGED <<fanvars, conns>>
  <2>1. Conn' /\ Proc'
    BY <1>5, <1>4, IpFacts DEF Sources, Spawns, Inv, Sound, Conn, Proc, OneConnection, conns, fanvars
  <2>2. Len(pipe') = 0 /\ fan' # "run"
    BY <1>4 DEF Inv, Sound, Proc, fanvars
  <2>3. AskedInv => AskedInv'
    BY <1>4, <2>2 DEF AskedInv, Single, Serves, PipeInOrder, fanvars
  <2> QED
    BY <2>1, <2>3 DEF Inv, Sound
<1> QED
  BY <1>5, <1>2, <1>3, <1>4 DEF Sources, Spawns

LEMMA SendStep == Inv /\ Send => Sound'
<1> SUFFICES ASSUME Inv, Send PROVE Sound'
  OBVIOUS
<1>1. CASE Ends("exited")
  BY <1>1, EndsStep DEF Send, Inv, Sound, Proc
<1>2. ASSUME NEW D \in SUBSET Slots, Close(D), pc' = "ctrl",
             UNCHANGED <<cur, fan, pipe, todo, pend>>
      PROVE  Sound'
  BY <1>2, CloseStep, FewerStep DEF Send, At, Inv, Sound, Proc
<1> QED
  BY <1>1, <1>2 DEF Send

LEMMA NextSound == Inv /\ [Next]_vars => Sound'
<1> SUFFICES ASSUME Inv, [Next]_vars PROVE Sound'
  OBVIOUS
<1>0. /\ pend \in [Ips -> Nat] /\ \A ip \in Ips : pend[ip] <= pend[ip]
      /\ cur \in SUBSET Ips /\ {} \in SUBSET Ips
  BY DEF Inv, Sound, Proc
<1>1. CASE Source
  BY <1>1, SourceStep
<1>2. CASE StopSourcing
  BY <1>0, <1>2, EndsStep DEF StopSourcing
<1>3. CASE Reap
  <2>1. Conn' /\ Proc'
    BY <1>0, <1>3 DEF Reap, Inv, Sound, Conn, Proc, OneConnection, conns
  <2>2. Len(pipe') = 0 /\ fan' # "run"
    BY <1>3 DEF Reap, Inv, Sound, Proc
  <2>3. AskedInv => AskedInv'
    BY <1>3, <2>2 DEF Reap, AskedInv, Single, Serves, PipeInOrder
  <2> QED
    BY <2>1, <2>3 DEF Inv, Sound
<1>4. CASE NodeDies \/ Write \/ UNCHANGED vars
  <2>1. UNCHANGED <<cur, fanvars, conns>>
    BY <1>4 DEF NodeDies, Write, vars
  <2>2. Conn'
    BY <2>1 DEF Inv, Sound, Conn, OneConnection, conns
  <2> QED
    BY <1>0, <2>1, <2>2, FewerStep DEF fanvars, conns
<1>5. CASE Start
  BY <1>5, StartStep
<1>6. CASE Ctrl
  BY <1>6, CtrlStep
<1>7. CASE Pace
  <2>1. PICK D \in SUBSET Slots : Close(D)
    BY <1>7 DEF Pace
  <2> QED
    BY <1>0, <1>7, <2>1, CloseStep, FewerStep DEF Pace, At, Inv, Sound, Proc
<1>8. CASE Send
  BY <1>8, SendStep
<1>9. CASE PcmFails
  BY <1>0, <1>9, EndsStep DEF PcmFails
<1>10. ASSUME NEW ip \in Ips, Retry(ip) PROVE Sound'
  BY <1>10, RetryStep
<1>11. ASSUME NEW ip \in Ips, GiveUp(ip) PROVE Sound'
  <2>1. pend' \in [Ips -> Nat] /\ \A q \in Ips : pend'[q] <= pend[q]
    <3>1. pend[ip] > 0 /\ pend' = Unqueue(ip) /\ \A q \in Ips : pend[q] \in Nat
      BY <1>0, <1>11 DEF GiveUp
    <3> QED
      BY <1>0, <3>1, QueueFacts
  <2>2. Conn' /\ \A s \in Slots : sock'[s] = sock[s]
    BY <1>11 DEF GiveUp, Inv, Sound, Conn, OneConnection, conns
  <2> QED
    BY <1>11, <2>1, <2>2, FewerStep DEF GiveUp
<1>12. ASSUME NEW ip \in Ips, PlayerExits(ip) \/ Respawn(ip) PROVE Sound'
  <2>1. Conn' /\ \A s \in Slots : sock'[s] = sock[s]
    <3>1. CASE PlayerExits(ip)
      <4>1. /\ sock' = sock /\ player' = [player EXCEPT ![ip] = "down"]
            /\ up' = [s \in Slots |-> up[s] /\ sock[s] # ip]
        BY <3>1 DEF PlayerExits
      <4>2. \A q \in Ips : player'[q] = IF q = ip THEN "down" ELSE player[q]
        BY <4>1 DEF Inv, Sound, Conn
      <4>3. \A q \in Ips, s \in Slots :
              sock'[s] = q /\ up'[s] <=> sock[s] = q /\ up[s] /\ q # ip
        BY <4>1 DEF Inv, Sound, Conn
      <4>4. \A q \in Ips : player'[q] = "connected" <=> \E s \in Slots : sock'[s] = q /\ up'[s]
        BY <4>2, <4>3 DEF Inv, Sound, Conn, OneConnection
      <4>5. /\ sock' \in [Slots -> Ips \cup {NoIp}] /\ up' \in [Slots -> BOOLEAN]
            /\ player' \in [Ips -> {"listening", "connected", "down"}]
        BY <4>1 DEF Inv, Sound, Conn
      <4> QED
        BY <4>1, <4>4, <4>5 DEF Inv, Sound, Conn, OneConnection
    <3>2. CASE Respawn(ip)
      <4>1. /\ player[ip] = "down" /\ player' = [player EXCEPT ![ip] = "listening"]
            /\ UNCHANGED <<sock, up>>
        BY <3>2 DEF Respawn, Listens
      <4> QED
        BY <4>1 DEF Inv, Sound, Conn, OneConnection
    <3> QED
      BY <1>12, <3>1, <3>2
  <2> QED
    BY <1>0, <1>12, <2>1, FewerStep DEF PlayerExits, Respawn, fanvars
<1>13. CASE Reopen
  <2>1. Conn' /\ \A s \in Slots : sock'[s] = sock[s]
    BY <1>13 DEF Reopen, Inv, Sound, Conn, OneConnection, conns
  <2> QED
    BY <1>0, <1>13, <2>1, FewerStep DEF Reopen, At, Inv, Sound, Proc
<1> QED
  BY <1>1, <1>2, <1>3, <1>4, <1>5, <1>6, <1>7, <1>8, <1>9, <1>10, <1>11, <1>12, <1>13
     DEF Next, FanoutStep

(* What is written and what is read leaves the end of the pipe unwritten. *)
LEMMA NextWritten == Inv /\ [Next]_vars => Written'
<1> SUFFICES ASSUME Inv, [Next]_vars PROVE Written'
  OBVIOUS
<1>0. /\ unwritten \in 0..Len(pipe) /\ Len(pipe) \in Nat /\ pipe \in Seq(Cmd)
      /\ twice \in SUBSET (cur \ {Loopback}) /\ cur \in SUBSET Ips
  BY LenProperties DEF Inv, Sound, Written, Proc
<1>1. CASE UNCHANGED <<cur, twice, unwritten, pipe>>
  BY <1>0, <1>1 DEF Written
<1>2. ASSUME pipe' = <<>>, unwritten' = 0, twice' = {} \/ UNCHANGED <<cur, twice>>
      PROVE  Written'
  BY <1>0, <1>2 DEF Written
<1>3. CASE Source
  <2>1. PICK S \in SUBSET Remotes : \E D \in SUBSET S : Sources(S, D)
    BY <1>3 DEF Source
  <2>2. PICK D \in SUBSET S : Sources(S, D)
    BY <2>1
  <2>3. twice' \in SUBSET (cur' \ {Loopback})
    BY <2>2, FanoutAssumption DEF Sources, FanoutAssumption, Loopback
  <2>4. unwritten' \in 0..Len(pipe')
    <3>1. CASE UNCHANGED <<pipe, unwritten>>
      BY <1>0, <3>1
    <3>2. CASE WriteDiff(S, D)
      <4>1. PICK diff \in Seq(Cmd) : pipe' = pipe \o diff /\ unwritten' = Len(diff)
        BY <1>0, <3>2, WriteDiffType
      <4>2. Len(pipe') = Len(pipe) + Len(diff) /\ Len(diff) \in Nat
        BY <1>0, <4>1, ConcatProperties, LenProperties
      <4> QED
        BY <1>0, <4>1, <4>2
    <3> QED
      BY <2>2, <3>1, <3>2 DEF Sources, Spawns, fanvars
  <2> QED
    BY <2>3, <2>4 DEF Written
<1>4. CASE Write
  BY <1>0, <1>4 DEF Write, Written, fanvars
<1>5. CASE StopSourcing
  BY <1>2, <1>5 DEF StopSourcing, Ends
<1>6. CASE Reap
  BY <1>0, <1>6 DEF Reap, Written
<1>7. CASE NodeDies \/ Start \/ Pace \/ Reopen \/ UNCHANGED vars
  BY <1>1, <1>7 DEF NodeDies, Start, Pace, Reopen, vars, fanvars, daemon
<1>8. CASE Ctrl
  <2>1. CASE Len(pipe) <= unwritten
    BY <1>1, <1>8, <2>1 DEF Ctrl, daemon
  <2>2. CASE ~ (Len(pipe) <= unwritten)
    <3>1. pipe # <<>>
      BY <2>2, SomethingToRead
    <3>2. UNCHANGED <<cur, twice, unwritten>> /\ pipe' = Tail(pipe)
      BY <1>8, <2>2 DEF Ctrl, daemon
    <3>3. Len(pipe') = Len(pipe) - 1
      BY <1>0, <3>1, <3>2, HeadTailProperties
    <3> QED
      BY <1>0, <2>2, <3>2, <3>3 DEF Written
  <2> QED
    BY <2>1, <2>2
<1>9. CASE Send \/ PcmFails
  <2>1. CASE Ends("exited") /\ UNCHANGED <<cur, twice>>
    BY <1>2, <2>1 DEF Ends
  <2> QED
    BY <1>1, <1>9, <2>1 DEF Send, PcmFails
<1>10. ASSUME NEW ip \in Ips, Retry(ip) \/ GiveUp(ip) \/ PlayerExits(ip) \/ Respawn(ip)
       PROVE  Written'
  BY <1>1, <1>10 DEF Retry, GiveUp, PlayerExits, Respawn, fanvars, daemon
<1> QED
  BY <1>3, <1>4, <1>5, <1>6, <1>7, <1>8, <1>9, <1>10 DEF Next, FanoutStep

LEMMA NextInv == Inv /\ [Next]_vars => Inv'
BY NextSound, NextWritten DEF Inv

-----------------------------------------------------------------------------
(* For any number of members, slots, changes and failures: run_fanout never
   holds two connections to one member, and its slots and the players agree on
   who is connected. *)
THEOREM OneConnectionTheorem == Spec => []OneConnection
<1>1. Inv => OneConnection
  BY DEF Inv, Sound, Conn
<1> QED
  BY <1>1, InitInv, NextInv, PTL DEF Spec

(* For any number of members, slots, changes and failures: as long as the peer
   table names no member twice, run_fanout connects and retries none but those
   the node asked for. *)
THEOREM OnlyAskedForTheorem ==
    ASSUME ~ DupMembers PROVE Spec => []OnlyAskedFor
<1>1. Inv => OnlyAskedFor
  <2> SUFFICES ASSUME Inv, fan = "run",
                      NEW x \in Live \cup Pending \cup Range(todo)
               PROVE  x \in cur \cup Unread("-")
    BY DEF OnlyAskedFor
  <2>1. AskedInv /\ pipe \in Seq(Cmd) /\ todo \in Seq(Ips)
    BY DEF Inv, Sound, Proc
  <2>2. DOMAIN pipe = 1..Len(pipe) /\ DOMAIN todo = 1..Len(todo)
    BY <2>1, LenProperties
  <2>3. x \in Ips /\ Served(x)
    <3>1. CASE x \in Live
      BY <3>1 DEF Live, Served, Inv, Sound, Conn
    <3>2. CASE x \in Pending
      BY <3>2 DEF Pending, Served
    <3>3. CASE x \in Range(todo)
      <4>1. PICK i \in 1..Len(todo) : x = todo[i]
        BY <2>2, <3>3 DEF Range
      <4> QED
        BY <2>1, <4>1, ElementOfSeq DEF Served
    <3> QED
      BY <3>1, <3>2, <3>3
  <2>4. Asked(x)
    BY <2>1, <2>3 DEF AskedInv, Serves
  <2> QED
    BY <2>2, <2>4 DEF Asked, Unread
<1> QED
  BY <1>1, InitInv, NextInv, PTL DEF Spec

-----------------------------------------------------------------------------
(* Who leaves a slot.  Trying a member takes a free slot and touches no other. *)
LEMMA TryAddElsewhere ==
    ASSUME Conn, NEW ip, TryAdd(ip), NEW s \in Slots, sock[s] # NoIp
    PROVE  sock'[s] = sock[s]
<1>1. CASE sock' = sock
  BY <1>1
<1>2. ASSUME NEW t \in Free, sock' = [sock EXCEPT ![t] = ip] PROVE sock'[s] = sock[s]
  <2>1. t # s
    BY DEF Free
  <2> QED
    BY <1>2, <2>1 DEF Conn
<1> QED
  BY <1>1, <1>2 DEF TryAdd, conns

(* The slot of a member that is asked for all along, with its player up, is left
   by a Send that gave up on it, and in no other step. *)
Kept(s) == sock'[s] = sock[s] \/ (skips[s] = MaxSkips /\ failures' > failures)

Steady(s) ==
    /\ sock[s] # NoIp /\ up[s] /\ sock[s] \notin Unread("-")
    /\ fan = "run" /\ fan' = "run"

LEMMA CtrlKeeps ==
    ASSUME Inv, Ctrl, NEW s \in Slots, Steady(s)
    PROVE  sock'[s] = sock[s]
<1>1. CASE UNCHANGED conns
  BY <1>1 DEF conns
<1>0. ~ (Len(pipe) <= unwritten) => pipe # <<>>
  BY SomethingToRead
<1>2. ASSUME pipe # <<>>, TryAdd(Head(pipe).ip) PROVE sock'[s] = sock[s]
  BY <1>2, TryAddElsewhere DEF Inv, Sound, Steady
<1>3. ASSUME pipe # <<>>, Head(pipe).op = "-", Close(SlotsOf(Head(pipe).ip))
      PROVE  sock'[s] = sock[s]
  <2>1. pipe \in Seq(Cmd) /\ Head(pipe) = pipe[1] /\ 1 \in DOMAIN pipe
    BY <1>3, HeadTailProperties, LenProperties, EmptySeq DEF Inv, Sound, Proc
  <2>2. Head(pipe).ip \in Unread("-")
    BY <1>3, <2>1 DEF Unread
  <2>3. s \notin SlotsOf(Head(pipe).ip)
    BY <2>2 DEF Steady, SlotsOf
  <2> QED
    BY <1>3, <2>3 DEF Close
<1> QED
  BY <1>0, <1>1, <1>2, <1>3 DEF Ctrl, CtrlAdd, CtrlRemove

LEMMA SendKeeps ==
    ASSUME failures \in Nat, Send, NEW s \in Slots, Steady(s)
    PROVE  Kept(s)
<1>1. PICK lag \in SUBSET {t \in Slots : sock[t] # NoIp /\ up[t]},
           err \in SUBSET {t \in Slots : sock[t] # NoIp /\ ~ up[t]} :
        /\ failures' = failures + Cardinality({t \in lag : skips[t] = MaxSkips})
        /\ Ends("exited") \/ Close(err \cup {t \in lag : skips[t] = MaxSkips})
  BY DEF Send
<1> DEFINE stuck == {t \in lag : skips[t] = MaxSkips}
<1>2. Close(err \cup stuck) /\ s \notin err
  BY <1>1 DEF Steady, Ends
<1>3. CASE s \notin stuck
  BY <1>2, <1>3 DEF Close, Kept
<1>4. CASE s \in stuck
  <2>1. IsFiniteSet(Slots)
    BY FanoutAssumption, FS_Interval DEF FanoutAssumption, Slots
  <2>2. stuck \subseteq Slots
    OBVIOUS
  <2>3. failures' = failures + Cardinality(stuck) /\ skips[s] = MaxSkips
    BY <1>1, <1>4
  <2> HIDE DEF stuck
  <2>4. IsFiniteSet(stuck)
    BY <2>1, <2>2, FS_Subset
  <2>5. Cardinality(stuck) \in Nat /\ Cardinality(stuck) # 0
    BY <1>4, <2>4, FS_CardinalityType, FS_EmptySet
  <2> QED
    BY <2>3, <2>5 DEF Kept
<1> QED
  BY <1>3, <1>4

LEMMA NextKeeps ==
    ASSUME Inv, failures \in Nat, [Next]_vars, NEW s \in Slots, Steady(s)
    PROVE  Kept(s)
<1>1. CASE UNCHANGED vars \/ NodeDies \/ Reopen \/ Reap \/ Write
  BY <1>1 DEF vars, conns, NodeDies, Reopen, Reap, Write, Kept
<1>2. CASE Source
  <2>1. PICK S, D : Sources(S, D)
    BY <1>2 DEF Source
  <2> QED
    BY <2>1 DEF Sources, Spawns, Steady, Kept, conns
<1>3. CASE StopSourcing \/ PcmFails
  BY <1>3 DEF StopSourcing, PcmFails, Ends, Steady
<1>4. CASE Start
  <2>1. UNCHANGED conns \/ TryAdd(Head(todo))
    BY <1>4 DEF Start
  <2> QED
    BY <2>1, TryAddElsewhere DEF Inv, Sound, Steady, Kept, conns
<1>5. CASE Ctrl
  BY <1>5, CtrlKeeps DEF Kept
<1>6. CASE Pace
  BY <1>6 DEF Pace, Close, Steady, Kept
<1>7. CASE Send
  BY <1>7, SendKeeps
<1>8. ASSUME NEW ip \in Ips, Retry(ip) PROVE Kept(s)
  BY <1>8, TryAddElsewhere DEF Retry, Inv, Sound, Steady, Kept
<1>9. ASSUME NEW ip \in Ips, GiveUp(ip) \/ PlayerExits(ip) \/ Respawn(ip) PROVE Kept(s)
  BY <1>9 DEF GiveUp, PlayerExits, Respawn, conns, Kept
<1> QED
  BY <1>1, <1>2, <1>3, <1>4, <1>5, <1>6, <1>7, <1>8, <1>9 DEF Next, FanoutStep

Counted == failures \in Nat

LEMMA CountedStep == Counted /\ [Next]_vars => Counted'
<1> SUFFICES ASSUME failures \in Nat, [Next]_vars PROVE failures' \in Nat
  BY DEF Counted
<1>1. CASE Send
  <2>1. PICK lag \in SUBSET Slots :
            failures' = failures + Cardinality({t \in lag : skips[t] = MaxSkips})
    BY <1>1 DEF Send
  <2> DEFINE stuck == {t \in lag : skips[t] = MaxSkips}
  <2>2. IsFiniteSet(Slots)
    BY FanoutAssumption, FS_Interval DEF FanoutAssumption, Slots
  <2>5. stuck \subseteq Slots
    OBVIOUS
  <2>3. failures' = failures + Cardinality(stuck)
    BY <2>1
  <2> HIDE DEF stuck
  <2>4. Cardinality(stuck) \in Nat
    BY <2>2, <2>5, FS_Subset, FS_CardinalityType
  <2> QED
    BY <2>3, <2>4
<1>2. CASE ~ Send
  BY <1>2 DEF Next, vars, env, Source, Write, StopSourcing, Reap, NodeDies, FanoutStep, Start, Ctrl,
              Pace, Reopen, PcmFails, Retry, GiveUp, PlayerExits, Respawn
<1> QED
  BY <1>1, <1>2

(* For any number of members, slots, changes and failures: a member that is asked
   for all along, whose player is up and not stuck, stays in its slot, whoever
   else joins, leaves, fails or is tried again. *)
THEOREM UndisturbedTheorem == Spec => Undisturbed
<1>1. Inv /\ Counted /\ [Next]_vars => [StaysConnected]_vars
  BY NextKeeps DEF Steady, Kept, StaysConnected, Counted
<1>2. Init => Counted
  BY DEF Init, Counted
<1> QED
  BY <1>1, <1>2, InitInv, NextInv, CountedStep, PTL DEF Spec, Undisturbed

-----------------------------------------------------------------------------
(* NPend, the sum of the entries of the pending members: it is defined by recursion
   over the sets of members, so that it changes by one when one entry does is shown by
   induction on the size of those sets. *)
Pick(s) == CHOOSE x \in s : TRUE
Sums(it, f, Sets) ==
    \A s \in Sets : it[s] = IF s = {} THEN 0 ELSE f[Pick(s)] + it[s \ {Pick(s)}]
Differ(f, g, x, d, S) == \A y \in S : g[y] = IF y = x THEN f[y] + d ELSE f[y]
SumsApart(it, jt, x, d, Sets) == \A s \in Sets : jt[s] = it[s] + IF x \in s THEN d ELSE 0
AtMost(S, n) == {s \in SUBSET S : Cardinality(s) <= n}

LEMMA Climb ==
    ASSUME NEW n \in Nat, NEW T, 0 \in T,
           \A m \in 0..n-1 : m \in T => m + 1 \in T
    PROVE  \A m \in 0..n : m \in T
<1> SUFFICES ASSUME NEW x \in 0..n, x \notin T
             PROVE  FALSE
  OBVIOUS
<1> DEFINE Bad == {m \in 0..n : m \notin T}
           B == OpToRel(<, Nat)
<1>1. IsWellFoundedOn(B, Nat)
  BY NatLessThanWellFounded
<1>2. Bad \subseteq Nat /\ Bad # {}
  OBVIOUS
<1>3. \A a, b \in Nat : a < b => <<a, b>> \in B
  BY DEF OpToRel
<1> HIDE DEF B
<1>4. PICK k \in Bad : \A m \in Bad : ~ (<<m, k>> \in B)
  BY <1>1, <1>2, WFMin
<1>5. k \in 1..n /\ k - 1 \in 0..n-1 /\ k - 1 < k /\ k \in Nat /\ k - 1 \in Nat
  BY <1>4
<1>6. k - 1 \notin Bad
  BY <1>3, <1>4, <1>5
<1> QED
  BY <1>4, <1>5, <1>6

LEMMA Smaller ==
    ASSUME NEW S, IsFiniteSet(S), NEW s \in SUBSET S, s # {}
    PROVE  /\ Pick(s) \in s /\ Pick(s) \in S /\ s \ {Pick(s)} \in SUBSET S
           /\ Cardinality(s) \in Nat /\ Cardinality(s \ {Pick(s)}) \in Nat
           /\ Cardinality(s \ {Pick(s)}) = Cardinality(s) - 1
<1>1. Pick(s) \in s
  BY DEF Pick
<1>2. IsFiniteSet(s)
  BY FS_Subset
<1>3. Cardinality(s) \in Nat
  BY <1>2, FS_CardinalityType
<1>4. IsFiniteSet(s \ {Pick(s)}) /\ Cardinality(s \ {Pick(s)}) = Cardinality(s) - 1
  BY <1>1, <1>2, FS_RemoveElement
<1>5. Cardinality(s \ {Pick(s)}) \in Nat
  BY <1>4, FS_CardinalityType
<1> QED
  BY <1>1, <1>3, <1>4, <1>5

(* The sums for larger sets are made of those for smaller ones. *)
LEMMA SumExists ==
    ASSUME NEW S, IsFiniteSet(S), NEW f \in [S -> Nat]
    PROVE  \E it \in [SUBSET S -> Nat] : Sums(it, f, SUBSET S)
<1> DEFINE T == {n \in Nat : \E it \in [AtMost(S, n) -> Nat] : Sums(it, f, AtMost(S, n))}
           c == Cardinality(S)
<1>0. c \in Nat
  BY FS_CardinalityType
<1>1. 0 \in T
  <2> DEFINE it == [s \in AtMost(S, 0) |-> 0]
  <2>1. it \in [AtMost(S, 0) -> Nat]
    OBVIOUS
  <2>2. ASSUME NEW s \in AtMost(S, 0) PROVE s = {} /\ it[s] = 0
    <3>1. s \in SUBSET S /\ Cardinality(s) <= 0
      BY DEF AtMost
    <3>2. ASSUME s # {} PROVE FALSE
      <4>1. /\ Cardinality(s) \in Nat /\ Cardinality(s \ {Pick(s)}) \in Nat
            /\ Cardinality(s \ {Pick(s)}) = Cardinality(s) - 1
        BY <3>1, <3>2, Smaller
      <4> QED
        BY <3>1, <4>1
    <3> QED
      BY <3>2
  <2>3. Sums(it, f, AtMost(S, 0))
    BY <2>2 DEF Sums
  <2> HIDE DEF it
  <2> QED
    BY <2>1, <2>3
<1>2. ASSUME NEW n \in 0..c-1, n \in T PROVE n + 1 \in T
  <2>1. PICK it \in [AtMost(S, n) -> Nat] : Sums(it, f, AtMost(S, n))
    BY <1>2
  <2>2. n \in Nat /\ n + 1 \in Nat
    BY <1>0
  <2> DEFINE new(s) == IF s = {} THEN 0 ELSE f[Pick(s)] + it[s \ {Pick(s)}]
             jt == [s \in AtMost(S, n + 1) |-> new(s)]
  <2>3. ASSUME NEW s \in AtMost(S, n + 1), s # {}
        PROVE  s \ {Pick(s)} \in AtMost(S, n) /\ Pick(s) \in S
    <3>1. s \in SUBSET S /\ Cardinality(s) <= n + 1
      BY DEF AtMost
    <3>2. /\ Pick(s) \in S /\ s \ {Pick(s)} \in SUBSET S
          /\ Cardinality(s) \in Nat /\ Cardinality(s \ {Pick(s)}) \in Nat
          /\ Cardinality(s \ {Pick(s)}) = Cardinality(s) - 1
      BY <2>3, <3>1, Smaller
    <3>3. Cardinality(s \ {Pick(s)}) <= n
      BY <2>2, <3>1, <3>2
    <3> QED
      BY <3>2, <3>3 DEF AtMost
  <2>4. ASSUME NEW s \in AtMost(S, n + 1) PROVE new(s) \in Nat
    <3>1. CASE s = {}
      BY <3>1
    <3>2. CASE s # {}
      <4>1. f[Pick(s)] \in Nat /\ it[s \ {Pick(s)}] \in Nat
        BY <2>3, <3>2
      <4> QED
        BY <3>2, <4>1
    <3> QED
      BY <3>1, <3>2
  <2>5. jt \in [AtMost(S, n + 1) -> Nat]
    BY <2>4
  <2>6. ASSUME NEW s \in AtMost(S, n) PROVE s \in AtMost(S, n + 1) /\ jt[s] = it[s]
    <3>1. s \in SUBSET S /\ Cardinality(s) <= n
      BY DEF AtMost
    <3>2. Cardinality(s) \in Nat
      BY <3>1, FS_Subset, FS_CardinalityType
    <3>3. Cardinality(s) <= n + 1
      BY <2>2, <3>1, <3>2
    <3>4. s \in AtMost(S, n + 1)
      BY <3>1, <3>3 DEF AtMost
    <3>5. it[s] = new(s)
      BY <2>1 DEF Sums
    <3> QED
      BY <3>4, <3>5
  <2>7. ASSUME NEW s \in AtMost(S, n + 1)
        PROVE  jt[s] = IF s = {} THEN 0 ELSE f[Pick(s)] + jt[s \ {Pick(s)}]
    <3>1. CASE s = {}
      BY <3>1
    <3>2. CASE s # {}
      <4>1. jt[s] = f[Pick(s)] + it[s \ {Pick(s)}]
        BY <3>2
      <4>2. jt[s \ {Pick(s)}] = it[s \ {Pick(s)}]
        BY <2>3, <2>6, <3>2
      <4> HIDE DEF jt
      <4> QED
        BY <3>2, <4>1, <4>2
    <3> QED
      BY <3>1, <3>2
  <2>8. Sums(jt, f, AtMost(S, n + 1))
    <3> HIDE DEF jt
    <3> QED
      BY <2>7 DEF Sums
  <2> HIDE DEF jt
  <2> QED
    BY <2>2, <2>5, <2>8
<1>3. c \in T
  <2> HIDE DEF T, c
  <2>1. \A m \in 0..c : m \in T
    BY ONLY <1>0, <1>1, <1>2, Climb
  <2> QED
    BY <1>0, <2>1
<1>4. AtMost(S, c) = SUBSET S
  BY FS_Subset DEF AtMost
<1> QED
  BY <1>3, <1>4

(* One entry more or less is one more or less in every sum it is in. *)
LEMMA SumsDiffer ==
    ASSUME NEW S, IsFiniteSet(S), NEW f \in [S -> Int], NEW g, NEW x, NEW d \in Int,
           Differ(f, g, x, d, S),
           NEW it \in [SUBSET S -> Int], Sums(it, f, SUBSET S),
           NEW jt, Sums(jt, g, SUBSET S)
    PROVE  SumsApart(it, jt, x, d, SUBSET S)
<1> DEFINE Good(s) == jt[s] = it[s] + IF x \in s THEN d ELSE 0
           T == {n \in Nat : \A s \in AtMost(S, n) : Good(s)}
           c == Cardinality(S)
<1>0. c \in Nat
  BY FS_CardinalityType
<1>1. Good({})
  <2>1. {} \in SUBSET S
    OBVIOUS
  <2>2. it[{}] = 0 /\ jt[{}] = 0
    BY <2>1 DEF Sums
  <2> QED
    BY <2>2
<1>2. ASSUME NEW s \in SUBSET S, s # {}, Good(s \ {Pick(s)}) PROVE Good(s)
  <2> DEFINE p == Pick(s)
             r == s \ {p}
  <2>1. p \in s /\ p \in S /\ r \in SUBSET S
    BY <1>2, Smaller
  <2>2. it[s] = f[p] + it[r] /\ jt[s] = g[p] + jt[r]
    BY <1>2 DEF Sums
  <2>3. jt[r] = it[r] + IF x \in r THEN d ELSE 0
    BY <1>2
  <2>4. g[p] = IF p = x THEN f[p] + d ELSE f[p]
    BY <2>1 DEF Differ
  <2>5. it[r] \in Int /\ f[p] \in Int /\ it[s] \in Int
    BY <2>1
  <2>6. (x \in r) <=> (x \in s /\ x # p)
    OBVIOUS
  <2> HIDE DEF p, r
  <2>7. CASE x = p
    BY <2>1, <2>2, <2>3, <2>4, <2>5, <2>6, <2>7
  <2>8. CASE x # p
    BY <2>2, <2>3, <2>4, <2>5, <2>6, <2>8
  <2> QED
    BY <2>7, <2>8
<1> HIDE DEF Good
<1>3. 0 \in T
  <2>1. ASSUME NEW s \in AtMost(S, 0) PROVE s = {}
    <3>1. s \in SUBSET S /\ Cardinality(s) <= 0
      BY DEF AtMost
    <3>2. ASSUME s # {} PROVE FALSE
      <4>1. /\ Cardinality(s) \in Nat /\ Cardinality(s \ {Pick(s)}) \in Nat
            /\ Cardinality(s \ {Pick(s)}) = Cardinality(s) - 1
        BY <3>1, <3>2, Smaller
      <4> QED
        BY <3>1, <4>1
    <3> QED
      BY <3>2
  <2> QED
    BY <1>1, <2>1
<1>4. ASSUME NEW n \in 0..c-1, n \in T PROVE n + 1 \in T
  <2>1. n \in Nat /\ n + 1 \in Nat
    BY <1>0
  <2>2. ASSUME NEW s \in AtMost(S, n + 1) PROVE Good(s)
    <3>1. s \in SUBSET S /\ Cardinality(s) <= n + 1
      BY DEF AtMost
    <3>2. CASE s # {}
      <4>1. /\ s \ {Pick(s)} \in SUBSET S
            /\ Cardinality(s) \in Nat /\ Cardinality(s \ {Pick(s)}) \in Nat
            /\ Cardinality(s \ {Pick(s)}) = Cardinality(s) - 1
        BY <3>1, <3>2, Smaller
      <4>2. s \ {Pick(s)} \in AtMost(S, n)
        BY <2>1, <3>1, <4>1 DEF AtMost
      <4> QED
        BY <1>2, <1>4, <3>1, <3>2, <4>2
    <3> QED
      BY <1>1, <3>2
  <2> QED
    BY <2>1, <2>2
<1>5. c \in T
  <2> HIDE DEF T, c
  <2>1. \A m \in 0..c : m \in T
    BY ONLY <1>0, <1>3, <1>4, Climb
  <2> QED
    BY <1>0, <2>1
<1>6. AtMost(S, c) = SUBSET S
  BY FS_Subset DEF AtMost
<1> QED
  BY <1>5, <1>6 DEF Good, SumsApart

(* SumFunction is such a sum. *)
LEMMA SumReads ==
    ASSUME NEW S, IsFiniteSet(S), NEW f \in [S -> Nat]
    PROVE  \E it \in [SUBSET S -> Nat] : Sums(it, f, SUBSET S) /\ SumFunction(f) = it[S]
<1> DEFINE Body(it) == [s \in SUBSET S |-> IF s = {} THEN 0 ELSE f[Pick(s)] + it[s \ {Pick(s)}]]
           Ok(it) == it = Body(it)
           jt == CHOOSE it : Ok(it)
<1>1. PICK it \in [SUBSET S -> Nat] : Sums(it, f, SUBSET S)
  BY SumExists
<1>2. Ok(it)
  BY <1>1 DEF Sums
<1>3. Ok(jt)
  BY <1>2
<1>4. Sums(jt, f, SUBSET S) /\ jt = [s \in SUBSET S |-> jt[s]]
  <2>1. jt = Body(jt)
    BY <1>3
  <2> HIDE DEF jt
  <2> QED
    BY <2>1 DEF Sums
<1>5. SumFunction(f) = jt[S]
  <2>1. DOMAIN f = S
    OBVIOUS
  <2> QED
    BY <2>1 DEF SumFunction, SumFunctionOnSet, FoldFunctionOnSet, MapThenFoldSet, Pick
<1> HIDE DEF jt, Ok
<1>6. \A s \in SUBSET S : jt[s] = it[s]
  <2>1. f \in [S -> Int] /\ it \in [SUBSET S -> Int] /\ 0 \in Int
    OBVIOUS
  <2>2. Differ(f, f, 0, 0, S)
    BY <2>1 DEF Differ
  <2>3. SumsApart(it, jt, 0, 0, SUBSET S)
    BY ONLY <1>1, <1>4, <2>1, <2>2, SumsDiffer, IsFiniteSet(S), Zenon
  <2> QED
    BY <2>1, <2>3 DEF SumsApart
<1> QED
  BY <1>1, <1>5, <1>6

LEMMA NPendDiffers ==
    ASSUME NEW p \in [Ips -> Nat], NEW q \in [Ips -> Nat], NEW ip \in Ips, NEW d \in Int,
           Differ(p, q, ip, d, Ips)
    PROVE  NPend(p) \in Nat /\ NPend(q) = NPend(p) + d
<1>1. IsFiniteSet(Ips)
  BY IpFacts, FanoutAssumption, FS_AddElement DEF FanoutAssumption, Ips
<1>2. PICK it \in [SUBSET Ips -> Nat] : Sums(it, p, SUBSET Ips) /\ SumFunction(p) = it[Ips]
  BY <1>1, SumReads
<1>3. PICK jt \in [SUBSET Ips -> Nat] : Sums(jt, q, SUBSET Ips) /\ SumFunction(q) = jt[Ips]
  BY <1>1, SumReads
<1>4. SumsApart(it, jt, ip, d, SUBSET Ips)
  <2>1. p \in [Ips -> Int] /\ it \in [SUBSET Ips -> Int]
    OBVIOUS
  <2> QED
    BY <1>1, <1>2, <1>3, <2>1, SumsDiffer, Zenon
<1>5. jt[Ips] = it[Ips] + d
  BY <1>4 DEF SumsApart
<1> QED
  BY <1>2, <1>3, <1>5 DEF NPend

LEMMA NPendOfNone == NPend(NonePending) = 0
<1>1. IsFiniteSet(Ips)
  BY IpFacts, FanoutAssumption, FS_AddElement DEF FanoutAssumption, Ips
<1>2. NonePending \in [Ips -> Nat] /\ \A y \in Ips : NonePending[y] = 0
  BY DEF NonePending
<1>3. PICK jt \in [SUBSET Ips -> Nat] : Sums(jt, NonePending, SUBSET Ips)
                                        /\ SumFunction(NonePending) = jt[Ips]
  BY <1>1, <1>2, SumReads
<1> DEFINE it == [s \in SUBSET Ips |-> 0]
<1>4. it \in [SUBSET Ips -> Int] /\ \A s \in SUBSET Ips : it[s] = 0
  OBVIOUS
<1> HIDE DEF it
<1>5. Sums(it, NonePending, SUBSET Ips)
  <2> SUFFICES ASSUME NEW s \in SUBSET Ips, s # {}
               PROVE  it[s] = NonePending[Pick(s)] + it[s \ {Pick(s)}]
    BY <1>4 DEF Sums
  <2>1. Pick(s) \in Ips /\ s \ {Pick(s)} \in SUBSET Ips
    BY <1>1, Smaller
  <2> QED
    BY <1>2, <1>4, <2>1
<1>6. SumsApart(it, jt, NoIp, 0, SUBSET Ips)
  <2>1. NonePending \in [Ips -> Int] /\ 0 \in Int
    BY <1>2
  <2>2. Differ(NonePending, NonePending, NoIp, 0, Ips)
    BY <1>2 DEF Differ
  <2> QED
    BY <1>1, <1>3, <1>4, <1>5, <2>1, <2>2, SumsDiffer, Zenon
<1>7. jt[Ips] = it[Ips] + 0
  BY <1>6 DEF SumsApart
<1> QED
  BY <1>3, <1>4, <1>7 DEF NPend

(* What a step does to the pending members: one entry is added if there is room, or one
   that is there is taken away, or all are. *)
PendMoves ==
    \E ip \in Ips : \/ pend' \in {pend, NonePending, Queue(ip)}
                    \/ pend[ip] > 0 /\ pend' = Unqueue(ip)

LEMMA PendMovesKeep ==
    ASSUME pend \in [Ips -> Nat], NPend(pend) <= FanoutMax, PendMoves
    PROVE  NPend(pend') <= FanoutMax
<1>1. FanoutMax \in Nat
  BY FanoutAssumption DEF FanoutAssumption
<1>2. PICK ip \in Ips : \/ pend' \in {pend, NonePending, Queue(ip)}
                        \/ pend[ip] > 0 /\ pend' = Unqueue(ip)
  BY DEF PendMoves
<1>3. CASE pend' = NonePending
  BY <1>1, <1>3, NPendOfNone
<1>4. CASE pend' = Queue(ip) /\ pend' # pend
  <2>1. NPend(pend) < FanoutMax /\ pend' = [pend EXCEPT ![ip] = @ + 1]
    BY <1>4 DEF Queue
  <2>2. pend' \in [Ips -> Nat] /\ Differ(pend, pend', ip, 1, Ips) /\ 1 \in Int
    BY <2>1 DEF Differ
  <2>3. NPend(pend) \in Nat /\ NPend(pend') = NPend(pend) + 1
    BY <2>2, NPendDiffers
  <2> QED
    BY <1>1, <2>1, <2>3
<1>5. CASE pend[ip] > 0 /\ pend' = Unqueue(ip)
  <2>1. pend' = [pend EXCEPT ![ip] = @ - 1] /\ pend[ip] > 0
    BY <1>5 DEF Unqueue
  <2>2. pend' \in [Ips -> Nat] /\ Differ(pend, pend', ip, -1, Ips) /\ -1 \in Int
    BY <2>1 DEF Differ
  <2>3. NPend(pend) \in Nat /\ NPend(pend') = NPend(pend) + (-1)
    BY <2>2, NPendDiffers
  <2> QED
    BY <1>1, <2>3
<1> QED
  BY <1>2, <1>3, <1>4, <1>5

LEMMA StepPends == Inv /\ [Next]_vars => PendMoves
<1> SUFFICES ASSUME Inv, [Next]_vars PROVE PendMoves
  OBVIOUS
<1>0. Loopback \in Ips
  BY IpFacts
<1>1. CASE pend' = pend \/ pend' = NonePending
  BY <1>0, <1>1 DEF PendMoves
<1>2. CASE Start
  <2>1. todo # <<>> => Head(todo) \in Ips
    BY DEF Inv, Sound, Proc
  <2>2. \/ pend' = pend
        \/ todo # <<>> /\ pend' = Queue(Head(todo))
    BY <1>2 DEF Start
  <2> QED
    BY <1>1, <2>1, <2>2 DEF PendMoves
<1>3. CASE Ctrl
  <2>1. pipe # <<>> => Head(pipe).ip \in Ips
    <3>1. pipe # <<>> => Head(pipe) \in Cmd
      BY DEF Inv, Sound, Proc
    <3> QED
      BY <3>1 DEF Cmd
  <2>2. \/ pend' = pend
        \/ pipe # <<>> /\ pend' \in {Queue(Head(pipe).ip), DropPending(Head(pipe).ip)}
    BY <1>3, SomethingToRead DEF Ctrl, CtrlAdd, CtrlRemove
  <2> QED
    BY <1>1, <2>1, <2>2 DEF PendMoves, DropPending
<1>4. ASSUME NEW ip \in Ips, Retry(ip) \/ GiveUp(ip) PROVE PendMoves
  BY <1>4 DEF Retry, GiveUp, PendMoves
<1>5. CASE Source \/ Write \/ StopSourcing \/ Reap \/ NodeDies \/ Pace \/ Send \/ Reopen \/ PcmFails
           \/ UNCHANGED vars
  <2>1. pend' = pend \/ pend' = NonePending
    BY <1>5 DEF Source, Sources, Spawns, Write, StopSourcing, Reap, NodeDies, Pace, Send, Reopen,
                PcmFails, Ends, vars, fanvars
  <2> QED
    BY <1>1, <2>1
<1>6. ASSUME NEW ip \in Ips, PlayerExits(ip) \/ Respawn(ip) PROVE PendMoves
  <2>1. pend' = pend
    BY <1>6 DEF PlayerExits, Respawn, fanvars
  <2> QED
    BY <1>1, <2>1
<1> QED
  BY <1>2, <1>3, <1>4, <1>5, <1>6 DEF Next, FanoutStep

(* The rest of the state. *)
Skipped == skips \in [Slots -> 0..MaxSkips]
Bounds ==
    /\ fan \in {"none", "run", "exited"} /\ pc \in {"start", "ctrl", "retry", "send"}
    /\ nodeUp \in BOOLEAN /\ changes \in 0..MaxChanges /\ failures \in 0..MaxFailures

LEMMA SkippedStep == Skipped /\ [Next]_vars => Skipped'
<1> SUFFICES ASSUME Skipped, [Next]_vars PROVE Skipped'
  OBVIOUS
<1>0. MaxSkips \in Nat /\ skips \in [Slots -> 0..MaxSkips]
  BY FanoutAssumption DEF FanoutAssumption, Skipped
<1>1. CASE skips' = skips
  BY <1>1 DEF Skipped
<1>2. CASE skips' = [s \in Slots |-> 0]
  BY <1>0, <1>2 DEF Skipped
<1>3. ASSUME NEW ip, TryAdd(ip) PROVE Skipped'
  <2>1. skips' = skips \/ \E s \in Slots : skips' = [skips EXCEPT ![s] = 0]
    BY <1>3 DEF TryAdd, conns, Free
  <2> QED
    BY <1>0, <2>1 DEF Skipped
<1>4. CASE Send
  <2>1. PICK lag \in SUBSET Slots :
            \/ Ends("exited")
            \/ skips' = [s \in Slots |-> IF s \in lag \ {t \in lag : skips[t] = MaxSkips}
                                         THEN skips[s] + 1 ELSE 0]
    BY <1>4 DEF Send
  <2>2. CASE Ends("exited")
    BY <1>2, <2>2 DEF Ends
  <2>3. CASE skips' = [s \in Slots |-> IF s \in lag \ {t \in lag : skips[t] = MaxSkips}
                                       THEN skips[s] + 1 ELSE 0]
    BY <1>0, <2>3 DEF Skipped
  <2> QED
    BY <2>1, <2>2, <2>3
<1>5. CASE ~ Send
  BY <1>1, <1>2, <1>3, <1>5
     DEF Next, vars, conns, Source, Sources, Spawns, Write, StopSourcing, Reap, NodeDies, FanoutStep,
         Start, Ctrl, CtrlAdd, CtrlRemove, Pace, Reopen, PcmFails, Ends, Retry, GiveUp,
         PlayerExits, Respawn
<1> QED
  BY <1>4, <1>5

LEMMA BoundsStep == Bounds /\ [Next]_vars => Bounds'
<1> SUFFICES ASSUME Bounds, [Next]_vars PROVE Bounds'
  OBVIOUS
<1>0. /\ MaxChanges \in Nat /\ MaxFailures \in Nat
      /\ changes \in 0..MaxChanges /\ failures \in 0..MaxFailures
  BY FanoutAssumption DEF FanoutAssumption, Bounds
<1>1. nodeUp' \in BOOLEAN /\ fan' \in {"none", "run", "exited"}
      /\ pc' \in {"start", "ctrl", "retry", "send"}
  BY DEF Bounds, Next, vars, fanvars, env, Source, Sources, Spawns, Write, StopSourcing, Reap, NodeDies,
         FanoutStep, Start, Ctrl, Pace, Send, Reopen, PcmFails, Ends, Retry, GiveUp,
         PlayerExits, Respawn
<1>2. changes' \in 0..MaxChanges
  <2>1. changes' = changes \/ (changes < MaxChanges /\ changes' = changes + 1)
    BY DEF Next, vars, env, Source, Write, StopSourcing, Reap, NodeDies, FanoutStep, Start, Ctrl,
           Pace, Send, Reopen, PcmFails, Retry, GiveUp, PlayerExits, Respawn
  <2> QED
    BY <1>0, <2>1
<1>3. failures' \in 0..MaxFailures
  <2>1. CASE Send
    <3>1. PICK lag \in SUBSET Slots :
              /\ failures + Cardinality({t \in lag : skips[t] = MaxSkips}) <= MaxFailures
              /\ failures' = failures + Cardinality({t \in lag : skips[t] = MaxSkips})
      BY <2>1 DEF Send
    <3> DEFINE n == Cardinality({t \in lag : skips[t] = MaxSkips})
    <3>2. n \in Nat
      <4>1. IsFiniteSet(Slots)
        BY FanoutAssumption, FS_Interval DEF FanoutAssumption, Slots
      <4>2. {t \in lag : skips[t] = MaxSkips} \in SUBSET Slots
        OBVIOUS
      <4> QED
        BY <4>1, <4>2, FS_Subset, FS_CardinalityType
    <3> HIDE DEF n
    <3>3. failures + n <= MaxFailures /\ failures' = failures + n
      BY <3>1 DEF n
    <3> QED
      BY <1>0, <3>2, <3>3
  <2>2. CASE ~ Send
    <3>1. failures' = failures \/ (failures < MaxFailures /\ failures' = failures + 1)
      BY <2>2 DEF Next, vars, env, Source, Write, StopSourcing, Reap, NodeDies, FanoutStep, Start,
                  Ctrl, Pace, Reopen, PcmFails, Retry, GiveUp, PlayerExits, Respawn
    <3> QED
      BY <1>0, <3>1
  <2> QED
    BY <2>1, <2>2
<1> QED
  BY <1>1, <1>2, <1>3 DEF Bounds

(* For any number of members and slots: no slot counts more skips in a row than it may
   have, the table of pending members never overflows, members counted twice included,
   and no command names anyone else. *)
THEOREM TypesTheorem == Spec => []TypeOK
<1> DEFINE Room == NPend(pend) <= FanoutMax
<1>1. Init => Skipped /\ Bounds /\ Room
  <2> SUFFICES ASSUME Init PROVE Skipped /\ Bounds /\ Room
    OBVIOUS
  <2>0. MaxSkips \in Nat /\ FanoutMax \in Nat /\ MaxChanges \in Nat /\ MaxFailures \in Nat
    BY FanoutAssumption DEF FanoutAssumption
  <2>1. pend = NonePending /\ skips = [s \in Slots |-> 0] /\ changes = 0 /\ failures = 0
        /\ fan = "none" /\ pc = "start" /\ nodeUp = TRUE
    BY DEF Init
  <2> QED
    BY <2>0, <2>1, NPendOfNone DEF Skipped, Bounds
<1>2. Inv /\ Room /\ [Next]_vars => Room'
  BY StepPends, PendMovesKeep DEF Inv, Sound, Proc
<1>3. Inv /\ Room /\ Skipped /\ Bounds => TypeOK
  BY DEF Inv, Sound, Written, Conn, Proc, Skipped, Bounds, TypeOK
<1> HIDE DEF Room
<1> QED
  BY <1>1, <1>2, <1>3, InitInv, NextInv, SkippedStep, BoundsStep, PTL DEF Spec

-----------------------------------------------------------------------------
(* As long as nothing fails and every member has a slot, the fan-out serves exactly
   the members the node has, but for the commands it has yet to read. *)
Fits == ~ DupMembers /\ Cardinality(Ips) <= FanoutMax

Named(x) == \E i \in 1..Len(pipe) : pipe[i].ip = x
LastOf(i) == \A j \in 1..Len(pipe) : j > i => pipe[j].ip # pipe[i].ip

(* The last command of a member says whether it is wanted; and one that is not named
   is served if and only if it is wanted. *)
PipeRight == \A i \in 1..Len(pipe) : LastOf(i) => (pipe[i].op = "+" <=> pipe[i].ip \in cur)
ServedRight == \A x \in Ips : ~ Named(x) => (Served(x) <=> x \in cur)

(* Players hold on to their connections, and the pending members are counted right. *)
AllUp == \A s \in Slots : sock[s] # NoIp => up[s]
Counts == NPend(pend) = Cardinality(Pending)

Smooth == failures = 0 => AllUp /\ (fan = "run" => PipeRight /\ ServedRight)
Whole == Inv /\ Counted /\ Counts

LEMMA IpsFinite == IsFiniteSet(Ips) /\ Cardinality(Ips) \in Nat /\ Slots = 1..FanoutMax
                   /\ FanoutMax \in Nat /\ IsFiniteSet(Slots) /\ Cardinality(Slots) = FanoutMax
<1>1. IsFiniteSet(Ips)
  BY IpFacts, FanoutAssumption, FS_AddElement DEF FanoutAssumption, Ips
<1>2. FanoutMax \in Nat /\ FanoutMax # 0
  BY FanoutAssumption DEF FanoutAssumption
<1>3. IsFiniteSet(1..FanoutMax) /\ Cardinality(1..FanoutMax) = FanoutMax
  <2>1. FanoutMax \in Int /\ 1 \in Int /\ 1 <= FanoutMax /\ FanoutMax - 1 + 1 = FanoutMax
    BY <1>2
  <2> QED
    BY <2>1, FS_Interval
<1> QED
  BY <1>1, <1>2, <1>3, FS_CardinalityType DEF Slots

(* A member without a slot finds one, ... *)
LEMMA FreeSlot ==
    ASSUME Conn, Cardinality(Ips) <= FanoutMax, NEW ip \in Ips, ip \notin Live
    PROVE  Free # {}
<1> SUFFICES ASSUME Free = {} PROVE FALSE
  OBVIOUS
<1> DEFINE S == Ips \ {ip}
<1>1. sock \in [Slots -> S]
  <2>1. \A s \in Slots : sock[s] # NoIp /\ sock[s] \in Ips
    BY DEF Free, Conn
  <2>2. \A s \in Slots : sock[s] # ip
    BY IpFacts DEF Live
  <2> QED
    BY <2>1, <2>2 DEF Conn
<1>2. IsFiniteSet(S) /\ Cardinality(S) = Cardinality(Ips) - 1
  BY IpsFinite, FS_RemoveElement
<1>3. \A s, t \in Slots : sock[s] = sock[t] => s = t
  BY DEF Free, Conn, OneConnection
<1>4. Cardinality(S) < Cardinality(Slots) /\ IsFiniteSet(Slots)
  BY <1>2, IpsFinite
<1> HIDE DEF S
<1>5. \E i, j \in Slots : i # j /\ sock[i] = sock[j]
  BY ONLY <1>1, <1>2, <1>4, FS_PigeonHole
<1> QED
  BY <1>3, <1>5

(* ... and one that is not pending finds room among those that are. *)
LEMMA RoomToQueue ==
    ASSUME pend \in [Ips -> Nat], Counts, Cardinality(Ips) <= FanoutMax,
           NEW ip \in Ips, pend[ip] = 0
    PROVE  Queue(ip) = [pend EXCEPT ![ip] = @ + 1]
<1>1. Pending \in SUBSET Ips /\ Pending # Ips
  BY DEF Pending
<1>2. /\ Cardinality(Pending) <= Cardinality(Ips) /\ Cardinality(Pending) # Cardinality(Ips)
      /\ IsFiniteSet(Pending)
  BY <1>1, IpsFinite, FS_Subset
<1>3. Cardinality(Pending) \in Nat
  BY <1>2, FS_CardinalityType
<1> QED
  BY <1>2, <1>3, IpsFinite DEF Counts, Queue

(* A member that is tried is in a slot, or cannot be connected yet. *)
LEMMA TriedFacts ==
    ASSUME Conn, Cardinality(Ips) <= FanoutMax, NEW ip \in Ips, TryAdd(ip)
    PROVE  /\ Added(ip) => \E s \in Slots : sock'[s] = ip
           /\ AllUp => AllUp'
<1>1. CASE UNCHANGED conns /\ (There(ip) \/ ~ Connects(ip))
  <2>1. There(ip) => \E s \in Slots : sock[s] = ip
    BY DEF There, Live
  <2> QED
    BY <1>1, <2>1 DEF Added, conns, AllUp
<1>2. ASSUME NEW s \in Free, sock' = [sock EXCEPT ![s] = ip], up' = [up EXCEPT ![s] = TRUE]
      PROVE  (\E t \in Slots : sock'[t] = ip) /\ (AllUp => AllUp')
  BY <1>2 DEF Free, Conn, AllUp
<1>3. CASE ~ There(ip) /\ Free = {}
  BY <1>3, FreeSlot DEF There
<1> QED
  BY <1>1, <1>2, <1>3 DEF TryAdd

-----------------------------------------------------------------------------
(* Nothing the fan-out does but reading a command changes whom it serves. *)
SameServed == \A x \in Ips : Served(x)' <=> Served(x)

LEMMA SameStep ==
    ASSUME PipeRight, ServedRight, UNCHANGED <<cur, pipe>>, SameServed
    PROVE  (PipeRight /\ ServedRight)'
BY DEF PipeRight, ServedRight, LastOf, Named, SameServed

LEMMA StartSame ==
    ASSUME Whole, Fits, Start
    PROVE  SameServed /\ (AllUp => AllUp')
<1>1. CASE todo = <<>>
  BY <1>1 DEF Start, conns, SameServed, Served, AllUp
<1>2. CASE todo # <<>>
  <2>0. /\ TryAdd(Head(todo))
        /\ pend' = IF Added(Head(todo)) THEN pend ELSE Queue(Head(todo))
        /\ todo' = Tail(todo)
    BY <1>2 DEF Start
  <2>1. /\ todo \in Seq(Ips) /\ Len(todo) \in Nat \ {0}
        /\ Len(todo') = Len(todo) - 1 /\ \A i \in 1..Len(todo') : todo'[i] = todo[i + 1]
    BY <1>2, <2>0, HeadTailProperties, EmptySeq DEF Whole, Inv, Sound, Proc
  <2>2. PICK ip \in Ips : ip = todo[1] /\ Head(todo) = ip /\ 1 \in 1..Len(todo)
    BY <1>2, <2>1, HeadTailProperties
  <2>3. Served(ip)
    BY <2>2 DEF Served
  <2>4. \A x \in Ips : (\E i \in 1..Len(todo') : todo'[i] = x) => \E i \in 1..Len(todo) : todo[i] = x
    <3>1. \A i \in 1..Len(todo') : i + 1 \in 1..Len(todo)
      BY <2>1
    <3> QED
      BY <2>1, <3>1
  <2>5. \A x \in Ips : x # ip /\ (\E i \in 1..Len(todo) : todo[i] = x)
                       => \E i \in 1..Len(todo') : todo'[i] = x
    <3> SUFFICES ASSUME NEW x \in Ips, x # ip, NEW i \in 1..Len(todo), todo[i] = x
                 PROVE  \E k \in 1..Len(todo') : todo'[k] = x
      OBVIOUS
    <3>1. i # 1
      BY <2>2
    <3>2. i - 1 \in 1..Len(todo') /\ todo'[i - 1] = todo[i]
      BY <2>1, <3>1
    <3> QED
      BY <3>2
  <2>6. pend \in [Ips -> Nat] /\ pend[ip] = 0 /\ Conn /\ Cardinality(Ips) <= FanoutMax
    <3>1. pend \in [Ips -> Nat] /\ Conn /\ Cardinality(Ips) <= FanoutMax /\ Single
      BY DEF Whole, Inv, Sound, Proc, Fits, AskedInv
    <3> QED
      BY <2>2, <3>1 DEF Single
  <2>7. /\ \A s \in Slots : sock'[s] = sock[s] \/ sock'[s] = ip
        /\ \A s \in Slots : sock[s] # NoIp => sock'[s] = sock[s]
        /\ Added(ip) => \E s \in Slots : sock'[s] = ip
        /\ AllUp => AllUp'
    BY <2>0, <2>2, <2>6, TryAddStep, TryAddElsewhere, TriedFacts
  <2>8. pend' = pend \/ (~ Added(ip) /\ pend' = [pend EXCEPT ![ip] = @ + 1])
    BY <2>0, <2>2, <2>6, RoomToQueue DEF Whole
  <2>9. Served(ip)'
    <3>1. CASE Added(ip)
      BY <2>7, <3>1 DEF Served
    <3>2. CASE ~ Added(ip)
      <4>1. pend' = [pend EXCEPT ![ip] = @ + 1]
        BY <2>0, <2>2, <2>6, <3>2, RoomToQueue DEF Whole
      <4>2. pend'[ip] > 0
        BY <2>2, <2>6, <4>1
      <4> QED
        BY <4>2 DEF Served
    <3> QED
      BY <3>1, <3>2
  <2>10. ASSUME NEW x \in Ips, x # ip PROVE Served(x)' <=> Served(x)
    <3>1. pend'[x] = pend[x]
      BY <2>6, <2>8, <2>10
    <3>2. x # NoIp
      BY IpFacts
    <3>3. (\E s \in Slots : sock'[s] = x) <=> \E s \in Slots : sock[s] = x
      BY <2>7, <2>10, <3>2
    <3>4. (\E i \in 1..Len(todo') : todo'[i] = x) <=> \E i \in 1..Len(todo) : todo[i] = x
      BY <2>4, <2>5, <2>10
    <3> QED
      BY <3>1, <3>3, <3>4 DEF Served
  <2> QED
    BY <2>3, <2>7, <2>9, <2>10 DEF SameServed
<1> QED
  BY <1>1, <1>2

LEMMA RetrySame ==
    ASSUME Whole, Fits, NEW ip \in Ips, Retry(ip)
    PROVE  SameServed /\ (AllUp => AllUp')
<1>1. /\ TryAdd(ip) /\ Added(ip) /\ pend[ip] > 0 /\ pend' = Unqueue(ip) /\ todo' = todo
      /\ Conn /\ Cardinality(Ips) <= FanoutMax /\ pend \in [Ips -> Nat]
  BY DEF Retry, Whole, Inv, Sound, Fits, Proc
<1>2. /\ \A s \in Slots : sock'[s] = sock[s] \/ sock'[s] = ip
      /\ \A s \in Slots : sock[s] # NoIp => sock'[s] = sock[s]
      /\ \E s \in Slots : sock'[s] = ip
      /\ AllUp => AllUp'
  BY <1>1, TryAddStep, TryAddElsewhere, TriedFacts
<1>3. Served(ip) /\ Served(ip)'
  BY <1>1, <1>2 DEF Served
<1>4. ASSUME NEW x \in Ips, x # ip PROVE Served(x)' <=> Served(x)
  <2>1. pend'[x] = pend[x] /\ x # NoIp
    BY <1>1, <1>4, IpFacts DEF Unqueue
  <2>2. (\E s \in Slots : sock'[s] = x) <=> \E s \in Slots : sock[s] = x
    BY <1>2, <1>4, <2>1
  <2> QED
    BY <1>1, <2>1, <2>2 DEF Served
<1> QED
  BY <1>2, <1>3, <1>4 DEF SameServed

(* A chunk that nobody gets too late is taken by all. *)
LEMMA SendSame ==
    ASSUME Whole, failures = 0, AllUp, Send, failures' = 0
    PROVE  Ends("exited") \/ (SameServed /\ AllUp' /\ UNCHANGED <<cur, pipe>>)
<1>1. PICK lag \in SUBSET {t \in Slots : sock[t] # NoIp /\ up[t]},
           err \in SUBSET {t \in Slots : sock[t] # NoIp /\ ~ up[t]} :
        /\ failures' = failures + Cardinality({t \in lag : skips[t] = MaxSkips})
        /\ \/ Ends("exited")
           \/ /\ Close(err \cup {t \in lag : skips[t] = MaxSkips})
              /\ UNCHANGED <<fan, pipe, todo, pend>>
        /\ UNCHANGED <<cur, nodeUp, changes>>
  BY DEF Send
<1> DEFINE stuck == {t \in lag : skips[t] = MaxSkips}
<1>2. err = {}
  BY DEF AllUp
<1>3. stuck = {}
  <2>1. stuck \subseteq Slots
    OBVIOUS
  <2>2. Cardinality(stuck) = 0 + Cardinality(stuck) => Cardinality(stuck) = failures'
    BY <1>1
  <2> HIDE DEF stuck
  <2>3. IsFiniteSet(stuck)
    BY <2>1, IpsFinite, FS_Subset
  <2>4. Cardinality(stuck) \in Nat
    BY <2>3, FS_CardinalityType
  <2> QED
    BY <2>2, <2>3, <2>4, FS_EmptySet
<1>4. CASE Close(err \cup stuck) /\ UNCHANGED <<fan, pipe, todo, pend>>
  <2>1. \A s \in Slots : sock'[s] = sock[s] /\ (up'[s] <=> up[s])
    BY <1>2, <1>3, <1>4 DEF Close
  <2> QED
    BY <1>1, <1>4, <2>1 DEF SameServed, Served, AllUp
<1> QED
  BY <1>1, <1>4

LEMMA PaceSame ==
    ASSUME AllUp, Pace PROVE SameServed /\ AllUp'
<1>1. PICK D \in SUBSET {s \in Slots : sock[s] # NoIp /\ ~ up[s]} : Close(D)
  BY DEF Pace
<1>2. D = {}
  BY DEF AllUp
<1>3. \A s \in Slots : sock'[s] = sock[s] /\ (up'[s] <=> up[s])
  BY <1>1, <1>2 DEF Close
<1> QED
  BY <1>3 DEF Pace, SameServed, Served, AllUp

-----------------------------------------------------------------------------
(* A command that is read does what it says: then all others are as right as before. *)
LEMMA CommandRead ==
    ASSUME Whole, Fits, Ctrl, pipe # <<>>, ~ (Len(pipe) <= unwritten)
    PROVE  /\ \A x \in Ips : x # pipe[1].ip => (Served(x)' <=> Served(x))
           /\ \A x \in Ips : x = pipe[1].ip => (Served(x)' <=> pipe[1].op = "+")
           /\ AllUp => AllUp'
<1>0. /\ Conn /\ Single /\ pend \in [Ips -> Nat] /\ Cardinality(Ips) <= FanoutMax /\ Counts
      /\ todo = <<>> /\ todo' = <<>>
  BY DEF Whole, Inv, Sound, Proc, AskedInv, Fits, Ctrl, At
<1>1. /\ Head(pipe) = pipe[1] /\ pipe[1] \in Cmd
  BY HeadTailProperties, EmptySeq DEF Whole, Inv, Sound, Proc
<1>2. PICK ip \in Ips : ip = pipe[1].ip /\ Len(todo) = 0 /\ Len(todo') = 0 /\ ip # NoIp
  BY <1>0, <1>1, IpFacts DEF Cmd
<1>3. \/ pipe[1].op = "+" /\ CtrlAdd(ip)
      \/ pipe[1].op = "-" /\ CtrlRemove(ip)
  BY <1>1, <1>2 DEF Ctrl
<1>4. ASSUME pipe[1].op = "+", CtrlAdd(ip)
      PROVE  /\ \A x \in Ips : x # ip => (Served(x)' <=> Served(x))
             /\ Served(ip)' /\ (AllUp => AllUp')
  <2>1. TryAdd(ip) /\ pend' = IF Added(ip) \/ pend[ip] > 0 THEN pend ELSE Queue(ip)
    BY <1>4 DEF CtrlAdd
  <2>2. /\ \A s \in Slots : sock'[s] = sock[s] \/ sock'[s] = ip
        /\ \A s \in Slots : sock[s] # NoIp => sock'[s] = sock[s]
        /\ Added(ip) => \E s \in Slots : sock'[s] = ip
        /\ AllUp => AllUp'
    BY <1>0, <1>2, <2>1, TryAddStep, TryAddElsewhere, TriedFacts
  <2>3. Served(ip)' /\ \A x \in Ips : x # ip => pend'[x] = pend[x]
    <3>1. CASE Added(ip)
      BY <2>1, <2>2, <3>1 DEF Served
    <3>2. CASE ~ Added(ip) /\ pend[ip] > 0
      BY <2>1, <3>2 DEF Served
    <3>3. CASE ~ Added(ip) /\ ~ (pend[ip] > 0)
      <4>1. pend[ip] = 0
        BY <1>0, <1>2, <3>3
      <4>2. pend' = [pend EXCEPT ![ip] = @ + 1]
        BY <1>0, <1>2, <2>1, <3>3, <4>1, RoomToQueue
      <4> QED
        BY <1>0, <1>2, <4>1, <4>2 DEF Served
    <3> QED
      BY <3>1, <3>2, <3>3
  <2>4. ASSUME NEW x \in Ips, x # ip PROVE Served(x)' <=> Served(x)
    <3>1. (\E s \in Slots : sock'[s] = x) <=> \E s \in Slots : sock[s] = x
      BY <2>2, <2>4, IpFacts
    <3> QED
      BY <1>0, <2>3, <2>4, <3>1 DEF Served
  <2> QED
    BY <2>2, <2>3, <2>4
<1>5. ASSUME pipe[1].op = "-", CtrlRemove(ip)
      PROVE  /\ \A x \in Ips : x # ip => (Served(x)' <=> Served(x))
             /\ ~ Served(ip)' /\ (AllUp => AllUp')
  <2>1. Close(SlotsOf(ip)) /\ pend' = DropPending(ip)
    BY <1>5 DEF CtrlRemove
  <2>2. \A s \in Slots : sock'[s] = IF sock[s] = ip THEN NoIp ELSE sock[s]
    BY <1>0, <2>1, CloseStep DEF SlotsOf
  <2>3. pend'[ip] = 0 /\ \A x \in Ips : x # ip => pend'[x] = pend[x]
    <3>1. pend[ip] <= 1 /\ pend[ip] \in Nat
      BY <1>0, <1>2 DEF Single
    <3> QED
      BY <1>0, <1>2, <2>1, <3>1 DEF DropPending, Unqueue
  <2>4. ~ Served(ip)'
    BY <1>2, <2>2, <2>3 DEF Served
  <2>5. ASSUME NEW x \in Ips, x # ip PROVE Served(x)' <=> Served(x)
    <3>1. (\E s \in Slots : sock'[s] = x) <=> \E s \in Slots : sock[s] = x
      BY <2>2, <2>5, IpFacts
    <3> QED
      BY <1>0, <2>3, <2>5, <3>1 DEF Served
  <2>6. AllUp => AllUp'
    BY <2>1, <2>2 DEF AllUp, Close, SlotsOf
  <2> QED
    BY <2>4, <2>5, <2>6
<1> QED
  BY <1>2, <1>3, <1>4, <1>5

LEMMA CtrlRight ==
    ASSUME Whole, Fits, Ctrl, PipeRight, ServedRight
    PROVE  (PipeRight /\ ServedRight)'
<1>1. CASE Len(pipe) <= unwritten
  <2>1. SameServed /\ UNCHANGED <<cur, pipe>>
    BY <1>1 DEF Ctrl, conns, SameServed, Served
  <2> QED
    BY <2>1, SameStep
<1>2. CASE ~ (Len(pipe) <= unwritten)
  <2> DEFINE ip == pipe[1].ip
  <2>9. pipe # <<>>
    BY <1>2, SomethingToRead DEF Whole
  <2>0. cur' = cur /\ pipe' = Tail(pipe)
    BY <1>2 DEF Ctrl
  <2>1. /\ Len(pipe) \in Nat \ {0}
        /\ Len(pipe') = Len(pipe) - 1 /\ \A i \in 1..Len(pipe') : pipe'[i] = pipe[i + 1]
    BY <2>9, <2>0, HeadTailProperties, EmptySeq DEF Whole, Inv, Sound, Proc
  <2>2. \A j \in 1..Len(pipe) : j > 1 => j - 1 \in 1..Len(pipe') /\ pipe'[j - 1] = pipe[j]
    BY <2>1
  <2>3. \A i \in 1..Len(pipe') : i + 1 \in 1..Len(pipe)
    BY <2>1
  <2>4. PipeRight'
    <3> SUFFICES ASSUME NEW i \in 1..Len(pipe'),
                        \A j \in 1..Len(pipe') : j > i => pipe'[j].ip # pipe'[i].ip
                 PROVE  pipe'[i].op = "+" <=> pipe'[i].ip \in cur'
      BY DEF PipeRight, LastOf
    <3>1. i + 1 \in 1..Len(pipe) /\ pipe'[i] = pipe[i + 1]
      BY <2>1, <2>3
    <3>2. ASSUME NEW j \in 1..Len(pipe), j > i + 1 PROVE pipe[j].ip # pipe[i + 1].ip
      <4>1. j - 1 \in 1..Len(pipe') /\ pipe'[j - 1] = pipe[j] /\ j - 1 > i
        BY <2>2, <3>2
      <4> QED
        BY <3>1, <4>1
    <3>3. LastOf(i + 1)
      BY <3>2 DEF LastOf
    <3> QED
      BY <2>0, <3>1, <3>3 DEF PipeRight
  <2>5. ASSUME NEW x \in Ips, ~ Named(x)' PROVE Served(x)' <=> x \in cur'
    <3>1. \A j \in 1..Len(pipe) : j > 1 => pipe[j].ip # x
      BY <2>2, <2>5 DEF Named
    <3>2. CASE x = ip
      <4>1. LastOf(1) /\ 1 \in 1..Len(pipe)
        BY <2>1, <3>1, <3>2 DEF LastOf
      <4>2. pipe[1].op = "+" <=> x \in cur
        BY <3>2, <4>1 DEF PipeRight
      <4>3. Served(x)' <=> pipe[1].op = "+"
        BY <1>2, <2>9, <3>2, CommandRead
      <4> QED
        BY <2>0, <4>2, <4>3
    <3>3. CASE x # ip
      <4>1. ~ Named(x)
        BY <2>1, <3>1, <3>3 DEF Named
      <4>2. Served(x)' <=> Served(x)
        BY <1>2, <2>9, <3>3, CommandRead
      <4> QED
        BY <2>0, <4>1, <4>2 DEF ServedRight
    <3> QED
      BY <3>2, <3>3
  <2> QED
    BY <2>4, <2>5 DEF ServedRight
<1> QED
  BY <1>1, <1>2

-----------------------------------------------------------------------------
(* A fan-out is spawned with exactly the members there are. *)
LEMMA SpawnRight ==
    ASSUME Whole, NEW S \in SUBSET Remotes, NEW D \in SUBSET S, Spawns(S, D),
           cur' = S \cup {Loopback}
    PROVE  (PipeRight /\ ServedRight)'
<1>1. fan = "none" /\ UNCHANGED <<pipe, pend, conns>>
  BY DEF Spawns
<1>2. pipe' = <<>> /\ pend' = NonePending /\ sock' = NoSlots /\ Len(pipe') = 0
  BY <1>1 DEF Whole, Inv, Sound, Proc, conns
<1>3. PICK list \in Listings(S, D) : todo' = <<Loopback>> \o list
  BY DEF Spawns
<1>4. /\ list \in Seq(S) /\ Len(list) \in Nat
      /\ \A x \in S : \E i \in 1..Len(list) : list[i] = x
  <2>1. S \subseteq Ips /\ D \subseteq S
    BY IpFacts
  <2> QED
    BY <2>1, ListingsType
<1>5. /\ Len(todo') = Len(list) + 1 /\ todo'[1] = Loopback
      /\ \A i \in 1..Len(list) : todo'[i + 1] = list[i]
  BY <1>3, <1>4, IpFacts
<1>6. \A i \in 1..Len(todo') : todo'[i] \in cur'
  <2> SUFFICES ASSUME NEW i \in 1..Len(todo'), i # 1 PROVE todo'[i] \in S
    BY <1>5
  <2>1. i - 1 \in 1..Len(list) /\ (i - 1) + 1 = i
    <3>1. Len(list) \in Nat /\ Len(todo') = Len(list) + 1
      BY <1>4, <1>5
    <3> QED
      BY <3>1
  <2>2. todo'[i] = list[i - 1]
    BY <1>5, <2>1
  <2> QED
    BY <1>4, <2>1, <2>2, ElementOfSeq
<1>7. \A x \in cur' : \E i \in 1..Len(todo') : todo'[i] = x
  <2>1. \A i \in 1..Len(list) : i + 1 \in 1..Len(todo')
    BY <1>4, <1>5
  <2>2. 1 \in 1..Len(todo')
    BY <1>4, <1>5
  <2> QED
    BY <1>4, <1>5, <2>1, <2>2
<1>8. \A x \in Ips : Served(x)' <=> \E i \in 1..Len(todo') : todo'[i] = x
  BY <1>2, IpFacts DEF Served, NoSlots, NonePending
<1> QED
  BY <1>2, <1>6, <1>7, <1>8 DEF PipeRight, ServedRight, Named

(* Behind a pipe that was right, the difference makes it right for the new members. *)
LEMMA DiffRight ==
    ASSUME Whole, PipeRight, ServedRight, NEW S \in SUBSET Remotes, NEW D \in SUBSET S,
           WriteDiff(S, D), cur' = S \cup {Loopback}, UNCHANGED <<todo, pend, conns>>
    PROVE  (PipeRight /\ ServedRight)'
<1>0. cur \in SUBSET Ips /\ pipe \in Seq(Cmd)
  BY DEF Whole, Inv, Sound, Proc
<1>1. PICK diff \in Seq(Cmd) :
           /\ pipe' = pipe \o diff /\ unwritten' = Len(diff)
           /\ \A i \in 1..Len(diff) : \/ diff[i].op = "+" /\ diff[i].ip \in Joiners(S)
                                      \/ diff[i].op = "-" /\ diff[i].ip \in Leavers(S)
           /\ \A ip \in Joiners(S) : \E i \in 1..Len(diff) : diff[i].op = "+" /\ diff[i].ip = ip
           /\ \A ip \in Leavers(S) : \E i \in 1..Len(diff) : diff[i].op = "-" /\ diff[i].ip = ip
  BY <1>0, WriteDiffType
<1> DEFINE n == Len(pipe)
           m == Len(diff)
<1>2. n \in Nat /\ m \in Nat
  BY <1>0, LenProperties
<1>3. /\ Len(pipe') = n + m
      /\ \A i \in 1..(n + m) : pipe'[i] = IF i <= n THEN pipe[i] ELSE diff[i - n]
  BY <1>0, <1>1, <1>2, ConcatProperties
<1>4. \A i \in 1..n : i \in 1..Len(pipe') /\ pipe'[i] = pipe[i]
  BY <1>2, <1>3
<1>5. \A i \in 1..m : n + i \in 1..Len(pipe') /\ n + i > n /\ pipe'[n + i] = diff[i]
  <2> SUFFICES ASSUME NEW i \in 1..m
               PROVE  n + i \in 1..Len(pipe') /\ n + i > n /\ pipe'[n + i] = diff[i]
    OBVIOUS
  <2>1. n + i \in 1..(n + m) /\ ~ (n + i <= n) /\ (n + i) - n = i /\ n + i > n
    BY <1>2
  <2> QED
    BY <1>3, <2>1
<1> HIDE DEF n, m
<1>6. ASSUME NEW x, x \notin Joiners(S) \cup Leavers(S) PROVE x \in cur' <=> x \in cur
  BY <1>6 DEF Joiners, Leavers
<1>7. ASSUME NEW x, \A j \in 1..Len(pipe') : j > n => pipe'[j].ip # x
      PROVE  x \notin Joiners(S) \cup Leavers(S)
  <2>1. \A j \in 1..m : diff[j].ip # x
    BY <1>5, <1>7
  <2> QED
    BY <1>1, <2>1 DEF m
<1>8. PipeRight'
  <2> SUFFICES ASSUME NEW i \in 1..Len(pipe'),
                      \A j \in 1..Len(pipe') : j > i => pipe'[j].ip # pipe'[i].ip
               PROVE  pipe'[i].op = "+" <=> pipe'[i].ip \in cur'
    BY DEF PipeRight, LastOf
  <2>1. CASE i <= n
    <3>1. i \in 1..n /\ pipe'[i] = pipe[i] /\ \A j \in 1..Len(pipe') : j > n => j > i
      BY <1>2, <1>3, <1>4, <2>1
    <3>2. LastOf(i)
      BY <1>4, <3>1 DEF LastOf, n
    <3>3. pipe[i].op = "+" <=> pipe[i].ip \in cur
      BY <3>1, <3>2 DEF PipeRight, n
    <3>4. pipe[i].ip \notin Joiners(S) \cup Leavers(S)
      <4>1. \A j \in 1..Len(pipe') : j > n => pipe'[j].ip # pipe[i].ip
        BY <3>1
      <4> QED
        BY <1>7, <4>1
    <3> QED
      BY <1>6, <3>1, <3>3, <3>4
  <2>2. CASE ~ (i <= n)
    <3>1. i - n \in 1..m /\ pipe'[i] = diff[i - n]
      BY <1>2, <1>3, <2>2
    <3>2. \/ diff[i - n].op = "+" /\ diff[i - n].ip \in Joiners(S)
          \/ diff[i - n].op = "-" /\ diff[i - n].ip \in Leavers(S)
      BY <1>1, <3>1 DEF m
    <3> QED
      BY <3>1, <3>2 DEF Joiners, Leavers
  <2> QED
    BY <2>1, <2>2
<1>9. ASSUME NEW x \in Ips, ~ Named(x)' PROVE Served(x)' <=> x \in cur'
  <2>1. ~ Named(x)
    BY <1>4, <1>9 DEF Named, n
  <2>2. x \in cur' <=> x \in cur
    BY <1>6, <1>7, <1>9 DEF Named
  <2>3. Served(x)' <=> Served(x)
    BY DEF Served, conns
  <2> QED
    BY <2>1, <2>2, <2>3 DEF ServedRight
<1> QED
  BY <1>8, <1>9 DEF ServedRight

-----------------------------------------------------------------------------
(* The count of the pending members. *)
LEMMA CountsStep ==
    ASSUME Inv, Inv', ~ DupMembers, Counts, PendMoves
    PROVE  Counts'
<1>1. /\ pend \in [Ips -> Nat] /\ pend' \in [Ips -> Nat]
      /\ \A x \in Ips : pend[x] <= 1 /\ pend'[x] <= 1
  BY DEF Inv, Sound, Proc, AskedInv, Single
<1>2. IsFiniteSet(Pending) /\ Cardinality(Pending) \in Nat
  <2>1. Pending \in SUBSET Ips
    BY DEF Pending
  <2> QED
    BY <2>1, IpsFinite, FS_Subset, FS_CardinalityType
<1>3. PICK ip \in Ips : \/ pend' \in {pend, NonePending, Queue(ip)}
                        \/ pend[ip] > 0 /\ pend' = Unqueue(ip)
  BY DEF PendMoves
<1>4. CASE pend' = pend
  BY <1>4 DEF Counts, Pending
<1>5. CASE pend' = NonePending
  <2>1. Pending' = {}
    BY <1>5 DEF Pending, NonePending
  <2>2. NPend(pend') = 0
    BY <1>5, NPendOfNone
  <2> QED
    BY <2>1, <2>2, FS_EmptySet DEF Counts
<1>6. CASE pend' = Queue(ip) /\ pend' # pend
  <2>1. pend' = [pend EXCEPT ![ip] = @ + 1]
    BY <1>6 DEF Queue
  <2>2. Differ(pend, pend', ip, 1, Ips) /\ 1 \in Int
    BY <1>1, <2>1 DEF Differ
  <2>3. NPend(pend') = NPend(pend) + 1
    BY <1>1, <2>2, NPendDiffers
  <2>4. pend[ip] \in Nat /\ pend'[ip] = pend[ip] + 1 /\ pend'[ip] <= 1
    BY <1>1, <2>1
  <2>5. pend[ip] = 0 /\ pend'[ip] = 1
    BY <2>4
  <2>6. ip \notin Pending /\ Pending' = Pending \cup {ip}
    BY <1>1, <2>1, <2>5 DEF Pending
  <2>7. Cardinality(Pending') = Cardinality(Pending) + 1
    BY <1>2, <2>6, FS_AddElement
  <2> QED
    BY <2>3, <2>7 DEF Counts
<1>7. CASE pend[ip] > 0 /\ pend' = Unqueue(ip)
  <2>1. pend' = [pend EXCEPT ![ip] = @ - 1] /\ pend[ip] > 0
    BY <1>7 DEF Unqueue
  <2>2. Differ(pend, pend', ip, -1, Ips) /\ -1 \in Int
    BY <1>1, <2>1 DEF Differ
  <2>3. NPend(pend') = NPend(pend) + (-1)
    BY <1>1, <2>2, NPendDiffers
  <2>4. pend[ip] = 1 /\ pend'[ip] = 0
    BY <1>1, <2>1
  <2>5. ip \in Pending /\ Pending' = Pending \ {ip}
    BY <1>1, <2>1, <2>4 DEF Pending
  <2>6. Cardinality(Pending') = Cardinality(Pending) - 1
    BY <1>2, <2>5, FS_RemoveElement
  <2> QED
    BY <1>2, <2>3, <2>6 DEF Counts
<1> QED
  BY <1>3, <1>4, <1>5, <1>6, <1>7

(* What has failed stays failed. *)
LEMMA FailuresGrow ==
    ASSUME Counted, [Next]_vars PROVE failures' >= failures
<1>0. failures \in Nat
  BY DEF Counted
<1>1. CASE Send
  <2>1. PICK lag \in SUBSET Slots :
            failures' = failures + Cardinality({t \in lag : skips[t] = MaxSkips})
    BY <1>1 DEF Send
  <2> DEFINE stuck == {t \in lag : skips[t] = MaxSkips}
  <2>2. stuck \subseteq Slots
    OBVIOUS
  <2>3. failures' = failures + Cardinality(stuck)
    BY <2>1
  <2> HIDE DEF stuck
  <2>4. Cardinality(stuck) \in Nat
    BY <2>2, IpsFinite, FS_Subset, FS_CardinalityType
  <2> QED
    BY <1>0, <2>3, <2>4
<1>2. CASE ~ Send
  <2>1. failures' = failures \/ failures' = failures + 1
    BY <1>2 DEF Next, vars, env, Source, Write, StopSourcing, Reap, NodeDies, FanoutStep, Start, Ctrl,
                Pace, Reopen, PcmFails, Retry, GiveUp, PlayerExits, Respawn
  <2> QED
    BY <1>0, <2>1
<1> QED
  BY <1>1, <1>2

LEMMA EndsRight ==
    ASSUME Whole, NEW state \in {"none", "exited"}, Ends(state)
    PROVE  AllUp' /\ fan' # "run"
BY DEF Ends, Close, AllUp

LEMMA SmoothStep ==
    ASSUME Whole, Fits, Smooth, [Next]_vars PROVE Smooth'
<1> SUFFICES ASSUME failures' = 0
             PROVE  AllUp' /\ (fan' = "run" => (PipeRight /\ ServedRight)')
  BY DEF Smooth
<1>0. failures = 0 /\ AllUp /\ (fan = "run" => PipeRight /\ ServedRight) /\ failures \in Nat
  BY FailuresGrow DEF Smooth, Whole, Counted
<1>1. ASSUME SameServed, AllUp', UNCHANGED <<cur, pipe>>, fan = "run"
      PROVE  AllUp' /\ (PipeRight /\ ServedRight)'
  BY <1>0, <1>1, SameStep
<1>2. CASE Source
  <2>1. PICK S \in SUBSET Remotes : \E D \in SUBSET S : Sources(S, D)
    BY <1>2 DEF Source
  <2>2. PICK D \in SUBSET S : Sources(S, D)
    BY <2>1
  <2>3. cur' = S \cup {Loopback}
    BY <2>2 DEF Sources
  <2>4. AllUp'
    BY <1>0, <2>2 DEF Sources, Spawns, AllUp, conns
  <2>5. CASE Spawns(S, D)
    BY <2>3, <2>4, <2>5, SpawnRight
  <2>6. CASE fan = "run" /\ WriteDiff(S, D) /\ UNCHANGED <<fan, pc, todo, pend, conns>>
    BY <1>0, <2>3, <2>4, <2>6, DiffRight
  <2>7. CASE fan = "exited" /\ UNCHANGED <<fanvars, conns>>
    BY <2>4, <2>7 DEF fanvars
  <2> QED
    BY <2>2, <2>5, <2>6, <2>7 DEF Sources
<1>3. CASE StopSourcing \/ PcmFails
  BY <1>3, EndsRight DEF StopSourcing, PcmFails
<1>4. CASE Reap
  BY <1>0, <1>4 DEF Reap, AllUp, conns
<1>5. CASE NodeDies \/ Write \/ Reopen \/ UNCHANGED vars
  <2>1. UNCHANGED <<cur, pipe, fan, sock, up, pend, todo>>
    BY <1>5 DEF NodeDies, Write, Reopen, vars, fanvars, conns
  <2>2. SameServed /\ AllUp'
    BY <1>0, <2>1 DEF SameServed, Served, AllUp
  <2> QED
    BY <1>1, <2>1, <2>2
<1>6. CASE Start
  BY <1>0, <1>1, <1>6, StartSame DEF Start, At
<1>7. CASE Ctrl
  <2>1. AllUp'
    <3>1. CASE Len(pipe) <= unwritten
      BY <1>0, <1>7, <3>1 DEF Ctrl, conns, AllUp
    <3>2. CASE ~ (Len(pipe) <= unwritten)
      <4>1. pipe # <<>>
        BY <3>2, SomethingToRead DEF Whole
      <4> QED
        BY <1>0, <1>7, <3>2, <4>1, CommandRead
    <3> QED
      BY <3>1, <3>2
  <2> QED
    BY <1>0, <1>7, <2>1, CtrlRight DEF Ctrl, At
<1>8. CASE Pace
  BY <1>0, <1>1, <1>8, PaceSame DEF Pace, At
<1>9. CASE Send
  <2>1. CASE Ends("exited")
    BY <2>1, EndsRight
  <2>2. CASE SameServed /\ AllUp' /\ UNCHANGED <<cur, pipe>>
    BY <1>1, <1>9, <2>2 DEF Send, At
  <2> QED
    BY <1>0, <1>9, <2>1, <2>2, SendSame
<1>10. ASSUME NEW ip \in Ips, Retry(ip) PROVE AllUp' /\ (PipeRight /\ ServedRight)'
  BY <1>0, <1>1, <1>10, RetrySame DEF Retry, At
<1>11. ASSUME NEW ip \in Ips, GiveUp(ip) \/ PlayerExits(ip) PROVE FALSE
  BY <1>0, <1>11 DEF GiveUp, PlayerExits
<1>12. ASSUME NEW ip \in Ips, Respawn(ip)
       PROVE  AllUp' /\ (fan' = "run" => (PipeRight /\ ServedRight)')
  <2>1. UNCHANGED <<cur, pipe, fan, sock, up, pend, todo>>
    BY <1>12 DEF Respawn, fanvars
  <2>2. SameServed /\ AllUp'
    BY <1>0, <2>1 DEF SameServed, Served, AllUp
  <2> QED
    BY <1>1, <2>1, <2>2
<1> QED
  BY <1>2, <1>3, <1>4, <1>5, <1>6, <1>7, <1>8, <1>9, <1>10, <1>11, <1>12 DEF Next, FanoutStep

LEMMA InitSmooth == Init => Counts /\ Smooth
<1> SUFFICES ASSUME Init PROVE Counts /\ Smooth
  OBVIOUS
<1>1. pend = NonePending /\ sock = NoSlots /\ fan = "none"
  BY DEF Init
<1>2. Pending = {}
  BY <1>1 DEF Pending, NonePending
<1> QED
  BY <1>1, <1>2, NPendOfNone, FS_EmptySet DEF Counts, Smooth, AllUp, NoSlots

(* A member that is named is named last somewhere. *)
LEMMA NamedLast ==
    ASSUME pipe \in Seq(Cmd), NEW x, Named(x)
    PROVE  \E i \in 1..Len(pipe) : pipe[i].ip = x /\ LastOf(i)
<1> DEFINE n == Len(pipe)
           Left == {k \in Nat : k < n /\ pipe[n - k].ip = x}
           B == OpToRel(<, Nat)
<1>0. n \in Nat
  BY LenProperties
<1>1. Left \subseteq Nat /\ Left # {}
  <2>1. PICK i \in 1..n : pipe[i].ip = x
    BY DEF Named
  <2>2. n - i \in Nat /\ n - i < n /\ n - (n - i) = i
    BY <1>0
  <2>3. n - i \in Left
    BY <2>1, <2>2
  <2> QED
    BY <2>3
<1>2. IsWellFoundedOn(B, Nat)
  BY NatLessThanWellFounded
<1>3. \A a, b \in Nat : a < b => <<a, b>> \in B
  BY DEF OpToRel
<1> HIDE DEF B
<1>4. PICK k \in Left : \A j \in Left : ~ (<<j, k>> \in B)
  BY <1>1, <1>2, WFMin
<1>5. k \in Nat /\ n - k \in 1..n /\ pipe[n - k].ip = x
  BY <1>0, <1>4
<1>6. ASSUME NEW j \in 1..n, j > n - k, pipe[j].ip = x PROVE FALSE
  <2>1. n - j \in Nat /\ n - j < n /\ n - (n - j) = j /\ n - j < k
    BY <1>0, <1>5, <1>6
  <2>2. n - j \in Left
    BY <1>6, <2>1
  <2> QED
    BY <1>3, <1>4, <1>5, <2>1, <2>2
<1> QED
  BY <1>5, <1>6 DEF LastOf

(* The members of the fan-out are those of the node. *)
Exact == fan = "run" /\ failures = 0 /\ pipe = <<>> => Live \cup Pending \cup Range(todo) = cur

LEMMA ServedFacts ==
    ASSUME Inv, NEW x \in Ips
    PROVE  Served(x) <=> x \in Live \cup Pending \cup Range(todo)
<1>1. DOMAIN todo = 1..Len(todo)
  BY LenProperties DEF Inv, Sound, Proc
<1>2. (\E s \in Slots : sock[s] = x) <=> x \in Live
  BY IpFacts DEF Live
<1>3. pend[x] > 0 <=> x \in Pending
  BY DEF Pending
<1>4. (\E i \in 1..Len(todo) : todo[i] = x) <=> x \in Range(todo)
  BY <1>1 DEF Range
<1> QED
  BY <1>2, <1>3, <1>4 DEF Served

LEMMA SmoothGives ==
    ASSUME Whole, Smooth
    PROVE  Exact /\ (failures = 0 => NobodyForgotten)
<1> USE DEF Whole
<1>1. Exact
  <2> SUFFICES ASSUME fan = "run", failures = 0, pipe = <<>>
               PROVE  Live \cup Pending \cup Range(todo) = cur
    BY DEF Exact
  <2>1. \A x \in Ips : Served(x) <=> x \in cur
    BY DEF Smooth, ServedRight, Named
  <2>2. cur \subseteq Ips /\ Live \subseteq Ips /\ Pending \subseteq Ips /\ Range(todo) \subseteq Ips
    <3>1. Range(todo) \subseteq Ips
      <4>1. todo \in Seq(Ips) /\ DOMAIN todo = 1..Len(todo)
        BY LenProperties DEF Inv, Sound, Proc
      <4> QED
        BY <4>1, ElementOfSeq DEF Range
    <3> QED
      BY <3>1 DEF Inv, Sound, Proc, Conn, Live, Pending
  <2> QED
    BY <2>1, <2>2, ServedFacts
<1>2. ASSUME failures = 0 PROVE NobodyForgotten
  <2> SUFFICES ASSUME fan = "run", NEW x \in cur
               PROVE  x \in Live \cup Pending \cup Range(todo) \cup Unread("+")
    BY DEF NobodyForgotten, At
  <2>1. x \in Ips /\ pipe \in Seq(Cmd) /\ DOMAIN pipe = 1..Len(pipe)
    BY LenProperties DEF Inv, Sound, Proc
  <2>2. CASE Named(x)
    <3>1. PICK i \in 1..Len(pipe) : pipe[i].ip = x /\ LastOf(i)
      BY <2>1, <2>2, NamedLast
    <3>2. pipe[i].op = "+"
      BY <1>2, <3>1 DEF Smooth, PipeRight
    <3> QED
      BY <2>1, <3>1, <3>2 DEF Unread
  <2>3. CASE ~ Named(x)
    BY <1>2, <2>1, <2>3, ServedFacts DEF Smooth, ServedRight
  <2> QED
    BY <2>2, <2>3
<1> QED
  BY <1>1, <1>2

LEMMA WholeStep ==
    ASSUME Whole, Fits, [Next]_vars PROVE Whole'
<1>1. Inv' /\ Counted' /\ PendMoves
  BY NextInv, CountedStep, StepPends DEF Whole
<1> QED
  BY <1>1, CountsStep DEF Whole, Fits

(* As long as no player failed and every member has a slot and is listed once: when
   the fan-out has read what the node wrote, those it serves, tries again or has yet
   to try are exactly the members of the node, however often they changed. *)
THEOREM ExactTheorem == Fits => (Spec => []Exact)
<1> SUFFICES ASSUME Fits PROVE Spec => []Exact
  OBVIOUS
<1>1. Init => Whole /\ Smooth
  BY InitInv, InitSmooth DEF Whole, Init, Counted
<1>2. Whole /\ Smooth /\ [Next]_vars => (Whole /\ Smooth)'
  BY WholeStep, SmoothStep
<1>3. Whole /\ Smooth => Exact
  BY SmoothGives
<1> QED
  BY <1>1, <1>2, <1>3, PTL DEF Spec

(* And then nobody is forgotten: it takes a player that failed. *)
THEOREM KeptTheorem == Fits => (Spec => [](failures = 0 => NobodyForgotten))
<1> SUFFICES ASSUME Fits PROVE Spec => [](failures = 0 => NobodyForgotten)
  OBVIOUS
<1>1. Init => Whole /\ Smooth
  BY InitInv, InitSmooth DEF Whole, Init, Counted
<1>2. Whole /\ Smooth /\ [Next]_vars => (Whole /\ Smooth)'
  BY WholeStep, SmoothStep
<1>3. Whole /\ Smooth => (failures = 0 => NobodyForgotten)
  BY SmoothGives
<1> QED
  BY <1>1, <1>2, <1>3, PTL DEF Spec
=============================================================================
