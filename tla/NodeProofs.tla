----------------------------- MODULE NodeProofs -----------------------------
(***************************************************************************)
(* Proofs about the node daemon, for any number of nodes, slots and        *)
(* commands and any loss of gossip: what the peer table keeps of a peer is *)
(* no newer than what the peer said, and what it keeps live is the last    *)
(* thing the peer said; the configuration made of it is one of distinct    *)
(* devices, for which GroupingProofs tells what role the consensus gives;  *)
(* and daemons whose tables hold what all nodes say of themselves agree.   *)
(***************************************************************************)
EXTENDS MCNode, GroupingProofs

Levels == {Signal[n] : n \in Nodes}

(* A voluntary source sources the group of its own name, and listens to it. *)
Claims == {d \in [id : Nodes, source : Nodes \cup {NONE}, sink : Groups, signal : Levels,
                  time : {0, 1}] : d.source \in {d.sink, NONE} /\ d.source \in {d.id, NONE}}
Known == [id : Nodes \cup {NONE}, source : Nodes \cup {NONE}, sink : Groups,
          signal : Levels, time : {0, 1}]
Entry == [used : BOOLEAN, dev : Known, age : 0..Grace]
Table == [1..Slots -> Entry]
Hearsay == {t \in [Nodes -> [Groups \cup {NONE} -> Nat]] :
               \A p \in Nodes : t[p][NONE] \in Groups \cup {NONE}}

(* What holds of o's table T, given what o was told (t). *)
Owned(T, o) ==
    \A k \in 1..Slots : T[k].used => T[k].dev.id # NONE /\ T[k].dev.id # o
Single(T) ==
    \A k, m \in 1..Slots :
        T[k].used /\ T[m].used /\ T[k].dev.id = T[m].dev.id => k = m
Outlived(T) == \A k \in 1..Slots : ~ T[k].used => T[k].age > TTL

(* The lowest free slot is taken, so that no more are ever used than there are
   other nodes. *)
Lowest(T) ==
    IsFiniteSet(Nodes) =>
        \A k \in 1..Slots : T[k].dev.id # NONE => k < Cardinality(Nodes)

(* An entry is as old as what its peer said, or older; a live one is the last
   word, and so is whatever is no older than that. *)
Told(T, t) ==
    \A k \in 1..Slots : \A p \in Nodes : T[k].dev.id = p =>
        t[p][T[k].dev.sink] <= T[k].age
LastWord(T, t) ==
    \A k \in 1..Slots : \A p \in Nodes : T[k].dev.id = p /\ T[k].used =>
        t[p][NONE] = T[k].dev.sink
NothingNewer(T, t) ==
    \A k \in 1..Slots : \A p \in Nodes : \A g \in Groups :
        T[k].dev.id = p /\ t[p][NONE] = g =>
            /\ T[k].age >= t[p][g]
            /\ T[k].age < Grace /\ T[k].age = t[p][g] => T[k].dev.sink = g

TableInv(T, t, o) ==
    /\ Owned(T, o) /\ Single(T) /\ Lowest(T) /\ Outlived(T)
    /\ Told(T, t) /\ LastWord(T, t) /\ NothingNewer(T, t)

Types ==
    /\ claim \in [Nodes -> Claims] /\ \A n \in Nodes : claim[n].id = n
    /\ peers \in [Observers -> Table]
    /\ told \in [Observers -> Hearsay]
    /\ role \in [Observers -> Groups \cup {NONE}] /\ cur \in [Observers -> SUBSET Nodes]
    /\ due \in [Observers -> BOOLEAN] /\ fresh \in [Observers -> BOOLEAN]

(* Until something overtakes a consensus, the role is the one its table gives and
   the members are those of its table; the group is the one the node's own room
   listens to. *)
Asked ==
    \A o \in Observers : fresh[o] =>
        /\ \A k \in 1..Slots : peers[o][k].used => peers[o][k].age <= TTL
        /\ role[o] = AssignGroups(Config(claim[o], peers[o]))[1].source
        /\ role[o] # NONE => /\ cur[o] = Members(o, peers[o], role[o])
                             /\ claim[o].sink = role[o]

NodeInv == Types /\ (\A o \in Observers : TableInv(peers[o], told[o], o)) /\ Asked

-----------------------------------------------------------------------------
LEMMA LeastOf ==
    ASSUME NEW S, S \subseteq Nat, S # {}
    PROVE  /\ Least(S) \in S
           /\ \A m \in S : Least(S) <= m
<1> DEFINE R == {ss \in Nat \X Nat : ss[1] < ss[2]}
<1>1. IsWellFoundedOn(R, Nat)
  BY NatLessThanWellFounded DEF OpToRel
<1>2. \A x, y \in Nat : x < y => <<x, y>> \in R
  OBVIOUS
<1> HIDE DEF R
<1>3. PICK k \in S : \A m \in S : ~ (<<m, k>> \in R)
  BY <1>1, WFMin
<1>4. \A m \in S : k <= m
  <2> TAKE m \in S
  <2>1. m \in Nat /\ k \in Nat /\ ~ (m < k)
    BY <1>2, <1>3
  <2> QED
    BY <2>1
<1> QED
  BY <1>4 DEF Least

LEMMA Names == /\ Groups \subseteq Nat \ {0} /\ Nodes \subseteq Groups /\ NONE = 0
               /\ Observers \subseteq Nodes /\ Claims \subseteq Known
               /\ TTL \in Nat /\ Grace \in Nat /\ TTL < Grace /\ Slots \in Nat
<1>1. /\ Groups \subseteq Nat \ {0} /\ Nodes \subseteq Groups /\ NONE = 0
      /\ Observers \subseteq Nodes
      /\ TTL \in Nat /\ Grace \in Nat /\ TTL < Grace /\ Slots \in Nat
  BY NodeAssumption DEF NodeAssumption, Groups, NONE
<1>2. Claims \subseteq Known
  BY DEF Claims, Known
<1> QED
  BY <1>1, <1>2

LEMMA SlotTypes ==
    ASSUME NEW T \in Table, NEW k \in 1..Slots
    PROVE  /\ T[k] \in Entry /\ T[k].used \in BOOLEAN /\ T[k].dev \in Known
           /\ T[k].age \in 0..Grace /\ T[k].age \in Nat
           /\ T[k].dev.id \in Nodes \cup {NONE} /\ T[k].dev.sink \in Groups
           /\ T[k].dev.source \in Nodes \cup {NONE}
<1>1. T[k] \in Entry
  BY DEF Table
<1>2. T[k].used \in BOOLEAN /\ T[k].dev \in Known /\ T[k].age \in 0..Grace
  BY <1>1 DEF Entry
<1> QED
  BY <1>1, <1>2, Names DEF Known

(* What o has been told once d names its group. *)
Hearing(t, d) == [t EXCEPT ![d.id][d.sink] = 0, ![d.id][NONE] = d.sink]

LEMMA HearingOf ==
    ASSUME NEW t \in Hearsay, NEW d \in Claims
    PROVE  /\ Hearing(t, d) \in Hearsay
           /\ Hearing(t, d)[d.id][NONE] = d.sink /\ Hearing(t, d)[d.id][d.sink] = 0
           /\ \A p \in Nodes \ {d.id} : Hearing(t, d)[p] = t[p]
           /\ \A p \in Nodes : \A g \in Groups : Hearing(t, d)[p][g] <= t[p][g]
<1> DEFINE u == Hearing(t, d)
<1>1. /\ d.id \in Nodes /\ d.sink \in Groups /\ d.sink # NONE
      /\ d.sink \in Groups \cup {NONE} /\ NONE \in Groups \cup {NONE}
      /\ d.sink \in Nat /\ NONE = 0
  BY Names DEF Claims
<1>2. t \in [Nodes -> [Groups \cup {NONE} -> Nat]]
  BY DEF Hearsay
<1>3. t[d.id] \in [Groups \cup {NONE} -> Nat]
  BY <1>1, <1>2
<1> DEFINE v == [t[d.id] EXCEPT ![d.sink] = 0, ![NONE] = d.sink]
<1>4. /\ v \in [Groups \cup {NONE} -> Nat] /\ v[NONE] = d.sink /\ v[d.sink] = 0
      /\ \A g \in Groups : v[g] <= t[d.id][g]
  <2>1. v \in [Groups \cup {NONE} -> Nat]
    BY <1>1, <1>3
  <2>2. v[NONE] = d.sink /\ v[d.sink] = 0
    BY <1>1, <1>3
  <2>3. ASSUME NEW g \in Groups PROVE v[g] <= t[d.id][g]
    <3>1. g # NONE /\ t[d.id][g] \in Nat
      BY <1>3, Names
    <3>2. v[g] = IF g = d.sink THEN 0 ELSE t[d.id][g]
      BY <1>1, <1>3, <3>1
    <3> QED
      BY <3>1, <3>2
  <2> QED
    BY <2>1, <2>2, <2>3
<1> HIDE DEF v
<1>5. u = [t EXCEPT ![d.id] = v]
  BY <1>1, <1>2, <1>3 DEF v, Hearing
<1> HIDE DEF u
<1>6. u[d.id] = v /\ \A p \in Nodes \ {d.id} : u[p] = t[p]
  BY <1>1, <1>2, <1>5
<1>7. u \in [Nodes -> [Groups \cup {NONE} -> Nat]]
  BY <1>1, <1>2, <1>4, <1>5
<1>8. ASSUME NEW p \in Nodes PROVE u[p][NONE] \in Groups \cup {NONE}
  BY <1>1, <1>4, <1>6 DEF Hearsay
<1>9. ASSUME NEW p \in Nodes, NEW g \in Groups PROVE u[p][g] <= t[p][g]
  <2>1. CASE p = d.id
    BY <1>4, <1>6, <2>1
  <2>2. CASE p # d.id
    <3>1. u[p] = t[p]
      BY <1>6, <2>2
    <3>2. t[p][g] \in Nat
      BY <1>2
    <3> QED
      BY <3>1, <3>2
  <2> QED
    BY <2>1, <2>2
<1> QED
  BY <1>1, <1>4, <1>6, <1>7, <1>8, <1>9 DEF Hearsay, u

(* Gossip changes one slot at most, and leaves no other live entry of its
   sender. *)
LEMMA RegisterSlot ==
    ASSUME NEW T \in Table, Single(T), NEW d \in Claims
    PROVE  \E j \in Nat :
               /\ \A k \in 1..Slots :
                      /\ Register(T, d)[k] = IF k = j THEN Heard(T[k], d) ELSE T[k]
                      /\ k # j => ~ (T[k].used /\ T[k].dev.id = d.id)
               /\ j \in 1..Slots /\ T[j].dev.id # d.id => \A m \in 1..j-1 : T[m].used
<1> DEFINE known  == {k \in 1..Slots : T[k].used /\ T[k].dev.id = d.id}
           unused == {k \in 1..Slots : ~ T[k].used}
<1>1. known \subseteq Nat /\ unused \subseteq Nat
  BY Names
<1>2. T = [k \in 1..Slots |-> T[k]]
  BY DEF Table
<1>3. CASE known # {}
  <2>1. Least(known) \in known /\ Least(known) \in Nat
    BY <1>1, <1>3, LeastOf
  <2>2. Register(T, d) = [T EXCEPT ![Least(known)] = Heard(@, d)]
    BY <1>3 DEF Register
  <2>3. \A k \in 1..Slots : k # Least(known) => ~ (T[k].used /\ T[k].dev.id = d.id)
    BY <2>1 DEF Single
  <2>4. T[Least(known)].dev.id = d.id
    BY <2>1
  <2> HIDE DEF known
  <2> QED
    BY <1>2, <2>1, <2>2, <2>3, <2>4
<1>4. CASE known = {} /\ unused # {}
  <2>1. Least(unused) \in unused /\ Least(unused) \in Nat
    BY <1>1, <1>4, LeastOf
  <2>2. Register(T, d) = [T EXCEPT ![Least(unused)] = Heard(@, d)]
    BY <1>4 DEF Register
  <2>3. \A k \in 1..Slots : ~ (T[k].used /\ T[k].dev.id = d.id)
    BY <1>4
  <2>4. \A m \in 1..Least(unused)-1 : T[m].used
    <3> SUFFICES ASSUME NEW m \in 1..Least(unused)-1, ~ T[m].used PROVE FALSE
      OBVIOUS
    <3>1. m \in unused /\ m \in Nat /\ m < Least(unused)
      BY <2>1, Names
    <3>2. Least(unused) <= m
      <4> HIDE DEF unused
      <4> QED
        BY <1>1, <1>4, <3>1, LeastOf
    <3> QED
      BY <2>1, <3>1, <3>2
  <2> HIDE DEF unused
  <2> QED
    BY <1>2, <2>1, <2>2, <2>3, <2>4
<1>5. CASE known = {} /\ unused = {}
  <2>1. Register(T, d) = T
    BY <1>5 DEF Register
  <2>2. \A k \in 1..Slots : k # 0 /\ ~ (T[k].used /\ T[k].dev.id = d.id)
    BY <1>5
  <2> QED
    BY <2>1, <2>2
<1> QED
  BY <1>3, <1>4, <1>5

(* Live entries are of different nodes, neither the table's owner nor d: those
   below the lowest free slot are too few to fill more. *)
LEMMA LowSlot ==
    ASSUME IsFiniteSet(Nodes), NEW o \in Observers, NEW T \in Table, Owned(T, o), Single(T),
           NEW d \in Claims, d.id # o, NEW j \in 1..Slots,
           \A m \in 1..j-1 : T[m].used /\ T[m].dev.id # d.id
    PROVE  j < Cardinality(Nodes)
<1> DEFINE others == Nodes \ {o}
           S == others \ {d.id}
           f == [m \in 1..j-1 |-> T[m].dev.id]
<1>1. o \in Nodes /\ d.id \in Nodes /\ j \in Nat /\ j - 1 \in Nat /\ 1..j-1 \subseteq 1..Slots
  BY Names DEF Claims
<1>2. IsFiniteSet(others) /\ Cardinality(others) = Cardinality(Nodes) - 1
  BY <1>1, FS_RemoveElement
<1>3. IsFiniteSet(S) /\ Cardinality(S) = Cardinality(Nodes) - 1 - 1
  <2>1. d.id \in others
    BY <1>1
  <2> HIDE DEF others
  <2> QED
    BY <1>2, <2>1, FS_RemoveElement
<1>4. Cardinality(Nodes) \in Nat
  BY FS_CardinalityType
<1>5. IsFiniteSet(1..j-1) /\ Cardinality(1..j-1) = j - 1
  BY <1>1, FS_Interval
<1>6. f \in [1..j-1 -> S]
  <2> SUFFICES ASSUME NEW m \in 1..j-1 PROVE T[m].dev.id \in S
    OBVIOUS
  <2>1. m \in 1..Slots /\ T[m].used /\ T[m].dev.id # d.id
    BY <1>1
  <2>2. T[m].dev.id \in Nodes /\ T[m].dev.id # o
    BY <2>1, SlotTypes DEF Owned
  <2> QED
    BY <2>1, <2>2
<1>7. \A x, y \in 1..j-1 : f[x] = f[y] => x = y
  BY <1>1 DEF Single
<1> HIDE DEF S, f
<1>8. ~ (Cardinality(S) < Cardinality(1..j-1))
  BY <1>3, <1>5, <1>6, <1>7, FS_PigeonHole
<1> QED
  BY <1>1, <1>3, <1>4, <1>5, <1>8

LEMMA RegisterInv ==
    ASSUME NEW o \in Observers, NEW T \in Table, NEW t \in Hearsay, TableInv(T, t, o),
           NEW d \in Claims, d.id # o
    PROVE  Register(T, d) \in Table /\ TableInv(Register(T, d), Hearing(t, d), o)
<1> DEFINE R == Register(T, d)
           u == Hearing(t, d)
<1>0. PICK j \in Nat :
          /\ \A k \in 1..Slots : /\ R[k] = IF k = j THEN Heard(T[k], d) ELSE T[k]
                                 /\ k # j => ~ (T[k].used /\ T[k].dev.id = d.id)
          /\ j \in 1..Slots /\ T[j].dev.id # d.id => \A m \in 1..j-1 : T[m].used
  BY RegisterSlot DEF TableInv
<1> HIDE DEF R
<1>1. \A k \in 1..Slots : /\ R[k] = IF k = j THEN Heard(T[k], d) ELSE T[k]
                          /\ k # j => ~ (T[k].used /\ T[k].dev.id = d.id)
  BY <1>0
<1>2. /\ u \in Hearsay
      /\ u[d.id][NONE] = d.sink /\ u[d.id][d.sink] = 0
      /\ \A p \in Nodes \ {d.id} : u[p] = t[p]
      /\ \A p \in Nodes : \A g \in Groups : u[p][g] <= t[p][g]
  BY HearingOf
<1>3. d.id \in Nodes /\ d.id # NONE /\ d.sink \in Groups /\ d \in Known
  BY Names DEF Claims
<1>4. \A k \in 1..Slots : k = j => (R[j].used = TRUE /\ R[j].dev = d /\ R[j].age = 0)
  BY <1>1 DEF Heard
<1>5. \A k \in 1..Slots : k # j => R[k] = T[k]
  BY <1>1
<1>6. R \in Table
  <2>1. \A k \in 1..Slots : T[k] \in Entry /\ Heard(T[k], d) \in Entry
    BY <1>3, Names DEF Table, Entry, Heard
  <2>2. \A k \in 1..Slots : R[k] \in Entry
    BY <1>1, <2>1
  <2>3. R = [k \in 1..Slots |-> R[k]]
    BY DEF R, Register, Table
  <2> QED
    BY <2>2, <2>3 DEF Table
<1>7. \A k \in 1..Slots : /\ T[k].age \in Nat
                          /\ T[k].dev.sink \in Groups
  <2> TAKE k \in 1..Slots
  <2>1. T[k] \in Entry
    BY DEF Table
  <2> QED
    BY <2>1, Names DEF Entry, Known
<1> HIDE DEF u
<1>8. Owned(R, o)
  BY <1>3, <1>4, <1>5 DEF Owned, TableInv
<1>9. Single(R)
  BY <1>1, <1>4, <1>5 DEF Single, TableInv
<1>10. Outlived(R)
  BY <1>4, <1>5 DEF Outlived, TableInv
<1>11. Told(R, u)
  <2> SUFFICES ASSUME NEW k \in 1..Slots, NEW p \in Nodes, R[k].dev.id = p
               PROVE  u[p][R[k].dev.sink] <= R[k].age
    BY DEF Told
  <2>1. CASE k = j
    <3>1. R[k].dev = d /\ R[k].age = 0 /\ d.id = p
      BY <1>4, <2>1
    <3> QED
      BY <1>2, <3>1
  <2>2. CASE k # j
    <3>1. t[p][T[k].dev.sink] <= T[k].age /\ u[p][T[k].dev.sink] <= t[p][T[k].dev.sink]
      BY <1>2, <1>5, <1>7, <2>2 DEF Told, TableInv
    <3>2. u[p][T[k].dev.sink] \in Nat /\ t[p][T[k].dev.sink] \in Nat
      BY <1>2, <1>7 DEF Hearsay
    <3> QED
      BY <1>5, <1>7, <2>2, <3>1, <3>2
  <2> QED
    BY <2>1, <2>2
<1>12. LastWord(R, u)
  <2> SUFFICES ASSUME NEW k \in 1..Slots, NEW p \in Nodes, R[k].dev.id = p, R[k].used
               PROVE  u[p][NONE] = R[k].dev.sink
    BY DEF LastWord
  <2>1. CASE k = j
    <3>1. R[k].dev = d /\ R[k].age = 0 /\ d.id = p
      BY <1>4, <2>1
    <3> QED
      BY <1>2, <3>1
  <2>2. CASE k # j
    <3>1. T[k] = R[k] /\ p # d.id
      BY <1>1, <1>5, <2>2
    <3>2. u[p] = t[p]
      BY <1>2, <3>1
    <3> QED
      BY <3>1, <3>2 DEF LastWord, TableInv
  <2> QED
    BY <2>1, <2>2
<1>13. NothingNewer(R, u)
  <2> SUFFICES ASSUME NEW k \in 1..Slots, NEW p \in Nodes, NEW g \in Groups,
                      R[k].dev.id = p, u[p][NONE] = g
               PROVE  /\ R[k].age >= u[p][g]
                      /\ R[k].age < Grace /\ R[k].age = u[p][g] => R[k].dev.sink = g
    BY DEF NothingNewer
  <2>1. CASE k = j
    <3>1. R[k].dev = d /\ R[k].age = 0 /\ d.id = p
      BY <1>4, <2>1
    <3> QED
      BY <1>2, <3>1
  <2>2. CASE k # j /\ p # d.id
    <3>1. T[k] = R[k] /\ u[p] = t[p]
      BY <1>2, <1>5, <2>2
    <3> QED
      BY <3>1 DEF NothingNewer, TableInv
  <2>3. CASE k # j /\ p = d.id
    <3>1. T[k] = R[k] /\ ~ T[k].used
      BY <1>1, <1>5, <2>3
    <3>2. T[k].age > TTL /\ T[k].age \in Nat
      BY <1>7, <3>1 DEF Outlived, TableInv
    <3>3. g = d.sink /\ u[p][g] = 0
      BY <1>2, <2>3
    <3> QED
      BY <3>1, <3>2, <3>3, Names
  <2> QED
    BY <2>1, <2>2, <2>3
<1>14. Lowest(R)
  <2> SUFFICES ASSUME IsFiniteSet(Nodes), NEW k \in 1..Slots, R[k].dev.id # NONE
               PROVE  k < Cardinality(Nodes)
    BY DEF Lowest
  <2>1. CASE k # j
    BY <1>5, <2>1 DEF Lowest, TableInv
  <2>2. CASE k = j /\ T[j].dev.id = d.id
    BY <1>3, <2>2 DEF Lowest, TableInv
  <2>3. CASE k = j /\ T[j].dev.id # d.id
    <3>1. ASSUME NEW m \in 1..j-1 PROVE T[m].used /\ T[m].dev.id # d.id
      <4>1. m \in 1..Slots /\ m # j
        BY <2>3, Names
      <4> QED
        BY <1>0, <2>3, <4>1
    <3> QED
      BY <2>3, <3>1, LowSlot DEF TableInv
  <2> QED
    BY <2>1, <2>2, <2>3
<1> QED
  BY <1>6, <1>8, <1>9, <1>10, <1>11, <1>12, <1>13, <1>14 DEF TableInv, R, u

LEMMA ExpireInv ==
    ASSUME NEW o, NEW T \in Table, NEW t, TableInv(T, t, o)
    PROVE  /\ Expire(T) \in Table /\ TableInv(Expire(T), t, o)
           /\ \A k \in 1..Slots : Expire(T)[k].used => Expire(T)[k].age <= TTL
<1> DEFINE R == Expire(T)
<1>1. ASSUME NEW k \in 1..Slots
      PROVE  /\ R[k] \in Entry /\ R[k].dev = T[k].dev /\ R[k].age = T[k].age
             /\ R[k].used <=> T[k].used /\ T[k].age <= TTL
  <2>1. R[k] = [T[k] EXCEPT !.used = @ /\ T[k].age <= TTL]
    BY DEF Expire
  <2>2. T[k] \in [used : BOOLEAN, dev : Known, age : 0..Grace]
    BY SlotTypes DEF Entry
  <2> QED
    BY <2>1, <2>2 DEF Entry
<1>2. R \in Table
  <2>1. R = [k \in 1..Slots |-> R[k]]
    BY DEF Expire
  <2> HIDE DEF R
  <2> QED
    BY <1>1, <2>1 DEF Table
<1> HIDE DEF R
<1>3. Owned(R, o) /\ Single(R) /\ Lowest(R)
  BY <1>1 DEF TableInv, Owned, Single, Lowest
<1>4. Outlived(R)
  <2> SUFFICES ASSUME NEW k \in 1..Slots, ~ R[k].used PROVE R[k].age > TTL
    BY DEF Outlived
  <2>1. T[k].age \in Nat
    BY SlotTypes
  <2> QED
    BY <1>1, <2>1, Names DEF TableInv, Outlived
<1>5. Told(R, t) /\ LastWord(R, t) /\ NothingNewer(R, t)
  BY <1>1 DEF TableInv, Told, LastWord, NothingNewer
<1> QED
  BY <1>1, <1>2, <1>3, <1>4, <1>5 DEF TableInv, R

(* A gossip period later. *)
OlderTable(T) == [k \in 1..Slots |-> [T[k] EXCEPT !.age = Older(@)]]
OlderTold(t) ==
    [p \in Nodes |-> [g \in Groups \cup {NONE} |->
        IF g = NONE THEN t[p][g] ELSE Older(t[p][g])]]

LEMMA AgesInv ==
    ASSUME NEW o, NEW T \in Table, NEW t \in Hearsay, TableInv(T, t, o)
    PROVE  /\ OlderTable(T) \in Table /\ OlderTold(t) \in Hearsay
           /\ TableInv(OlderTable(T), OlderTold(t), o)
<1> DEFINE R == OlderTable(T)
           u == OlderTold(t)
<1>1. ASSUME NEW k \in 1..Slots
      PROVE  /\ R[k] \in Entry /\ R[k].dev = T[k].dev /\ R[k].age = Older(T[k].age)
             /\ R[k].used = T[k].used
  <2>1. R[k] = [T[k] EXCEPT !.age = Older(@)]
    BY DEF OlderTable
  <2>2. T[k] \in [used : BOOLEAN, dev : Known, age : 0..Grace]
    BY SlotTypes DEF Entry
  <2>3. Older(T[k].age) \in 0..Grace
    BY <2>2, Names DEF Older
  <2> QED
    BY <2>1, <2>2, <2>3 DEF Entry
<1>2. R \in Table
  <2>1. R = [k \in 1..Slots |-> R[k]]
    BY DEF OlderTable
  <2> HIDE DEF R
  <2> QED
    BY <1>1, <2>1 DEF Table
<1>3. ASSUME NEW p \in Nodes
      PROVE  /\ u[p] \in [Groups \cup {NONE} -> Nat]
             /\ u[p][NONE] = t[p][NONE] /\ u[p][NONE] \in Groups \cup {NONE}
             /\ \A g \in Groups : u[p][g] = Older(t[p][g]) /\ t[p][g] \in Nat
  <2>1. u[p] = [g \in Groups \cup {NONE} |-> IF g = NONE THEN t[p][g] ELSE Older(t[p][g])]
    BY DEF OlderTold
  <2>2. t[p] \in [Groups \cup {NONE} -> Nat] /\ t[p][NONE] \in Groups \cup {NONE}
    BY DEF Hearsay
  <2>3. \A g \in Groups \cup {NONE} : t[p][g] \in Nat /\ Older(t[p][g]) \in Nat
    BY <2>2, Names DEF Older
  <2>4. u[p][NONE] = t[p][NONE]
    BY <2>1
  <2>5. \A g \in Groups : u[p][g] = Older(t[p][g])
    BY <2>1, Names
  <2>6. u[p] \in [Groups \cup {NONE} -> Nat]
    BY <2>1, <2>3
  <2> QED
    BY <2>2, <2>3, <2>4, <2>5, <2>6
<1>4. u \in Hearsay
  <2>1. u = [p \in Nodes |-> u[p]]
    BY DEF OlderTold
  <2> HIDE DEF u
  <2>2. u \in [Nodes -> [Groups \cup {NONE} -> Nat]]
    BY <1>3, <2>1
  <2> QED
    BY <1>3, <2>2 DEF Hearsay
<1>5. \A a, b \in Nat : /\ a <= b => Older(a) <= Older(b)
                        /\ Older(a) = Older(b) /\ Older(a) < Grace => a = b /\ a < Grace
                        /\ a > TTL => Older(a) > TTL
  BY Names DEF Older
<1> HIDE DEF R, u
<1>6. Owned(R, o) /\ Single(R) /\ Lowest(R)
  BY <1>1 DEF TableInv, Owned, Single, Lowest
<1>7. Outlived(R)
  <2> SUFFICES ASSUME NEW k \in 1..Slots, ~ R[k].used PROVE R[k].age > TTL
    BY DEF Outlived
  <2>1. T[k].age \in Nat /\ T[k].age > TTL
    BY <1>1, SlotTypes DEF TableInv, Outlived
  <2> QED
    BY <1>1, <1>5, <2>1
<1>8. Told(R, u)
  <2> SUFFICES ASSUME NEW k \in 1..Slots, NEW p \in Nodes, R[k].dev.id = p
               PROVE  u[p][R[k].dev.sink] <= R[k].age
    BY DEF Told
  <2>1. T[k].dev.id = p /\ R[k].dev.sink = T[k].dev.sink /\ T[k].dev.sink \in Groups
    BY <1>1, SlotTypes
  <2>2. t[p][T[k].dev.sink] <= T[k].age
    BY <2>1 DEF TableInv, Told
  <2>3. u[p][R[k].dev.sink] = Older(t[p][T[k].dev.sink]) /\ R[k].age = Older(T[k].age)
    BY <1>1, <1>3, <2>1
  <2>4. t[p][T[k].dev.sink] \in Nat /\ T[k].age \in Nat
    BY <1>3, <2>1, SlotTypes
  <2> QED
    BY <1>5, <2>2, <2>3, <2>4
<1>9. LastWord(R, u)
  BY <1>1, <1>3 DEF TableInv, LastWord
<1>10. NothingNewer(R, u)
  <2> SUFFICES ASSUME NEW k \in 1..Slots, NEW p \in Nodes, NEW g \in Groups,
                      R[k].dev.id = p, u[p][NONE] = g
               PROVE  /\ R[k].age >= u[p][g]
                      /\ R[k].age < Grace /\ R[k].age = u[p][g] => R[k].dev.sink = g
    BY DEF NothingNewer
  <2>1. T[k].dev.id = p /\ R[k].dev.sink = T[k].dev.sink /\ t[p][NONE] = g
    BY <1>1, <1>3
  <2>2. /\ T[k].age >= t[p][g]
        /\ T[k].age < Grace /\ T[k].age = t[p][g] => T[k].dev.sink = g
    BY <2>1 DEF TableInv, NothingNewer
  <2>3. u[p][g] = Older(t[p][g]) /\ R[k].age = Older(T[k].age)
    BY <1>1, <1>3
  <2>4. t[p][g] \in Nat /\ T[k].age \in Nat
    BY <1>3, SlotTypes
  <2>5. Older(t[p][g]) <= Older(T[k].age)
    BY <1>5, <2>2, <2>4
  <2>6. Older(t[p][g]) \in Nat /\ Older(T[k].age) \in Nat
    BY <2>4, Names DEF Older
  <2>7. ASSUME R[k].age < Grace, R[k].age = u[p][g] PROVE R[k].dev.sink = g
    BY <1>5, <2>1, <2>2, <2>3, <2>4, <2>7
  <2> QED
    BY <2>3, <2>5, <2>6, <2>7
<1> QED
  BY <1>2, <1>4, <1>6, <1>7, <1>8, <1>9, <1>10 DEF TableInv, R, u

(* A daemon that starts knows nobody and was told nothing. *)
LEMMA StartInv ==
    ASSUME NEW n \in Nodes
    PROVE  /\ Self(n) \in Claims /\ Self(n).id = n
           /\ [k \in 1..Slots |-> NoPeer] \in Table
           /\ [p \in Nodes |-> NeverTold] \in Hearsay
           /\ \A t, o : TableInv([k \in 1..Slots |-> NoPeer], t, o)
<1>1. \A m \in Nodes : Self(m) \in Claims /\ Self(m).id = m
  <2> TAKE m \in Nodes
  <2>1. Signal[m] \in Levels /\ DefaultGroup \in Groups
    BY NodeAssumption DEF NodeAssumption, Groups, Levels
  <2> QED
    BY <2>1 DEF Self, Claims
<1>2. PICK m \in Nodes : m = CHOOSE x \in Nodes : TRUE
  OBVIOUS
<1> DEFINE nobody == [Self(m) EXCEPT !.id = NONE]
<1>3. NoPeer = [used |-> FALSE, dev |-> nobody, age |-> Grace]
  BY <1>2 DEF NoPeer
<1>4. nobody \in Known /\ nobody.id = NONE
  BY <1>1 DEF Claims, Known
<1> HIDE DEF nobody
<1>5. /\ NoPeer \in Entry /\ NoPeer.used = FALSE /\ NoPeer.dev.id = NONE
      /\ NoPeer.age = Grace
  BY <1>3, <1>4, Names DEF Entry
<1>6. [k \in 1..Slots |-> NoPeer] \in Table
  BY <1>5 DEF Table
<1>7. [p \in Nodes |-> NeverTold] \in Hearsay
  <2>1. NeverTold \in [Groups \cup {NONE} -> Nat] /\ NeverTold[NONE] = NONE
    BY Names DEF NeverTold
  <2> HIDE DEF NeverTold
  <2> QED
    BY <2>1 DEF Hearsay
<1>8. ASSUME NEW t, NEW o PROVE TableInv([k \in 1..Slots |-> NoPeer], t, o)
  BY <1>5, Names DEF TableInv, Owned, Single, Lowest, Outlived, Told, LastWord, NothingNewer
<1> QED
  BY <1>1, <1>6, <1>7, <1>8

LEMMA ActiveOf ==
    ASSUME NEW T \in Table
    PROVE  Active(T) \in Groups \cup {NONE}
<1> DEFINE sources == {k \in 1..Slots : T[k].used /\ T[k].dev.source # NONE}
<1>1. CASE sources = {}
  BY <1>1 DEF Active
<1>2. CASE sources # {}
  <2> DEFINE S == {Slots - k : k \in sources}
  <2>1. S \subseteq Nat /\ S # {}
    BY <1>2, Names
  <2>2. /\ Least(S) \in S
        /\ \A x \in S : Least(S) <= x
    <3> HIDE DEF S
    <3>1. Least(S) \in S
      BY <2>1, LeastOf
    <3>2. \A m \in S : Least(S) <= m
      BY <2>1, LeastOf
    <3> QED
      BY <3>1, <3>2
  <2>3. PICK k \in sources : Least(S) = Slots - k
    BY <2>1, <2>2
  <2>4. \A m \in sources : m <= k
    <3> TAKE m \in sources
    <3>1. Slots - k <= Slots - m
      BY <2>1, <2>2, <2>3
    <3>2. k \in Int /\ m \in Int
      OBVIOUS
    <3> QED
      BY <3>1, <3>2, Names
  <2>5. (CHOOSE j \in sources : \A m \in sources : m <= j) \in 1..Slots
    BY <2>4
  <2>6. Active(T) = T[CHOOSE j \in sources : \A m \in sources : m <= j].dev.source
    BY <1>2 DEF Active
  <2> HIDE DEF sources
  <2> QED
    BY <2>5, <2>6, SlotTypes, Names
<1> QED
  BY <1>1, <1>2

LEMMA AppliedOf ==
    ASSUME NEW d \in Claims, NEW active \in Groups \cup {NONE}, NEW e \in Applied(d, active)
    PROVE  e \in Claims /\ e.id = d.id
<1>1. d.id \in Groups /\ d.id \in Nodes
  BY Names DEF Claims
<1>2. BecomeSource(d) \in Claims /\ BecomeSource(d).id = d.id
  BY <1>1 DEF BecomeSource, Claims
<1>3. LeaveGroup(d) \in Claims /\ LeaveGroup(d).id = d.id
  BY <1>1 DEF LeaveGroup, Claims
<1>4. \A g \in Groups : JoinGroup(d, g) \in Claims /\ JoinGroup(d, g).id = d.id
  BY DEF JoinGroup, Claims
<1>5. BareJoin(d, active) \in Claims /\ BareJoin(d, active).id = d.id
  BY <1>3, <1>4 DEF BareJoin
<1>6. Toggle(d, active) \in Claims /\ Toggle(d, active).id = d.id
  BY <1>3, <1>5 DEF Toggle
<1> QED
  BY <1>2, <1>3, <1>4, <1>5, <1>6 DEF Applied

-----------------------------------------------------------------------------
(* The configuration a node puts together is one of distinct devices, itself
   first: its live entries can always be put in order. *)
LEMMA LiveOrder ==
    ASSUME NEW n \in Nat, NEW live \in SUBSET (1..n)
    PROVE  /\ Cardinality(live) \in Nat
           /\ \E f \in [1..Cardinality(live) -> live] :
                  \A i, j \in 1..Cardinality(live) : i < j => f[i] < f[j]
<1> DEFINE L(m) == {k \in live : k <= m}
           Up(K) == IsFiniteSet(K) /\ \E f \in [1..Cardinality(K) -> K] :
                        \A i, j \in 1..Cardinality(K) : i < j => f[i] < f[j]
           S == {m \in 0..n : Up(L(m))}
<1>0. \A k \in live : k \in 1..n /\ k \in Int /\ k > 0 /\ k <= n
  OBVIOUS
<1>1. 0 \in S
  <2>0. \A k \in live : ~ (k <= 0)
    BY <1>0
  <2>1. L(0) = {}
    BY <2>0
  <2>2. IsFiniteSet({}) /\ Cardinality({}) = 0
    BY FS_EmptySet
  <2> DEFINE f == [i \in 1..0 |-> i]
  <2>3. f \in [1..0 -> {}] /\ \A i, j \in 1..0 : i < j => f[i] < f[j]
    OBVIOUS
  <2> HIDE DEF f
  <2>4. Up({})
    BY <2>2, <2>3
  <2>5. 0 \in 0..n
    OBVIOUS
  <2> QED
    BY <2>1, <2>4, <2>5
<1>2. ASSUME NEW m \in 0..n-1, m \in S PROVE m + 1 \in S
  <2>1. m + 1 \in 0..n /\ \A k \in live : k <= m + 1 <=> k <= m \/ k = m + 1
    BY <1>0
  <2>2. CASE m + 1 \notin live
    <3>1. L(m + 1) = L(m)
      BY <2>1, <2>2
    <3> QED
      BY <1>2, <2>1, <3>1
  <2>3. CASE m + 1 \in live
    <3> DEFINE K == L(m)
               c == Cardinality(K)
    <3>0. \A k \in live : k <= m => k < m + 1
      BY <1>0
    <3>1. L(m + 1) = K \cup {m + 1} /\ m + 1 \notin K /\ \A k \in K : k \in Int /\ k < m + 1
      <4>1. L(m + 1) = K \cup {m + 1}
        BY <2>1, <2>3
      <4>2. \A k \in K : k \in Int /\ k < m + 1
        BY <1>0, <3>0
      <4>3. ~ (m + 1 < m + 1)
        OBVIOUS
      <4> QED
        BY <4>1, <4>2, <4>3
    <3>2. IsFiniteSet(K)
      BY <1>2
    <3>3. PICK f \in [1..c -> K] : \A i, j \in 1..c : i < j => f[i] < f[j]
      BY <1>2
    <3> HIDE DEF K
    <3>4. c \in Nat /\ IsFiniteSet(K \cup {m + 1}) /\ Cardinality(K \cup {m + 1}) = c + 1
      BY <3>1, <3>2, FS_CardinalityType, FS_AddElement
    <3> HIDE DEF c
    <3> DEFINE g == [i \in 1..c+1 |-> IF i = c + 1 THEN m + 1 ELSE f[i]]
    <3>5. g \in [1..c+1 -> K \cup {m + 1}]
      BY <3>4
    <3>6. \A i, j \in 1..c+1 : i < j => g[i] < g[j]
      BY <3>1, <3>3, <3>4
    <3> HIDE DEF g
    <3>7. Up(K \cup {m + 1})
      BY <3>4, <3>5, <3>6
    <3> HIDE DEF Up, L
    <3> QED
      BY <2>1, <3>1, <3>7
  <2> QED
    BY <2>2, <2>3
<1> HIDE DEF S
<1>3. n \in 0..n /\ n \in S
  BY <1>1, <1>2, LoopInduction
<1>4. L(n) = live
  BY <1>0
<1>5. Up(live)
  BY <1>3, <1>4 DEF S
<1> QED
  BY <1>5, FS_CardinalityType

(* None is left out of the order. *)
LEMMA OrderCovers ==
    ASSUME NEW n \in Nat, NEW live \in SUBSET (1..n), NEW f \in [1..Cardinality(live) -> live],
           \A i, j \in 1..Cardinality(live) : i < j => f[i] < f[j], NEW k \in live
    PROVE  \E i \in 1..Cardinality(live) : f[i] = k
<1> SUFFICES ASSUME \A i \in 1..Cardinality(live) : f[i] # k PROVE FALSE
  OBVIOUS
<1> DEFINE m == Cardinality(live)
           S == live \ {k}
<1>1. IsFiniteSet(1..n)
  BY FS_Interval
<1>2. IsFiniteSet(live)
  BY <1>1, FS_Subset
<1>3. m \in Nat /\ IsFiniteSet(S) /\ Cardinality(S) = m - 1
  BY <1>2, FS_CardinalityType, FS_RemoveElement
<1>4. f \in [1..m -> S] /\ \A i, j \in 1..m : i < j => f[i] < f[j]
  OBVIOUS
<1>0. \A i \in S : i \in Int
  OBVIOUS
<1> HIDE DEF m, S
<1>5. IsFiniteSet(1..m) /\ Cardinality(1..m) = m
  <2>1. m \in Int /\ 1 \in Int /\ (1 > m \/ m - 1 + 1 = m)
    BY <1>3
  <2> QED
    BY <1>3, <2>1, FS_Interval
<1>7. \A i, j \in 1..m : f[i] = f[j] => i = j
  <2> SUFFICES ASSUME NEW i \in 1..m, NEW j \in 1..m, f[i] = f[j], i # j PROVE FALSE
    OBVIOUS
  <2>1. f[i] \in Int /\ f[j] \in Int
    BY <1>0, <1>4
  <2> QED
    BY <1>3, <1>4, <2>1
<1>8. Cardinality(S) < Cardinality(1..m)
  BY <1>3, <1>5
<1>9. IsFiniteSet(S) /\ IsFiniteSet(1..m) /\ f \in [1..m -> S]
  BY <1>3, <1>4, <1>5
<1>10. \E i, j \in 1..m : i # j /\ f[i] = f[j]
  BY ONLY <1>8, <1>9, FS_PigeonHole
<1> QED
  BY <1>7, <1>10

LEMMA ConfigOf ==
    ASSUME NEW self \in Claims, NEW T \in Table, Owned(T, self.id), Single(T)
    PROVE  /\ \E n \in Nat \ {0} : Config(self, T) \in Configs(n) /\ Config(self, T)[1] = self
           /\ Range(Config(self, T)) = {self} \cup {T[k].dev : k \in {m \in 1..Slots : T[m].used}}
<1> DEFINE live == {k \in 1..Slots : T[k].used}
           m == Cardinality(live)
           Up(f) == f \in [1..m -> live] /\ \A i, j \in 1..m : i < j => f[i] < f[j]
           order == CHOOSE f \in [1..m -> live] : \A i, j \in 1..m : i < j => f[i] < f[j]
           c == [i \in 1..m + 1 |-> IF i = 1 THEN self ELSE T[order[i - 1]].dev]
<1>1. m \in Nat /\ \E f : Up(f)
  <2>1. Slots \in Nat /\ live \in SUBSET (1..Slots)
    BY Names
  <2> HIDE DEF live
  <2> QED
    BY <2>1, LiveOrder
<1>2. Config(self, T) = c
  BY DEF Config
<1>3. Up(order)
  BY <1>1
<1>4. \A k \in live : k \in 1..Slots /\ k \in Int /\ T[k].used
  BY Names
<1>14. \A k \in live : \E i \in 1..m : order[i] = k
  <2>1. Slots \in Nat /\ live \in SUBSET (1..Slots)
    BY Names
  <2> HIDE DEF live, order
  <2> QED
    BY <1>3, <2>1, OrderCovers
<1> HIDE DEF live, m, order
<1>5. \A i \in 2..m+1 : i - 1 \in 1..m /\ order[i - 1] \in live
  BY <1>1, <1>3
<1>6. \A d \in Known : d.id # NONE => d \in Record
  <2>1. \A x \in Nodes \cup Groups : x \in Int /\ x # NONE
    BY Names
  <2>2. NONE \in Int /\ Levels \subseteq Int
    BY NodeAssumption DEF NONE, Levels, NodeAssumption
  <2> TAKE d \in Known
  <2>3. /\ d.id \in Nodes \cup {NONE} /\ d.source \in Nodes \cup {NONE} /\ d.sink \in Groups
        /\ d.signal \in Levels /\ d.time \in {0, 1}
        /\ d = [id |-> d.id, source |-> d.source, sink |-> d.sink, signal |-> d.signal,
                time |-> d.time]
    BY DEF Known
  <2> QED
    BY <2>1, <2>2, <2>3 DEF Record
<1>7. \A i \in 1..m+1 : i = 1 \/ i \in 2..m+1
  BY <1>1
<1>8. /\ self \in Record
      /\ \A i \in 2..m+1 : T[order[i - 1]].dev \in Record /\ T[order[i - 1]].dev.id # self.id
  <2>1. self \in Known /\ self.id # NONE
    BY Names DEF Claims
  <2>2. \A k \in live : T[k].dev \in Known /\ T[k].dev.id # NONE /\ T[k].dev.id # self.id
    BY <1>4, SlotTypes DEF Owned
  <2> QED
    BY <1>5, <1>6, <2>1, <2>2
<1>9. 1 \in 1..m+1 /\ c[1] = self /\ \A i \in 2..m+1 : c[i] = T[order[i - 1]].dev
  BY <1>1
<1>10. c \in [1..m+1 -> Record]
  BY <1>7, <1>8
<1> HIDE DEF c
<1>11. \A i, j \in 2..m+1 : c[i].id = c[j].id => i = j
  <2> SUFFICES ASSUME NEW i \in 2..m+1, NEW j \in 2..m+1, c[i].id = c[j].id, i # j PROVE FALSE
    OBVIOUS
  <2>1. order[i - 1] = order[j - 1]
    BY <1>4, <1>5, <1>9 DEF Single
  <2>2. i - 1 < j - 1 \/ j - 1 < i - 1
    BY <1>1
  <2>3. order[i - 1] \in Int
    BY <1>4, <1>5
  <2> QED
    BY <1>3, <1>5, <2>1, <2>2, <2>3
<1>12. Distinct(m + 1, c)
  BY <1>7, <1>8, <1>9, <1>11 DEF Distinct
<1>13. m + 1 \in Nat \ {0}
  BY <1>1
<1>15. Range(c) = {self} \cup {T[k].dev : k \in live}
  <2>1. Range(c) = {c[i] : i \in 1..m+1}
    BY <1>10 DEF Range
  <2>2. \A i \in 1..m+1 : c[i] = self \/ \E k \in live : c[i] = T[k].dev
    BY <1>5, <1>7, <1>9
  <2>3. ASSUME NEW k \in live PROVE \E i \in 1..m+1 : c[i] = T[k].dev
    <3>1. PICK i \in 1..m : order[i] = k
      BY <1>14
    <3>2. i + 1 \in 2..m+1 /\ i + 1 \in 1..m+1 /\ (i + 1) - 1 = i
      BY <1>1
    <3> QED
      BY <1>9, <3>1, <3>2
  <2> QED
    BY <1>9, <2>1, <2>2, <2>3
<1> QED
  BY <1>2, <1>9, <1>10, <1>12, <1>13, <1>15 DEF Configs, live

(* A node is given the group it listens to, or none. *)
LEMMA RoleOf ==
    ASSUME NEW self \in Claims, NEW T \in Table, Owned(T, self.id), Single(T)
    PROVE  AssignGroups(Config(self, T))[1].source \in {self.sink, NONE}
<1>1. PICK n \in Nat \ {0} : Config(self, T) \in Configs(n) /\ Config(self, T)[1] = self
  BY ConfigOf
<1>2. 1 \in 1..n /\ n \in Nat
  OBVIOUS
<1>3. AssignGroups(Config(self, T))[1].source \in {self.source, self.sink, NONE}
  BY <1>1, <1>2, RoleShape
<1> QED
  BY <1>3 DEF Claims

LEMMA MembersOf ==
    ASSUME NEW o \in Nodes, NEW T \in Table, Owned(T, o), NEW g
    PROVE  Members(o, T, g) \in SUBSET Nodes /\ o \in Members(o, T, g)
<1>1. ASSUME NEW k \in MemberSlots(T, g) PROVE T[k].dev.id \in Nodes
  <2>1. k \in 1..Slots /\ Kept(T[k])
    BY DEF MemberSlots
  <2> QED
    BY <2>1, SlotTypes DEF Kept, Owned
<1> QED
  BY <1>1 DEF Members

-----------------------------------------------------------------------------
LEMMA InitNode == HInit => NodeInv
<1> SUFFICES ASSUME HInit PROVE NodeInv
  OBVIOUS
<1>1. /\ claim = [n \in Nodes |-> Self(n)]
      /\ peers = [o \in Observers |-> [k \in 1..Slots |-> NoPeer]]
      /\ told = [o \in Observers |-> [p \in Nodes |-> NeverTold]]
      /\ role = [o \in Observers |-> NONE] /\ cur = [o \in Observers |-> {}]
      /\ due = [o \in Observers |-> TRUE] /\ fresh = [o \in Observers |-> FALSE]
  BY DEF HInit, Init
<1>2. ASSUME NEW o \in Observers
      PROVE  /\ [k \in 1..Slots |-> NoPeer] \in Table
             /\ [p \in Nodes |-> NeverTold] \in Hearsay
             /\ TableInv(peers[o], told[o], o)
  BY <1>1, StartInv, Names
<1>3. Types
  <2>1. claim \in [Nodes -> Claims] /\ \A n \in Nodes : claim[n].id = n
    BY <1>1, StartInv
  <2>2. peers \in [Observers -> Table] /\ told \in [Observers -> Hearsay]
    BY <1>1, <1>2
  <2>3. role \in [Observers -> Groups \cup {NONE}] /\ cur \in [Observers -> SUBSET Nodes]
    BY <1>1
  <2> QED
    BY <1>1, <2>1, <2>2, <2>3 DEF Types
<1>4. Asked
  BY <1>1 DEF Asked
<1> QED
  BY <1>2, <1>3, <1>4 DEF NodeInv

(* A consensus on a table that is in order. *)
LEMMA ConsensusInv ==
    ASSUME NodeInv, NEW o \in Observers, NEW self \in Claims, self.id = o,
           NEW T \in Table, NEW u \in Hearsay, TableInv(T, u, o), Consensus(o, self, T),
           told' = [told EXCEPT ![o] = u], due' \in [Observers -> BOOLEAN],
           fresh' = [fresh EXCEPT ![o] = TRUE]
    PROVE  NodeInv'
<1> DEFINE R == Expire(T)
           mine == AssignGroups(Config(self, R))[1].source
<1>1. /\ peers' = [peers EXCEPT ![o] = R]
      /\ claim' = [claim EXCEPT ![o] = self]
      /\ role' = [role EXCEPT ![o] = mine]
      /\ cur' = [cur EXCEPT ![o] = IF mine = NONE THEN {} ELSE Members(o, R, mine)]
  BY DEF Consensus
<1>2. /\ R \in Table /\ TableInv(R, u, o)
      /\ \A k \in 1..Slots : R[k].used => R[k].age <= TTL
  BY ExpireInv
<1>9. mine \in {self.sink, NONE} /\ mine = AssignGroups(Config(self, R))[1].source
  BY <1>2, RoleOf DEF TableInv
<1> HIDE DEF R, mine
<1>3. Types
  BY DEF NodeInv
<1>4. /\ peers'[o] = R /\ told'[o] = u /\ fresh'[o]
      /\ role'[o] = mine /\ claim'[o] = self
      /\ cur'[o] = IF mine = NONE THEN {} ELSE Members(o, R, mine)
  BY <1>1, <1>3, Names DEF Types
<1>5. ASSUME NEW n \in Observers, n # o
      PROVE  /\ peers'[n] = peers[n] /\ told'[n] = told[n] /\ fresh'[n] = fresh[n]
             /\ role'[n] = role[n] /\ cur'[n] = cur[n] /\ claim'[n] = claim[n]
  BY <1>1, <1>3, <1>5, Names DEF Types
<1>6. Types'
  <2>1. claim' \in [Nodes -> Claims] /\ \A n \in Nodes : claim'[n].id = n
    BY <1>1, <1>3, Names DEF Types
  <2>2. peers' \in [Observers -> Table]
    BY <1>1, <1>2, <1>3 DEF Types
  <2>3. told' \in [Observers -> Hearsay]
    BY <1>3 DEF Types
  <2>4. role' \in [Observers -> Groups \cup {NONE}]
    BY <1>1, <1>3, <1>9 DEF Types, Claims
  <2>5. cur' \in [Observers -> SUBSET Nodes]
    <3>1. Members(o, R, mine) \in SUBSET Nodes
      BY <1>2, Names, MembersOf DEF TableInv
    <3> QED
      BY <1>1, <1>3, <3>1 DEF Types
  <2>6. fresh' \in [Observers -> BOOLEAN]
    BY <1>3 DEF Types
  <2> QED
    BY <2>1, <2>2, <2>3, <2>4, <2>5, <2>6 DEF Types
<1>7. ASSUME NEW n \in Observers PROVE TableInv(peers'[n], told'[n], n)
  <2>1. CASE n = o
    BY <1>2, <1>4, <2>1
  <2>2. CASE n # o
    BY <1>5, <2>2 DEF NodeInv
  <2> QED
    BY <2>1, <2>2
<1>8. Asked'
  <2> SUFFICES ASSUME NEW n \in Observers, fresh'[n]
               PROVE  /\ \A k \in 1..Slots : peers'[n][k].used => peers'[n][k].age <= TTL
                      /\ role'[n] = AssignGroups(Config(claim'[n], peers'[n]))[1].source
                      /\ role'[n] # NONE => /\ cur'[n] = Members(n, peers'[n], role'[n])
                                            /\ claim'[n].sink = role'[n]
    BY DEF Asked
  <2>1. CASE n = o
    BY <1>2, <1>4, <1>9, <2>1
  <2>2. CASE n # o
    BY <1>5, <2>2 DEF NodeInv, Asked
  <2> QED
    BY <2>1, <2>2
<1> QED
  BY <1>6, <1>7, <1>8 DEF NodeInv

LEMMA HearsOf ==
    ASSUME Types, NEW o \in Observers, NEW p \in Nodes, Hears(o, p)
    PROVE  told' = [told EXCEPT ![o] = Hearing(told[o], claim[p])]
<1>1. told \in [Observers -> Hearsay] /\ claim[p].id = p
  BY DEF Types
<1>2. told[o] \in [Nodes -> [Groups \cup {NONE} -> Nat]]
  BY <1>1 DEF Hearsay
<1>3. told' = [told EXCEPT ![o][p][claim[p].sink] = 0, ![o][p][NONE] = claim[p].sink]
  BY DEF Hears
<1>4. Hearing(told[o], claim[p]) =
          [told[o] EXCEPT ![p][claim[p].sink] = 0, ![p][NONE] = claim[p].sink]
  BY <1>1 DEF Hearing
<1> QED
  BY <1>1, <1>2, <1>3, <1>4

LEMMA HearStep ==
    ASSUME NodeInv, NEW o \in Observers, NEW p \in Nodes, HearGossip(o, p), Hears(o, p),
           fresh' = [fresh EXCEPT ![o] = due[o]]
    PROVE  NodeInv'
<1> DEFINE T == Register(peers[o], claim[p])
           u == Hearing(told[o], claim[p])
<1>1. /\ Types /\ peers[o] \in Table /\ told[o] \in Hearsay /\ claim[p] \in Claims
      /\ claim[p].id = p /\ p # o /\ claim[o] \in Claims /\ claim[o].id = o
      /\ TableInv(peers[o], told[o], o)
  BY Names DEF NodeInv, Types, HearGossip
<1>2. T \in Table /\ TableInv(T, u, o) /\ u \in Hearsay
  BY <1>1, RegisterInv, HearingOf
<1>3. told' = [told EXCEPT ![o] = u]
  BY <1>1, HearsOf
<1>4. CASE due[o]
  <2>1. Consensus(o, claim[o], T) /\ due' = [due EXCEPT ![o] = FALSE]
    BY <1>4 DEF HearGossip, Gossip, Restarts
  <2>2. due' \in [Observers -> BOOLEAN]
    BY <1>1, <2>1 DEF Types
  <2>3. due[o] = TRUE
    BY <1>1, <1>4 DEF Types
  <2>4. fresh' = [fresh EXCEPT ![o] = TRUE]
    BY <2>3
  <2> HIDE DEF T, u
  <2> QED
    BY <1>1, <1>2, <1>3, <2>1, <2>2, <2>4, ConsensusInv
<1>5. CASE ~ due[o]
  <2>1. peers' = [peers EXCEPT ![o] = Expire(T)] /\ UNCHANGED <<claim, role, cur, due>>
    BY <1>5 DEF HearGossip, Gossip
  <2> HIDE DEF T, u
  <2>2. Expire(T) \in Table /\ TableInv(Expire(T), u, o)
    BY <1>2, ExpireInv
  <2>3. due[o] = FALSE
    BY <1>1, <1>5 DEF Types
  <2>4. peers'[o] = Expire(T) /\ told'[o] = u /\ ~ fresh'[o]
    BY <1>1, <1>3, <2>1, <2>3 DEF Types
  <2>5. ASSUME NEW n \in Observers, n # o
        PROVE  peers'[n] = peers[n] /\ told'[n] = told[n] /\ fresh'[n] = fresh[n]
    BY <1>1, <1>3, <2>1, <2>5 DEF Types
  <2>6. Types'
    <3>1. peers' \in [Observers -> Table]
      BY <1>1, <2>1, <2>2 DEF Types
    <3>2. told' \in [Observers -> Hearsay]
      BY <1>1, <1>2, <1>3 DEF Types
    <3>3. fresh' \in [Observers -> BOOLEAN]
      BY <1>1, <2>3 DEF Types
    <3> QED
      BY <1>1, <2>1, <3>1, <3>2, <3>3 DEF Types
  <2>7. ASSUME NEW n \in Observers PROVE TableInv(peers'[n], told'[n], n)
    <3>1. CASE n = o
      BY <2>2, <2>4, <3>1
    <3>2. CASE n # o
      BY <2>5, <3>2 DEF NodeInv
    <3> QED
      BY <3>1, <3>2
  <2>8. Asked'
    <3> SUFFICES ASSUME NEW n \in Observers, fresh'[n]
                 PROVE  /\ \A k \in 1..Slots : peers'[n][k].used => peers'[n][k].age <= TTL
                        /\ role'[n] = AssignGroups(Config(claim'[n], peers'[n]))[1].source
                        /\ role'[n] # NONE => /\ cur'[n] = Members(n, peers'[n], role'[n])
                                              /\ claim'[n].sink = role'[n]
      BY DEF Asked
    <3>1. n # o
      BY <2>4
    <3> QED
      BY <2>1, <2>5, <3>1 DEF NodeInv, Asked
  <2> QED
    BY <2>6, <2>7, <2>8 DEF NodeInv
<1> QED
  BY <1>4, <1>5

LEMMA OwnStep ==
    ASSUME NodeInv, NEW o \in Observers, Idle(o) \/ Command(o),
           fresh' = [fresh EXCEPT ![o] = TRUE], UNCHANGED told
    PROVE  NodeInv'
<1>1. /\ Types /\ peers[o] \in Table /\ told[o] \in Hearsay
      /\ claim[o] \in Claims /\ claim[o].id = o
      /\ TableInv(peers[o], told[o], o)
  BY Names DEF NodeInv, Types
<1>2. PICK self \in Claims : self.id = o /\ Consensus(o, self, peers[o])
  <2>1. CASE Idle(o)
    BY <1>1, <2>1 DEF Idle
  <2>2. CASE Command(o)
    <3>1. PICK self \in Applied(claim[o], Active(peers[o])) : Consensus(o, self, peers[o])
      BY <2>2 DEF Command
    <3>2. self \in Claims /\ self.id = o
      BY <1>1, ActiveOf, AppliedOf
    <3> QED
      BY <3>1, <3>2
  <2> QED
    BY <2>1, <2>2
<1>3. due' \in [Observers -> BOOLEAN]
  BY <1>1 DEF Idle, Command, Restarts, Types
<1>4. told' = [told EXCEPT ![o] = told[o]]
  BY <1>1 DEF Types
<1> QED
  BY <1>1, <1>2, <1>3, <1>4, ConsensusInv

(* Steps that leave the tables alone. *)
LEMMA QuietStep ==
    ASSUME NodeInv, UNCHANGED <<peers, role, told>>, due' \in [Observers -> BOOLEAN],
           claim' \in [Nodes -> Claims], \A n \in Nodes : claim'[n].id = n,
           cur' \in [Observers -> SUBSET Nodes], fresh' \in [Observers -> BOOLEAN],
           \A o \in Observers : fresh'[o] => fresh[o] /\ cur'[o] = cur[o] /\ claim'[o] = claim[o]
    PROVE  NodeInv'
<1>1. Types'
  BY DEF NodeInv, Types
<1>2. \A o \in Observers : TableInv(peers'[o], told'[o], o)
  BY DEF NodeInv
<1>3. Asked'
  BY DEF NodeInv, Asked
<1> QED
  BY <1>1, <1>2, <1>3 DEF NodeInv

LEMMA DueStep ==
    ASSUME NodeInv, NEW o \in Observers, Due(o), UNCHANGED <<fresh, told>>
    PROVE  NodeInv'
<1>1. due' \in [Observers -> BOOLEAN]
  BY DEF Due, NodeInv, Types
<1>2. UNCHANGED <<claim, peers, role, cur>>
  BY DEF Due
<1> QED
  BY <1>1, <1>2, QuietStep DEF NodeInv, Types

LEMMA RemoteStep ==
    ASSUME NodeInv, NEW n \in Nodes \ Observers, RemoteCommand(n), UNCHANGED <<fresh, told>>
    PROVE  NodeInv'
<1>1. PICK active \in Nodes \ {n} : \E d \in Applied(claim[n], active) :
          claim' = [claim EXCEPT ![n] = d]
  BY DEF RemoteCommand
<1>2. PICK d \in Applied(claim[n], active) : claim' = [claim EXCEPT ![n] = d]
  BY <1>1
<1>3. claim \in [Nodes -> Claims] /\ claim[n] \in Claims /\ claim[n].id = n
      /\ active \in Groups \cup {NONE}
  BY Names DEF NodeInv, Types
<1>4. d \in Claims /\ d.id = n
  BY <1>2, <1>3, AppliedOf
<1>5. /\ claim' \in [Nodes -> Claims] /\ \A m \in Nodes : claim'[m].id = m
      /\ \A o \in Observers : claim'[o] = claim[o]
  BY <1>2, <1>4, Names DEF NodeInv, Types
<1>6. UNCHANGED <<peers, role, cur, due>>
  BY DEF RemoteCommand
<1> QED
  BY <1>5, <1>6, QuietStep DEF NodeInv, Types

LEMMA ReapStep ==
    ASSUME NodeInv, NEW o \in Observers, ReapFanout(o), Reset(o), UNCHANGED told
    PROVE  NodeInv'
<1>1. UNCHANGED <<claim, peers, role, due>> /\ cur' = [cur EXCEPT ![o] = {}]
  BY DEF ReapFanout
<1>2. fresh' = [n \in Observers |-> fresh[n] /\ n # o]
  BY DEF Reset
<1>3. fresh' \in [Observers -> BOOLEAN] /\ \A n \in Observers : fresh'[n] => fresh[n] /\ n # o
  BY <1>2 DEF NodeInv, Types
<1>4. cur' \in [Observers -> SUBSET Nodes] /\ \A n \in Observers : n # o => cur'[n] = cur[n]
  BY <1>1 DEF NodeInv, Types
<1> QED
  BY <1>1, <1>3, <1>4, QuietStep DEF NodeInv, Types

LEMMA RestartStep ==
    ASSUME NodeInv, NEW n \in Nodes, Restart(n), Reset(n), Forgets(n)
    PROVE  NodeInv'
<1> DEFINE T == [k \in 1..Slots |-> NoPeer]
           u == [p \in Nodes |-> NeverTold]
<1>1. /\ claim' = [claim EXCEPT ![n] = Self(n)]
      /\ peers' = [o \in Observers |-> IF o = n THEN T ELSE peers[o]]
      /\ role' = [o \in Observers |-> IF o = n THEN NONE ELSE role[o]]
      /\ cur' = [o \in Observers |-> IF o = n THEN {} ELSE cur[o]]
      /\ due' = [o \in Observers |-> due[o] \/ o = n]
      /\ told' = [o \in Observers |-> IF o = n THEN u ELSE told[o]]
      /\ fresh' = [o \in Observers |-> fresh[o] /\ o # n]
  BY DEF Restart, Reset, Forgets
<1>2. /\ Self(n) \in Claims /\ Self(n).id = n /\ T \in Table /\ u \in Hearsay
      /\ \A t, o : TableInv(T, t, o)
  BY StartInv
<1> HIDE DEF T, u
<1>3. Types'
  <2>1. claim' \in [Nodes -> Claims] /\ \A m \in Nodes : claim'[m].id = m
    BY <1>1, <1>2 DEF NodeInv, Types
  <2>2. peers' \in [Observers -> Table] /\ told' \in [Observers -> Hearsay]
    BY <1>1, <1>2 DEF NodeInv, Types
  <2>3. role' \in [Observers -> Groups \cup {NONE}] /\ cur' \in [Observers -> SUBSET Nodes]
    BY <1>1 DEF NodeInv, Types
  <2>4. due' \in [Observers -> BOOLEAN] /\ fresh' \in [Observers -> BOOLEAN]
    BY <1>1 DEF NodeInv, Types
  <2> QED
    BY <2>1, <2>2, <2>3, <2>4 DEF Types
<1>4. ASSUME NEW o \in Observers PROVE TableInv(peers'[o], told'[o], o)
  <2>1. CASE o = n
    BY <1>1, <1>2, <2>1
  <2>2. CASE o # n
    BY <1>1, <2>2 DEF NodeInv
  <2> QED
    BY <2>1, <2>2
<1>5. Asked'
  <2>1. \A o \in Observers : o # n => claim'[o] = claim[o]
    BY <1>1, Names DEF NodeInv, Types
  <2> QED
    BY <1>1, <2>1 DEF NodeInv, Asked
<1> QED
  BY <1>3, <1>4, <1>5 DEF NodeInv

LEMMA TickStep ==
    ASSUME NodeInv, Tick, Ages, fresh' = [o \in Observers |-> FALSE]
    PROVE  NodeInv'
<1>1. /\ peers' = [o \in Observers |-> OlderTable(peers[o])]
      /\ UNCHANGED <<claim, role, cur, due>>
  BY DEF Tick, OlderTable
<1>2. told' = [o \in Observers |-> OlderTold(told[o])]
  BY DEF Ages, OlderTold
<1>3. ASSUME NEW o \in Observers
      PROVE  /\ OlderTable(peers[o]) \in Table /\ OlderTold(told[o]) \in Hearsay
             /\ TableInv(OlderTable(peers[o]), OlderTold(told[o]), o)
  BY AgesInv DEF NodeInv, Types
<1>4. Types'
  BY <1>1, <1>2, <1>3 DEF NodeInv, Types
<1>5. ASSUME NEW o \in Observers PROVE TableInv(peers'[o], told'[o], o)
  BY <1>1, <1>2, <1>3
<1>6. Asked'
  BY DEF Asked
<1> QED
  BY <1>4, <1>5, <1>6 DEF NodeInv

LEMMA NodeStep == NodeInv /\ [HNext]_<<vars, fresh, told, part, cfg, round>> => NodeInv'
<1> SUFFICES ASSUME NodeInv, [HNext]_<<vars, fresh, told, part, cfg, round>> PROVE NodeInv'
  OBVIOUS
<1>1. CASE UNCHANGED <<vars, fresh, told>>
  BY <1>1, QuietStep DEF vars, NodeInv, Types
<1>2. CASE DaemonStep
  <2>1. ASSUME NEW o \in Observers, NEW p \in Nodes, HearGossip(o, p), Hears(o, p),
               fresh' = [fresh EXCEPT ![o] = due[o]]
        PROVE  NodeInv'
    BY <2>1, HearStep
  <2>2. ASSUME NEW o \in Observers, Idle(o) \/ Command(o),
               fresh' = [fresh EXCEPT ![o] = TRUE], UNCHANGED told
        PROVE  NodeInv'
    BY <2>2, OwnStep
  <2>3. ASSUME NEW o \in Observers, Due(o), UNCHANGED <<fresh, told>> PROVE NodeInv'
    BY <2>3, DueStep
  <2>4. ASSUME NEW n \in Nodes \ Observers, RemoteCommand(n), UNCHANGED <<fresh, told>>
        PROVE  NodeInv'
    BY <2>4, RemoteStep
  <2>5. ASSUME NEW o \in Observers, ReapFanout(o), Reset(o), UNCHANGED told PROVE NodeInv'
    BY <2>5, ReapStep
  <2>6. ASSUME NEW n \in Nodes, Restart(n), Reset(n), Forgets(n) PROVE NodeInv'
    BY <2>6, RestartStep
  <2>7. ASSUME Tick, Ages, fresh' = [o \in Observers |-> FALSE] PROVE NodeInv'
    BY <2>7, TickStep
  <2> QED
    BY <1>2, <2>1, <2>2, <2>3, <2>4, <2>5, <2>6, <2>7 DEF DaemonStep
<1> QED
  BY <1>1, <1>2 DEF HNext

-----------------------------------------------------------------------------
LEMMA MemberOf ==
    ASSUME NodeInv, NEW o \in Observers, Sourcing(o), NEW p \in cur[o] \ {o}
    PROVE  \E k \in 1..Slots :
               /\ Kept(peers[o][k]) /\ peers[o][k].dev.sink = role[o]
               /\ peers[o][k].dev.id = p /\ p \in Nodes /\ role[o] \in Groups
<1>1. /\ peers[o] \in Table /\ Owned(peers[o], o)
      /\ cur[o] = Members(o, peers[o], role[o])
  BY DEF NodeInv, Types, Asked, Sourcing, TableInv
<1>2. PICK k \in MemberSlots(peers[o], role[o]) : peers[o][k].dev.id = p
  BY <1>1 DEF Members
<1>3. k \in 1..Slots /\ Kept(peers[o][k]) /\ peers[o][k].dev.sink = role[o]
  BY DEF MemberSlots
<1>4. p # NONE
  BY <1>1, <1>2, <1>3 DEF Kept, Owned
<1>5. p \in Nodes /\ role[o] \in Groups
  BY <1>1, <1>2, <1>3, <1>4, SlotTypes
<1> QED
  BY <1>2, <1>3, <1>5

LEMMA InvLeave == NodeInv => LeaveUnlessStale
<1> SUFFICES ASSUME NodeInv, NEW o \in Observers, Sourcing(o), NEW p \in cur[o] \ {o}
             PROVE  told[o][p][NONE] = role[o] \/ Stale(o, p)
  BY DEF LeaveUnlessStale
<1>1. PICK k \in 1..Slots :
          /\ Kept(peers[o][k]) /\ peers[o][k].dev.sink = role[o]
          /\ peers[o][k].dev.id = p /\ p \in Nodes
  BY MemberOf
<1>2. CASE peers[o][k].used
  BY <1>1, <1>2 DEF NodeInv, TableInv, LastWord
<1>3. CASE ~ peers[o][k].used
  BY <1>1, <1>3 DEF Stale
<1> QED
  BY <1>2, <1>3

LEMMA InvAsked == NodeInv => AskedRecently
<1> SUFFICES ASSUME NodeInv, NEW o \in Observers, Sourcing(o), NEW p \in cur[o] \ {o}
             PROVE  told[o][p][role[o]] < Grace
  BY DEF AskedRecently
<1>1. PICK k \in 1..Slots :
          /\ Kept(peers[o][k]) /\ peers[o][k].dev.sink = role[o]
          /\ peers[o][k].dev.id = p /\ p \in Nodes /\ role[o] \in Groups
  BY MemberOf
<1>2. peers[o] \in Table /\ peers[o][k].age \in Nat
  BY SlotTypes DEF NodeInv, Types
<1>3. told[o][p][role[o]] <= peers[o][k].age
  BY <1>1 DEF NodeInv, TableInv, Told
<1>4. peers[o][k].used => peers[o][k].age <= TTL
  BY DEF NodeInv, Asked, Sourcing
<1>5. peers[o][k].age < Grace
  BY <1>1, <1>2, <1>4, Names DEF Kept
<1>6. told[o][p][role[o]] \in Nat
  BY <1>1 DEF NodeInv, Types, Hearsay
<1> QED
  BY <1>2, <1>3, <1>5, <1>6, Names

(* The list is not cut in a home with no more nodes than a fan-out has slots. *)
LEMMA Uncut ==
    ASSUME IsFiniteSet(Nodes), Cardinality(Nodes) <= FanoutMax,
           NEW T \in Table, NEW o, Owned(T, o), Lowest(T),
           NEW g, NEW k \in 1..Slots, Kept(T[k]), T[k].dev.sink = g
    PROVE  k \in MemberSlots(T, g)
<1> DEFINE within == {m \in 1..Slots : Kept(T[m]) /\ T[m].dev.sink = g}
           below == {m \in within : m < k}
<1>1. /\ k \in Nat /\ k - 1 \in Nat /\ k < Cardinality(Nodes) /\ FanoutMax \in Nat
      /\ Cardinality(Nodes) \in Nat
  <2>1. T[k].dev.id # NONE
    BY DEF Kept, Owned
  <2>2. k < Cardinality(Nodes) /\ Cardinality(Nodes) \in Nat
    BY <2>1, FS_CardinalityType DEF Lowest
  <2> QED
    BY <2>2, NodeAssumption, Names DEF NodeAssumption
<1>2. below \subseteq 1..k-1
  BY <1>1
<1>3. IsFiniteSet(1..k-1) /\ Cardinality(1..k-1) = k - 1
  <2>1. k \in Nat /\ k - 1 \in Nat
    BY <1>1
  <2> QED
    BY <2>1, FS_Interval
<1>4. Cardinality(below) <= k - 1 /\ Cardinality(below) \in Nat
  <2> HIDE DEF below
  <2> QED
    BY <1>2, <1>3, FS_Subset, FS_CardinalityType, ZenonT(60)
<1>5. Cardinality(below) < FanoutMax - 1
  <2> HIDE DEF below
  <2> QED
    BY <1>1, <1>4
<1> QED
  BY <1>5 DEF MemberSlots

LEMMA InvGrace ==
    IsFiniteSet(Nodes) /\ Cardinality(Nodes) <= FanoutMax /\ NodeInv => GraceUnlessEvicted
<1> SUFFICES ASSUME IsFiniteSet(Nodes), Cardinality(Nodes) <= FanoutMax, NodeInv, NEW o \in Observers, Sourcing(o),
                    NEW p \in Nodes \ {o}, told[o][p][NONE] = role[o],
                    told[o][p][role[o]] < Grace, p \notin cur[o],
                    NEW k \in 1..Slots, peers[o][k].dev.id = p
             PROVE  peers[o][k].age > told[o][p][role[o]]
  BY DEF GraceUnlessEvicted
<1> DEFINE entry == peers[o][k]
<1>1. /\ peers[o] \in Table /\ told[o] \in Hearsay /\ role[o] # NONE
      /\ cur[o] = Members(o, peers[o], role[o])
      /\ Owned(peers[o], o) /\ Lowest(peers[o])
  BY DEF NodeInv, Types, Asked, Sourcing, TableInv
<1>2. role[o] \in Groups /\ told[o][p][role[o]] \in Nat
  BY <1>1 DEF Hearsay
<1>3. entry.age \in Nat
  BY <1>1, SlotTypes
<1>4. /\ entry.age >= told[o][p][role[o]]
      /\ entry.age < Grace /\ entry.age = told[o][p][role[o]] => entry.dev.sink = role[o]
  BY <1>2 DEF NodeInv, TableInv, NothingNewer
<1>5. ASSUME entry.age = told[o][p][role[o]] PROVE FALSE
  <2>1. Kept(entry) /\ entry.dev.sink = role[o]
    BY <1>4, <1>5, Names DEF Kept
  <2>2. k \in MemberSlots(peers[o], role[o])
    BY <1>1, <2>1, Uncut
  <2> QED
    BY <1>1, <2>2 DEF Members
<1> QED
  BY <1>2, <1>3, <1>4, <1>5

(* Its own room among the members of whatever a node sources. *)
LEMMA InvMembers == NodeInv => MembersAskedRecently
<1> SUFFICES ASSUME NodeInv, NEW o \in Observers, Sourcing(o)
             PROVE  claim[o].sink = role[o] /\ o \in cur[o]
  BY InvAsked DEF MembersAskedRecently
<1>1. /\ cur[o] = Members(o, peers[o], role[o]) /\ claim[o].sink = role[o]
      /\ peers[o] \in Table /\ Owned(peers[o], o) /\ o \in Nodes
  BY Names DEF NodeInv, Types, Asked, Sourcing, TableInv
<1> QED
  BY <1>1, MembersOf

-----------------------------------------------------------------------------
(* The count of commands, and the behaviours that are about the rules alone. *)
Rest == commands \in 0..MaxCommands /\ RoundsInv

LEMMA InitRest == HInit => Rest
<1> SUFFICES ASSUME HInit PROVE Rest
  OBVIOUS
<1>1. commands \in 0..MaxCommands
  BY NodeAssumption DEF HInit, Init, NodeAssumption
<1>2. CASE RulesInit
  BY <1>1, <1>2, RoundsInit DEF Rest
<1>3. CASE cfg = <<>> /\ round = 0
  <2>1. DOMAIN cfg = {} /\ cfg \in [1..0 -> Record]
    BY <1>3
  <2>2. Distinct(0, cfg)
    BY DEF Distinct
  <2>3. RulesTypeOK /\ ~ (round >= 1)
    BY <1>3, <2>1 DEF RulesTypeOK
  <2>4. RoundsInv
    BY <2>1, <2>2, <2>3 DEF RoundsInv, Configs
  <2> QED
    BY <1>1, <2>4 DEF Rest
<1> QED
  BY <1>2, <1>3 DEF HInit

LEMMA RestStep == Rest /\ [HNext]_<<vars, fresh, told, part, cfg, round>> =>
                      Rest' /\ [Round]_rulesVars
<1> SUFFICES ASSUME Rest, [HNext]_<<vars, fresh, told, part, cfg, round>>
             PROVE  Rest' /\ [Round]_rulesVars
  OBVIOUS
<1>1. [Round]_rulesVars
  BY DEF HNext, rulesVars
<1>2. RoundsInv'
  BY <1>1, RoundsNext DEF Rest
<1>3. commands' \in 0..MaxCommands
  <2>1. MaxCommands \in Nat /\ commands \in 0..MaxCommands
    BY NodeAssumption DEF NodeAssumption, Rest
  <2>2. commands' = commands \/ (commands < MaxCommands /\ commands' = commands + 1)
    BY DEF HNext, DaemonStep, HearGossip, Idle, Due, Command, RemoteCommand, ReapFanout,
           Restart, Tick, vars
  <2> QED
    BY <2>1, <2>2
<1> QED
  BY <1>1, <1>2, <1>3 DEF Rest

LEMMA InvTypes == NodeInv /\ Rest => TypeOK
<1> SUFFICES ASSUME NodeInv, Rest PROVE TypeOK
  OBVIOUS
<1>1. Known = Dev /\ \A d \in Claims : d \in Known
  BY Names DEF Known, Dev, Levels
<1>2. ASSUME NEW n \in Nodes PROVE claim[n] \in Dev /\ claim[n].id = n
  BY <1>1 DEF NodeInv, Types
<1>3. ASSUME NEW o \in Observers, NEW k \in 1..Slots
      PROVE  peers[o][k] \in [used : BOOLEAN, dev : Dev, age : 0..Grace]
  <2>1. peers[o] \in Table
    BY DEF NodeInv, Types
  <2> QED
    BY <1>1, <2>1 DEF Table, Entry
<1> QED
  BY <1>2, <1>3 DEF TypeOK, NodeInv, Types, Rest, RoundsInv

-----------------------------------------------------------------------------
(* Agreement: what daemons that know all conclude, each for itself. *)

(* Table T of node o has a live entry of every other node, and whatever it keeps
   is what a node says of itself now. *)
Knows(T, o, said) ==
    /\ \A p \in Nodes \ {o} : \E k \in 1..Slots : T[k].used /\ T[k].dev = said[p]
    /\ \A k \in 1..Slots : Kept(T[k]) => \E p \in Nodes : T[k].dev = said[p]
Informed(o) == Knows(peers[o], o, claim)

(* No live entry has outlived the TTL. *)
Prompt(T) == \A k \in 1..Slots : T[k].used => T[k].age <= TTL

(* Every daemon knows all and has drawn the right conclusion. *)
Concluded == \A o \in Observers : Informed(o) /\ AgreedAt(o)

(* What a consensus makes of up-to-date gossip is right, whatever the order its
   peers are in and whether or not the other daemons ran theirs. *)
RightRoles == \A o \in Observers : fresh[o] /\ Informed(o) => AgreedAt(o)

(* And only a command, a restart, the death of a fan-out or gossip that is late
   can make the daemons disagree again. *)
AgreedStays ==
    [][commands' = commands /\ Concluded /\ (\A o \in Observers : Prompt(peers[o]))
           => Concluded']_<<vars, fresh, told, part, cfg, round>>

(* Only the device of a group's name can claim it: a claim stands unopposed. *)
LEMMA ClaimsUnopposed ==
    ASSUME Types, NEW D, D = {claim[m] : m \in Nodes}
    PROVE  /\ \A m \in Nodes : /\ claim[m] \in Claims /\ claim[m].id = m /\ m # NONE
                               /\ Keeps(D, claim[m]) <=> claim[m].source # NONE
                               /\ claim[m].source # NONE => claim[m].source = m /\ claim[m].sink = m
           /\ \A g \in Groups : \A e \in Claimants(D, g) : g \in Nodes /\ e = claim[g] /\ e.source = g
<1>1. ASSUME NEW m \in Nodes
      PROVE  /\ claim[m] \in Claims /\ claim[m].id = m /\ m # NONE
             /\ claim[m].source # NONE => claim[m].source = m /\ claim[m].sink = m
  <2>1. claim[m] \in Claims /\ claim[m].id = m /\ m # NONE
    BY Names DEF Types
  <2> QED
    BY <2>1 DEF Claims
<1>2. ASSUME NEW g \in Groups, NEW e \in Claimants(D, g)
      PROVE  g \in Nodes /\ e = claim[g] /\ e.source = g
  <2>1. PICK m \in Nodes : e = claim[m]
    BY DEF Claimants
  <2>2. e.source = g /\ g # NONE
    BY Names DEF Claimants
  <2> QED
    BY <1>1, <2>1, <2>2
<1>3. ASSUME NEW m \in Nodes, claim[m].source # NONE PROVE Keeps(D, claim[m])
  <2>1. claim[m].source = m /\ claim[m].sink = m /\ m \in Groups
    BY <1>1, <1>3, Names
  <2>2. claim[m] \in Claimants(D, m) /\ claim[m] \in Listeners(D, m)
    BY <2>1 DEF Claimants, Listeners
  <2>3. Claimants(D, m) = {claim[m]}
    BY <1>2, <2>1, <2>2
  <2>4. Keeper(D, m) = claim[m]
    BY <2>3 DEF Keeper
  <2> QED
    BY <1>3, <2>1, <2>2, <2>4 DEF Keeps
<1>4. \A m \in Nodes : Keeps(D, claim[m]) => claim[m].source # NONE
  BY DEF Keeps
<1> QED
  BY <1>1, <1>2, <1>3, <1>4

(* Among any listeners there is one best. *)
LEMMA RightListener ==
    ASSUME Types, NEW n \in Nat, NEW c \in Configs(n), Range(c) = {claim[m] : m \in Nodes},
           NEW g \in {claim[m].sink : m \in Nodes}, ~ (g \in Nodes /\ claim[g].source = g)
    PROVE  /\ RightSource(g) \in Nodes /\ claim[RightSource(g)].sink = g
           /\ \A o \in Nodes : o = RightSource(g) <=>
                  /\ claim[o].sink = g
                  /\ \A m \in Nodes : m # o /\ claim[m].sink = g => Prefer(claim[o], claim[m])
<1> DEFINE listeners == {m \in Nodes : claim[m].sink = g}
           S == {i \in 1..n : c[i].sink = g}
           Best(b) == \A m \in listeners \ {b} : Prefer(claim[b], claim[m])
<1>1. Range(c) = {c[i] : i \in 1..n} /\ \A i \in 1..n : c[i] \in Record
  BY DEF Range, Configs
<1>2. \A m \in Nodes : claim[m].id = m /\ claim[m] \in Record
  <2>1. \A m \in Nodes : claim[m] \in Range(c)
    OBVIOUS
  <2> QED
    BY <1>1, <2>1 DEF Types
<1>3. S # {}
  <2>1. PICK m \in Nodes : g = claim[m].sink
    OBVIOUS
  <2>2. claim[m] \in Range(c)
    OBVIOUS
  <2>3. PICK i \in 1..n : c[i] = claim[m]
    BY <1>1, <2>2
  <2> QED
    BY <2>1, <2>3
<1>4. PICK b \in S : \A j \in S \ {b} : Prefer(c[b], c[j])
  BY <1>3, BestListener
<1>5. \A i \in 1..n : \E m \in Nodes : c[i] = claim[m]
  <2>1. \A i \in 1..n : c[i] \in Range(c)
    BY <1>1
  <2> QED
    BY <2>1
<1>6. PICK x \in Nodes : c[b] = claim[x]
  BY <1>4, <1>5
<1>7. x \in listeners /\ Best(x)
  <2>1. x \in listeners
    BY <1>4, <1>6
  <2>2. ASSUME NEW m \in listeners \ {x} PROVE Prefer(claim[x], claim[m])
    <3>1. claim[m] \in Range(c)
      OBVIOUS
    <3>2. PICK i \in 1..n : c[i] = claim[m]
      BY <1>1, <3>1
    <3>3. i \in S /\ i # b
      BY <1>2, <1>6, <3>2
    <3> QED
      BY <1>4, <1>6, <3>2, <3>3
  <2> QED
    BY <2>1, <2>2
<1>8. RightSource(g) = CHOOSE m \in listeners : Best(m)
  BY DEF RightSource
<1>9. RightSource(g) \in listeners /\ Best(RightSource(g))
  <2> HIDE DEF listeners, Best
  <2> QED
    BY <1>7, <1>8
<1>10. ASSUME NEW o \in listeners, Best(o) PROVE o = RightSource(g)
  <2> SUFFICES ASSUME o # RightSource(g) PROVE FALSE
    OBVIOUS
  <2>1. Prefer(claim[o], claim[RightSource(g)]) /\ Prefer(claim[RightSource(g)], claim[o])
    BY <1>9, <1>10
  <2> QED
    BY <1>2, <1>9, <2>1, PreferOrder
<1> QED
  BY <1>9, <1>10

(* The documented rules, over the claims of all nodes, give a group to whoever
   should source it. *)
LEMMA RulesAreRight ==
    ASSUME Types, NEW n \in Nat, NEW c \in Configs(n), Range(c) = {claim[m] : m \in Nodes},
           NEW o \in Nodes, NEW g \in {claim[m].sink : m \in Nodes}
    PROVE  Role(Range(c), claim[o]).source = g <=> o = RightSource(g)
<1> DEFINE D == Range(c)
           d == claim[o]
<1>1. /\ \A m \in Nodes : /\ claim[m] \in Claims /\ claim[m].id = m /\ m # NONE
                          /\ Keeps(D, claim[m]) <=> claim[m].source # NONE
                          /\ claim[m].source # NONE => claim[m].source = m /\ claim[m].sink = m
      /\ \A e \in Claimants(D, g) : g \in Nodes /\ e = claim[g] /\ e.source = g
      /\ g \in Groups /\ g # NONE
  <2>1. g \in Groups /\ g # NONE
    BY Names DEF Types, Claims
  <2> QED
    BY <2>1, ClaimsUnopposed
<1>2. /\ Keeps(D, d) => Role(D, d).source = o
      /\ ~ Keeps(D, d) /\ Elected(D, d) => Role(D, d).source = d.sink
      /\ ~ Keeps(D, d) /\ ~ Elected(D, d) => Role(D, d).source = NONE
  <2>1. d \in [id : Nodes, source : Nodes \cup {NONE}, sink : Groups, signal : Levels,
               time : {0, 1}]
    BY <1>1 DEF Claims
  <2> HIDE DEF D
  <2> QED
    BY <1>1, <2>1 DEF Role
<1>3. CASE g \in Nodes /\ claim[g].source = g
  <2>1. RightSource(g) = g /\ Keeps(D, claim[g])
    BY <1>1, <1>3 DEF RightSource
  <2>2. claim[g] \in Claimants(D, g)
    BY <1>3 DEF Claimants
  <2>3. Elected(D, d) => d.sink # g
    BY <2>1, <2>2 DEF Elected
  <2> QED
    BY <1>1, <1>2, <2>1, <2>3
<1>4. CASE ~ (g \in Nodes /\ claim[g].source = g)
  <2>1. /\ RightSource(g) \in Nodes /\ claim[RightSource(g)].sink = g
        /\ o = RightSource(g) <=>
                  /\ d.sink = g
                  /\ \A m \in Nodes : m # o /\ claim[m].sink = g => Prefer(d, claim[m])
    BY <1>4, RightListener
  <2>2. \A m \in Nodes : claim[m].sink = g => ~ Keeps(D, claim[m])
    BY <1>1, <1>4
  <2>3. Claimants(D, g) = {}
    BY <1>1, <1>4
  <2>4. Candidates(D, g) = {claim[m] : m \in {x \in Nodes : claim[x].sink = g}}
    <3>1. \A e : e \in Candidates(D, g) <=> e \in D /\ e.sink = g /\ ~ Keeps(D, e)
      BY DEF Candidates, Listeners
    <3>2. D = {claim[m] : m \in Nodes}
      OBVIOUS
    <3> HIDE DEF D
    <3>3. \A m \in Nodes : claim[m] \in Candidates(D, g) <=> claim[m].sink = g
      BY <2>2, <3>1, <3>2
    <3>4. \A e \in Candidates(D, g) : \E m \in Nodes : e = claim[m]
      BY <3>1, <3>2
    <3> QED
      BY <3>3, <3>4
  <2>5. ASSUME d.sink = g
        PROVE  Elected(D, d) <=> \A m \in Nodes : m # o /\ claim[m].sink = g => Prefer(d, claim[m])
    <3>1. d \in Candidates(D, g)
      BY <2>4, <2>5
    <3>2. Elected(D, d) <=> \A e \in Candidates(D, g) \ {d} : Prefer(d, e)
      BY <2>3, <2>5, <3>1 DEF Elected
    <3>3. \A m \in Nodes : claim[m] = d <=> m = o
      <4>1. \A m \in Nodes : claim[m].id = m
        BY <1>1
      <4> QED
        BY <4>1
    <3> HIDE DEF D, d
    <3> QED
      BY <2>4, <3>2, <3>3
  <2>6. CASE Keeps(D, d)
    <3>1. d.sink = o /\ o # g /\ d.sink # g
      BY <1>1, <1>4, <2>6
    <3> QED
      BY <1>2, <2>1, <2>6, <3>1
  <2>7. CASE ~ Keeps(D, d)
    BY <1>1, <1>2, <2>1, <2>5, <2>7
  <2> QED
    BY <2>6, <2>7
<1> QED
  BY <1>3, <1>4

LEMMA InvRight ==
    IsFiniteSet(Nodes) /\ Cardinality(Nodes) <= FanoutMax /\ NodeInv => RightRoles
<1> SUFFICES ASSUME IsFiniteSet(Nodes), Cardinality(Nodes) <= FanoutMax, NodeInv,
                    NEW o \in Observers, fresh[o], Informed(o)
             PROVE  AgreedAt(o)
  BY DEF RightRoles
<1> DEFINE T == peers[o]
           c == Config(claim[o], T)
           all == {claim[m] : m \in Nodes}
<1>1. /\ Types /\ T \in Table /\ Owned(T, o) /\ Single(T) /\ Lowest(T)
      /\ o \in Nodes /\ claim[o] \in Claims /\ claim[o].id = o
      /\ role[o] = AssignGroups(c)[1].source
      /\ role[o] # NONE => cur[o] = Members(o, T, role[o]) /\ claim[o].sink = role[o]
  BY Names DEF NodeInv, Types, TableInv, Asked
<1>2. /\ \A p \in Nodes \ {o} : \E k \in 1..Slots : T[k].used /\ T[k].dev = claim[p]
      /\ \A k \in 1..Slots : Kept(T[k]) => \E p \in Nodes : T[k].dev = claim[p]
  BY DEF Informed, Knows
<1> HIDE DEF T
<1>3. /\ \E n \in Nat \ {0} : c \in Configs(n) /\ c[1] = claim[o]
      /\ Range(c) = {claim[o]} \cup {T[k].dev : k \in {m \in 1..Slots : T[m].used}}
  BY <1>1, ConfigOf
<1> HIDE DEF c
<1>4. Range(c) = all
  <2>1. ASSUME NEW k \in 1..Slots, T[k].used PROVE T[k].dev \in all
    BY <1>2, <2>1 DEF Kept
  <2>2. ASSUME NEW m \in Nodes, m # o
        PROVE  \E k \in {x \in 1..Slots : T[x].used} : claim[m] = T[k].dev
    BY <1>2, <2>2
  <2> QED
    BY <1>1, <1>3, <2>1, <2>2
<1>5. PICK n \in Nat \ {0} : c \in Configs(n) /\ c[1] = claim[o]
  BY <1>3
<1>6. role[o] = Role(Range(c), claim[o]).source
  <2>1. 1 \in 1..n /\ n \in Nat
    OBVIOUS
  <2>2. AssignGroups(c)[1] = Role(Range(c), c[1])
    BY <1>5, <2>1, RoleRule
  <2> QED
    BY <1>1, <1>5, <2>2
<1> SUFFICES ASSUME NEW g \in {claim[m].sink : m \in Nodes}
             PROVE  /\ role[o] = g <=> o = RightSource(g)
                    /\ role[o] = g => cur[o] = {m \in Nodes : claim[m].sink = g}
  BY DEF AgreedAt
<1>7. role[o] = g <=> o = RightSource(g)
  BY <1>1, <1>4, <1>5, <1>6, RulesAreRight
<1>8. ASSUME role[o] = g PROVE cur[o] = {m \in Nodes : claim[m].sink = g}
  <2>1. g # NONE
    BY <1>1, Names DEF Types, Claims
  <2>2. cur[o] = {o} \cup {T[k].dev.id : k \in MemberSlots(T, g)} /\ claim[o].sink = g
    BY <1>1, <1>8, <2>1 DEF Members
  <2>3. \A m \in Nodes : claim[m].id = m
    BY <1>1 DEF Types
  <2>4. ASSUME NEW k \in MemberSlots(T, g)
        PROVE  T[k].dev.id \in Nodes /\ claim[T[k].dev.id].sink = g
    <3>1. k \in 1..Slots /\ Kept(T[k]) /\ T[k].dev.sink = g
      BY DEF MemberSlots
    <3>2. PICK p \in Nodes : T[k].dev = claim[p]
      BY <1>2, <3>1
    <3> QED
      BY <2>3, <3>1, <3>2
  <2>5. ASSUME NEW m \in Nodes, m # o, claim[m].sink = g
        PROVE  \E k \in MemberSlots(T, g) : m = T[k].dev.id
    <3>1. PICK k \in 1..Slots : T[k].used /\ T[k].dev = claim[m]
      BY <1>2, <2>5
    <3>2. Kept(T[k]) /\ T[k].dev.sink = g
      BY <2>5, <3>1 DEF Kept
    <3>3. k \in MemberSlots(T, g)
      BY <1>1, <3>2, Uncut
    <3> QED
      BY <2>3, <3>1, <3>3
  <2> QED
    BY <1>1, <2>2, <2>4, <2>5
<1> QED
  BY <1>7, <1>8

(* To hear again what is known changes nothing but an age. *)
LEMMA KnowsHeard ==
    ASSUME NEW o, NEW T \in Table, Single(T), NEW said \in [Nodes -> Claims],
           \A m \in Nodes : said[m].id = m, NEW p \in Nodes \ {o}, Knows(T, o, said), Prompt(T)
    PROVE  Knows(Register(T, said[p]), o, said) /\ Prompt(Register(T, said[p]))
<1> DEFINE R == Register(T, said[p])
<1>1. said[p] \in Claims /\ said[p].id = p
  OBVIOUS
<1>2. PICK j \in Nat :
          \A k \in 1..Slots : /\ R[k] = IF k = j THEN Heard(T[k], said[p]) ELSE T[k]
                              /\ k # j => ~ (T[k].used /\ T[k].dev.id = p)
  BY <1>1, RegisterSlot
<1> HIDE DEF R
<1>3. PICK i \in 1..Slots : T[i].used /\ T[i].dev = said[p]
  BY DEF Knows
<1>4. i = j
  BY <1>1, <1>2, <1>3
<1>5. \A k \in 1..Slots : R[k].used = T[k].used /\ R[k].dev = T[k].dev
                         /\ (R[k].age = T[k].age \/ (R[k].used /\ R[k].age = 0))
  <2> TAKE k \in 1..Slots
  <2>1. CASE k = j
    <3>1. R[k] = [used |-> TRUE, dev |-> said[p], age |-> 0]
      BY <1>2, <2>1 DEF Heard
    <3>2. T[k].used = TRUE /\ T[k].dev = said[p]
      BY <1>3, <1>4, <2>1, SlotTypes
    <3>3. R[k].used = TRUE /\ R[k].dev = said[p] /\ R[k].age = 0
      BY <3>1
    <3> QED
      BY <3>2, <3>3, Zenon
  <2>2. CASE k # j
    BY <1>2, <2>2
  <2> QED
    BY <2>1, <2>2
<1>6. \A k \in 1..Slots : Kept(R[k]) => Kept(T[k])
  BY <1>5 DEF Kept
<1>7. Knows(R, o, said)
  BY <1>5, <1>6 DEF Knows
<1>8. Prompt(R)
  BY <1>5, Names DEF Prompt
<1> QED
  BY <1>7, <1>8 DEF R

LEMMA KnowsExpire ==
    ASSUME NEW o, NEW T \in Table, NEW said, Knows(T, o, said), Prompt(T)
    PROVE  Knows(Expire(T), o, said)
<1>1. \A k \in 1..Slots : /\ Expire(T)[k].used = T[k].used /\ Expire(T)[k].dev = T[k].dev
                          /\ Expire(T)[k].age = T[k].age
  <2> TAKE k \in 1..Slots
  <2>1. Expire(T)[k] = [T[k] EXCEPT !.used = @ /\ T[k].age <= TTL]
    BY DEF Expire
  <2>2. T[k] \in [used : BOOLEAN, dev : Known, age : 0..Grace]
    BY SlotTypes DEF Entry
  <2>3. T[k].used => T[k].age <= TTL
    BY DEF Prompt
  <2> QED
    BY <2>1, <2>2, <2>3
<1>2. \A k \in 1..Slots : Kept(Expire(T)[k]) <=> Kept(T[k])
  BY <1>1 DEF Kept
<1> QED
  BY <1>1, <1>2 DEF Knows

LEMMA KnowsOlder ==
    ASSUME NEW o, NEW T \in Table, NEW said, Knows(T, o, said)
    PROVE  Knows(OlderTable(T), o, said)
<1>1. \A k \in 1..Slots :
          /\ OlderTable(T)[k].used = T[k].used /\ OlderTable(T)[k].dev = T[k].dev
          /\ OlderTable(T)[k].age = Older(T[k].age) /\ T[k].age \in 0..Grace
  <2> TAKE k \in 1..Slots
  <2>1. OlderTable(T)[k] = [T[k] EXCEPT !.age = Older(@)]
    BY DEF OlderTable
  <2>2. T[k] \in [used : BOOLEAN, dev : Known, age : 0..Grace]
    BY SlotTypes DEF Entry
  <2> QED
    BY <2>1, <2>2
<1>2. \A k \in 1..Slots : Kept(OlderTable(T)[k]) => Kept(T[k])
  <2>1. \A a \in 0..Grace : Older(a) < Grace => a < Grace
    BY Names DEF Older
  <2> QED
    BY <1>1, <2>1 DEF Kept
<1> QED
  BY <1>1, <1>2 DEF Knows

LEMMA StaysStep ==
    ASSUME NodeInv, Rest, RightRoles', [HNext]_<<vars, fresh, told, part, cfg, round>>,
           commands' = commands, Concluded, \A o \in Observers : Prompt(peers[o])
    PROVE  Concluded'
<1>1. /\ claim \in [Nodes -> Claims] /\ \A n \in Nodes : claim[n].id = n
      /\ \A o \in Observers : o \in Nodes /\ peers[o] \in Table /\ Single(peers[o])
      /\ peers \in [Observers -> Table] /\ role \in [Observers -> Groups \cup {NONE}]
      /\ cur \in [Observers -> SUBSET Nodes]
      /\ due \in [Observers -> BOOLEAN] /\ fresh \in [Observers -> BOOLEAN]
  BY Names DEF NodeInv, Types, TableInv
<1>2. commands \in Nat /\ commands + 1 # commands
  <2>1. commands \in Nat
    BY NodeAssumption DEF Rest, NodeAssumption
  <2> QED
    BY <2>1
<1>3. ASSUME NEW o \in Observers, claim' = claim, role'[o] = role[o], cur'[o] = cur[o]
      PROVE  AgreedAt(o)'
  BY <1>3, SMTT(30) DEF Concluded, AgreedAt, RightSource
<1>4. ASSUME NEW o \in Observers, claim' = claim, peers'[o] = peers[o]
      PROVE  Informed(o)'
  BY <1>4 DEF Concluded, Informed
<1>5. ASSUME NEW o \in Observers, NEW T \in Table, Knows(T, o, claim), Prompt(T),
             Consensus(o, claim[o], T), fresh' = [fresh EXCEPT ![o] = TRUE]
      PROVE  Concluded'
  <2>1. /\ claim' = claim /\ peers' = [peers EXCEPT ![o] = Expire(T)] /\ fresh'[o]
        /\ \A n \in Observers \ {o} :
              peers'[n] = peers[n] /\ role'[n] = role[n] /\ cur'[n] = cur[n]
    BY <1>1, <1>5 DEF Consensus
  <2>2. Informed(o)'
    BY <1>1, <1>5, <2>1, KnowsExpire DEF Informed
  <2>3. AgreedAt(o)'
    BY <2>1, <2>2 DEF RightRoles
  <2>4. \A n \in Observers \ {o} : Informed(n)' /\ AgreedAt(n)'
    BY <1>3, <1>4, <2>1
  <2> QED
    BY <2>2, <2>3, <2>4 DEF Concluded
<1>6. ASSUME NEW o \in Observers, NEW p \in Nodes, HearGossip(o, p),
             fresh' = [fresh EXCEPT ![o] = due[o]]
      PROVE  Concluded'
  <2> DEFINE T == Register(peers[o], claim[p])
  <2>1. T \in Table
    <3>1. TableInv(peers[o], told[o], o) /\ told[o] \in Hearsay /\ claim[p] \in Claims
          /\ claim[p].id # o
      BY <1>1, <1>6 DEF NodeInv, Types, HearGossip
    <3> QED
      BY <1>1, <3>1, RegisterInv
  <2>2. Knows(T, o, claim) /\ Prompt(T)
    BY <1>1, <1>6, KnowsHeard DEF Concluded, Informed, HearGossip
  <2>3. CASE due[o]
    <3>1. Consensus(o, claim[o], T) /\ fresh' = [fresh EXCEPT ![o] = TRUE]
      <4>1. due[o] = TRUE
        BY <1>1, <2>3
      <4> QED
        BY <1>6, <2>3, <4>1 DEF HearGossip, Gossip
    <3> HIDE DEF T
    <3> QED
      BY <1>5, <2>1, <2>2, <3>1
  <2>4. CASE ~ due[o]
    <3>1. peers' = [peers EXCEPT ![o] = Expire(T)] /\ UNCHANGED <<claim, role, cur>>
      BY <1>6, <2>4 DEF HearGossip, Gossip
    <3> HIDE DEF T
    <3>2. Informed(o)'
      BY <1>1, <2>1, <2>2, <3>1, KnowsExpire DEF Informed
    <3>3. \A n \in Observers \ {o} : Informed(n)'
      BY <1>1, <1>4, <3>1
    <3>4. \A n \in Observers : AgreedAt(n)'
      BY <1>3, <3>1
    <3> QED
      BY <3>2, <3>3, <3>4 DEF Concluded
  <2> QED
    BY <2>3, <2>4
<1>7. ASSUME NEW o \in Observers, Idle(o), fresh' = [fresh EXCEPT ![o] = TRUE]
      PROVE  Concluded'
  BY <1>1, <1>5, <1>7 DEF Concluded, Informed, Idle
<1>8. CASE UNCHANGED <<claim, peers, role, cur>>
  BY <1>3, <1>4, <1>8 DEF Concluded
<1>9. CASE Tick
  <2>1. /\ peers' = [o \in Observers |-> OlderTable(peers[o])]
        /\ UNCHANGED <<claim, role, cur>>
    BY <1>9 DEF Tick, OlderTable
  <2>2. \A o \in Observers : Informed(o)'
    BY <1>1, <2>1, KnowsOlder DEF Concluded, Informed
  <2> QED
    BY <1>3, <2>1, <2>2 DEF Concluded
<1>10. UNCHANGED vars \/ DaemonStep
  BY DEF HNext, vars
<1>11. CASE UNCHANGED vars
  BY <1>8, <1>11 DEF vars
<1>12. CASE DaemonStep
  <2>1. /\ \A o \in Observers : ~ Command(o) /\ ~ ReapFanout(o)
        /\ \A n \in Nodes : ~ RemoteCommand(n) /\ ~ Restart(n)
    BY <1>2 DEF Command, ReapFanout, RemoteCommand, Restart
  <2>2. \A o \in Observers : Due(o) => UNCHANGED <<claim, peers, role, cur>>
    BY DEF Due
  <2> QED
    BY <1>6, <1>7, <1>8, <1>9, <1>12, <2>1, <2>2 DEF DaemonStep
<1> QED
  BY <1>10, <1>11, <1>12

-----------------------------------------------------------------------------
(* Both invariants hold throughout, whichever part a behaviour is about. *)
LEMMA Throughout == HSpec => [](NodeInv /\ Rest)
<1>1. Rest /\ [HNext]_<<vars, fresh, told, part, cfg, round>> => Rest'
  BY RestStep
<1> QED
  BY <1>1, InitNode, InitRest, NodeStep, PTL DEF HSpec

(* Every variable of the node daemons keeps to its type. *)
THEOREM NodeTypes == HSpec => []TypeOK
BY Throughout, InvTypes, PTL

(* Who named another group is out at the next consensus, unless the table keeps
   a stale entry beside the one it updates. *)
THEOREM LeaveTheorem == HSpec => []LeaveUnlessStale
BY Throughout, InvLeave, PTL

(* Nobody is streamed to who has not asked for this group within the grace
   period, and a node's own room is always among those it streams to. *)
THEOREM MembersTheorem == HSpec => []MembersAskedRecently
BY Throughout, InvMembers, PTL

(* A silent peer stays in for the grace period, unless its slot was given away,
   in any home with no more nodes than a fan-out has slots (16 in the code). *)
THEOREM GraceTheorem ==
    IsFiniteSet(Nodes) /\ Cardinality(Nodes) <= FanoutMax => (HSpec => []GraceUnlessEvicted)
<1> SUFFICES ASSUME IsFiniteSet(Nodes), Cardinality(Nodes) <= FanoutMax
             PROVE  HSpec => []GraceUnlessEvicted
  OBVIOUS
<1>1. NodeInv => GraceUnlessEvicted
  BY InvGrace
<1> QED
  BY <1>1, Throughout, PTL

(* A consensus over what all nodes say of themselves makes the right node the
   source of each group, and asks for exactly its listeners, in any home with no
   more nodes than a fan-out has slots. *)
THEOREM RightTheorem ==
    IsFiniteSet(Nodes) /\ Cardinality(Nodes) <= FanoutMax => (HSpec => []RightRoles)
<1> SUFFICES ASSUME IsFiniteSet(Nodes), Cardinality(Nodes) <= FanoutMax
             PROVE  HSpec => []RightRoles
  OBVIOUS
<1>1. NodeInv => RightRoles
  BY InvRight
<1> QED
  BY <1>1, Throughout, PTL

(* Once every daemon has concluded so they agree, and they go on agreeing. *)
THEOREM AgreementTheorem ==
    IsFiniteSet(Nodes) /\ Cardinality(Nodes) <= FanoutMax => (HSpec => AgreedStays)
<1> SUFFICES ASSUME IsFiniteSet(Nodes), Cardinality(Nodes) <= FanoutMax
             PROVE  HSpec => AgreedStays
  OBVIOUS
<1>1. NodeInv => RightRoles
  BY InvRight
<1>2. NodeInv /\ Rest /\ RightRoles' /\ [HNext]_<<vars, fresh, told, part, cfg, round>>
          => [commands' = commands /\ Concluded /\ (\A o \in Observers : Prompt(peers[o]))
                  => Concluded']_<<vars, fresh, told, part, cfg, round>>
  BY StaysStep
<1> QED
  BY <1>1, <1>2, Throughout, PTL DEF HSpec, AgreedStays

(* The in-place loops give every device the role the documented rules give it,
   whatever order the peer table has it in: all nodes agree without an arbiter. *)
THEOREM OrderTheorem == HSpec => OrderIndependent
<1>1. Rest /\ [HNext]_<<vars, fresh, told, part, cfg, round>>
          => [Range(cfg') = Rules(Devs)]_rulesVars
  BY RestStep, RoundStep DEF Rest
<1> QED
  BY <1>1, Throughout, PTL DEF HSpec, OrderIndependent

(* The next round does not overturn an election, nor start another. *)
THEOREM StableTheorem == HSpec => Stable
<1>1. Rest /\ [HNext]_<<vars, fresh, told, part, cfg, round>>
          => [round >= 1 => cfg' = cfg]_rulesVars
  BY RestStep, RoundStep DEF Rest
<1> QED
  BY <1>1, Throughout, PTL DEF HSpec, Stable

(* After a round no group has two sources, no source is without a listener, and
   only a group whose listeners all source another is silent. *)
THEOREM WellFormedTheorem == HSpec => []WellFormed
<1>1. Rest => WellFormed
  BY RoundsWellFormed DEF Rest
<1> QED
  BY <1>1, Throughout, PTL
=============================================================================
