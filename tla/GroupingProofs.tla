--------------------------- MODULE GroupingProofs ---------------------------
(***************************************************************************)
(* The in-place loops of rn_assign_groups give every device the role the   *)
(* documented rules give it, for any number of devices in any order, and   *)
(* what they give is well formed and stable.                               *)
(***************************************************************************)
EXTENDS MCGrouping, FiniteSetTheorems, WellFoundedInduction, TLAPS

Record == [id : Int, source : Int, sink : Int \ {NONE}, signal : Int, time : Int]

(* n devices, no id twice. *)
Distinct(n, c) == \A i, j \in 1..n : c[i].id = c[j].id => i = j
Configs(n) == {c \in [1..n -> Record] : Distinct(n, c)}

Mute(d) == [d EXCEPT !.source = NONE]

-----------------------------------------------------------------------------
(* Induction along a loop. *)
LEMMA LoopInduction ==
    ASSUME NEW n \in Nat, NEW S, 0 \in S,
           \A m \in 0..n-1 : m \in S => m + 1 \in S
    PROVE  \A m \in 0..n : m \in S
<1> SUFFICES ASSUME NEW x \in 0..n, x \notin S
             PROVE  FALSE
  OBVIOUS
<1> DEFINE Bad == {m \in 0..n : m \notin S}
           R == OpToRel(<, Nat)
<1>1. IsWellFoundedOn(R, Nat)
  BY NatLessThanWellFounded
<1>2. Bad \subseteq Nat /\ Bad # {}
  OBVIOUS
<1>3. \A a, b \in Nat : a < b => <<a, b>> \in R
  BY DEF OpToRel
<1> HIDE DEF R
<1>4. PICK k \in Bad : \A m \in Bad : ~ (<<m, k>> \in R)
  BY <1>1, <1>2, WFMin
<1>5. k \in 1..n /\ k - 1 \in 0..n-1 /\ k - 1 < k /\ k \in Nat /\ k - 1 \in Nat
  BY <1>4
<1>6. k - 1 \in S
  <2>1. k - 1 \notin Bad
    BY <1>3, <1>4, <1>5
  <2> QED
    BY <1>5, <2>1
<1> QED
  BY <1>4, <1>5, <1>6

(* The loop that starts from c0 and takes a step for each index. *)
Run(n, C, c0, step, p) ==
    /\ p \in [0..n -> C] /\ p[0] = c0
    /\ \A i \in 1..n : p[i] = step[i][p[i - 1]]

LEMMA Iterates ==
    ASSUME NEW n \in Nat, NEW C, NEW c0 \in C, NEW step \in [1..n -> [C -> C]]
    PROVE  \E p : Run(n, C, c0, step, p)
<1> DEFINE Ok(m, p) == p = [i \in 0..m |-> IF i = 0 THEN c0 ELSE step[i][p[i - 1]]]
           S == {m \in 0..n : \E p \in [0..m -> C] : Ok(m, p)}
<1>1. 0 \in S
  <2> DEFINE p == [i \in 0..0 |-> c0]
  <2>1. p \in [0..0 -> C] /\ Ok(0, p)
    OBVIOUS
  <2>2. 0 \in 0..n
    OBVIOUS
  <2> HIDE DEF p, Ok
  <2> QED
    BY <2>1, <2>2
<1>2. ASSUME NEW m \in 0..n-1, m \in S PROVE m + 1 \in S
  <2>1. PICK p \in [0..m -> C] : Ok(m, p)
    BY <1>2
  <2> DEFINE v == step[m + 1][p[m]]
             q == [i \in 0..m+1 |-> IF i = m + 1 THEN v ELSE p[i]]
  <2>2. m + 1 \in 1..n /\ m \in 0..m /\ m \in Nat
    OBVIOUS
  <2>3. v \in C
    BY <2>2
  <2> HIDE DEF v
  <2>4. q \in [0..m+1 -> C]
    BY <2>2, <2>3
  <2>5. ASSUME NEW i \in 0..m+1
        PROVE  q[i] = IF i = 0 THEN c0 ELSE step[i][q[i - 1]]
    <3>1. CASE i = m + 1
      <4>1. q[i] = v /\ i # 0 /\ i - 1 = m /\ q[i - 1] = p[m]
        BY <2>2, <3>1
      <4> QED
        BY <3>1, <4>1 DEF v
    <3>2. CASE i # m + 1
      <4>1. i \in 0..m /\ q[i] = p[i] /\ (i # 0 => i - 1 \in 0..m /\ q[i - 1] = p[i - 1])
        BY <2>2, <3>2
      <4>2. p[i] = IF i = 0 THEN c0 ELSE step[i][p[i - 1]]
        BY <2>1, <4>1
      <4> QED
        BY <4>1, <4>2
    <3> QED
      BY <3>1, <3>2
  <2>6. Ok(m + 1, q)
    BY <2>5
  <2>7. m + 1 \in 0..n
    OBVIOUS
  <2> HIDE DEF q, Ok
  <2> QED
    BY <2>4, <2>6, <2>7
<1> HIDE DEF S
<1>3. \A m \in 0..n : m \in S
  BY ONLY <1>1, <1>2, n \in Nat, LoopInduction
<1>4. n \in 0..n /\ n \in S
  BY <1>3
<1>5. PICK p \in [0..n -> C] : Ok(n, p)
  BY <1>4 DEF S
<1>6. p[0] = c0 /\ \A i \in 1..n : p[i] = step[i][p[i - 1]]
  BY <1>5
<1> QED
  BY <1>6 DEF Run

(* The best of finitely many under a relation that orders any two of them. *)
Ordered(R, S) ==
    /\ \A i, j \in S : i # j => <<i, j>> \in R \/ <<j, i>> \in R
    /\ \A i, j, k \in S : <<i, j>> \in R /\ <<j, k>> \in R => <<i, k>> \in R
First(R, S, b) == b \in S /\ \A j \in S \ {b} : <<b, j>> \in R

LEMMA BestOf ==
    ASSUME NEW n \in Nat, NEW S \in SUBSET (1..n), S # {}, NEW R, Ordered(R, S)
    PROVE  \E b : First(R, S, b)
<1> USE DEF Ordered, First
<1> DEFINE Up(m) == {i \in S : i <= m}
           T == {m \in 0..n : Up(m) = {} \/ \E b \in Up(m) : \A j \in Up(m) \ {b} : <<b, j>> \in R}
<1>0. \A i \in S : i \in 1..n /\ i > 0 /\ i <= n /\ i \in Int
  OBVIOUS
<1>1. 0 \in T
  <2>1. \A i \in S : ~ (i <= 0)
    BY <1>0
  <2>2. Up(0) = {}
    BY <2>1
  <2>3. 0 \in 0..n
    OBVIOUS
  <2> QED
    BY <2>2, <2>3
<1>2. ASSUME NEW m \in 0..n-1, m \in T PROVE m + 1 \in T
  <2>1. m + 1 \in 0..n /\ \A i \in S : i \in 1..n /\ (i <= m + 1 <=> i <= m \/ i = m + 1)
    OBVIOUS
  <2>2. CASE m + 1 \notin S
    BY <1>2, <2>1, <2>2, ZenonT(60)
  <2>3. CASE m + 1 \in S /\ Up(m) = {}
    <3>1. Up(m + 1) = {m + 1}
      BY <2>1, <2>3
    <3> QED
      BY <2>1, <3>1
  <2>4. CASE m + 1 \in S /\ Up(m) # {}
    <3>1. PICK b \in Up(m) : \A j \in Up(m) \ {b} : <<b, j>> \in R
      BY <1>2, <2>4
    <3>2. b \in S /\ b # m + 1 /\ Up(m) \subseteq S
      BY <1>0, <2>1, <2>4, <3>1
    <3>5. Up(m + 1) = Up(m) \cup {m + 1}
      BY <2>1, <2>4
    <3>3. CASE <<b, m + 1>> \in R
      BY <2>1, <3>1, <3>2, <3>3, <3>5
    <3>4. CASE <<m + 1, b>> \in R
      <4>1. \A j \in Up(m) : <<m + 1, j>> \in R
        BY <2>4, <3>1, <3>2, <3>4
      <4> QED
        BY <2>1, <3>2, <3>5, <4>1
    <3> QED
      BY <2>4, <3>2, <3>3, <3>4
  <2> QED
    BY <2>2, <2>3, <2>4
<1> HIDE DEF T
<1>3. n \in 0..n /\ n \in T
  BY <1>1, <1>2, LoopInduction
<1>4. Up(n) = S
  BY <1>0
<1> QED
  BY <1>3, <1>4 DEF T

-----------------------------------------------------------------------------
(* Both orders order any two devices, one way only. *)
LEMMA LosesOrder ==
    /\ \A d, e \in Record : d.id # e.id => (Loses(d, e) <=> ~ Loses(e, d))
    /\ \A d, e, f \in Record : Loses(d, e) /\ Loses(e, f) => Loses(d, f)
    /\ \A d, e, f, h \in Record :
           d.id = f.id /\ d.time = f.time /\ e.id = h.id /\ e.time = h.time =>
               (Loses(d, e) <=> Loses(f, h))
BY DEF Loses, Record

LEMMA PreferOrder ==
    /\ \A d, e \in Record : d.id # e.id => (Prefer(d, e) <=> ~ Prefer(e, d))
    /\ \A d, e, f \in Record : Prefer(d, e) /\ Prefer(e, f) => Prefer(d, f)
    /\ \A d, e, f, h \in Record :
           d.id = f.id /\ d.signal = f.signal /\ e.id = h.id /\ e.signal = h.signal =>
               (Prefer(d, e) <=> Prefer(f, h))
BY DEF Prefer, Record

LEMMA BestClaim ==
    ASSUME NEW n \in Nat, NEW c \in Configs(n), NEW S \in SUBSET (1..n), S # {}
    PROVE  \E b \in S : \A j \in S \ {b} : Loses(c[j], c[b])
<1>1. \A i \in S : c[i] \in Record
  BY DEF Configs
<1>2. \A i, j \in S : i # j => c[i].id # c[j].id
  BY DEF Configs, Distinct
<1>3. PICK R : \A i, j \in S : <<i, j>> \in R <=> Loses(c[j], c[i])
  <2> DEFINE R == {x \in S \X S : Loses(c[x[2]], c[x[1]])}
  <2>1. \A i, j \in S : <<i, j>> \in R <=> Loses(c[j], c[i])
    OBVIOUS
  <2> QED
    BY <2>1
<1>4. \A i, j \in S : i # j => <<i, j>> \in R \/ <<j, i>> \in R
  BY <1>1, <1>2, <1>3, LosesOrder
<1>5. \A i, j, k \in S : <<i, j>> \in R /\ <<j, k>> \in R => <<i, k>> \in R
  BY <1>1, <1>3, LosesOrder
<1>6. Ordered(R, S)
  BY <1>4, <1>5 DEF Ordered
<1>7. \E b : First(R, S, b)
  BY <1>6, BestOf
<1> QED
  BY <1>3, <1>7 DEF First

LEMMA BestListener ==
    ASSUME NEW n \in Nat, NEW c \in Configs(n), NEW S \in SUBSET (1..n), S # {}
    PROVE  \E b \in S : \A j \in S \ {b} : Prefer(c[b], c[j])
<1>1. \A i \in S : c[i] \in Record
  BY DEF Configs
<1>2. \A i, j \in S : i # j => c[i].id # c[j].id
  BY DEF Configs, Distinct
<1>3. PICK R : \A i, j \in S : <<i, j>> \in R <=> Prefer(c[i], c[j])
  <2> DEFINE R == {x \in S \X S : Prefer(c[x[1]], c[x[2]])}
  <2>1. \A i, j \in S : <<i, j>> \in R <=> Prefer(c[i], c[j])
    OBVIOUS
  <2> QED
    BY <2>1
<1>4. \A i, j \in S : i # j => <<i, j>> \in R \/ <<j, i>> \in R
  BY <1>1, <1>2, <1>3, PreferOrder
<1>5. \A i, j, k \in S : <<i, j>> \in R /\ <<j, k>> \in R => <<i, k>> \in R
  BY <1>1, <1>3, PreferOrder
<1>6. Ordered(R, S)
  BY <1>4, <1>5 DEF Ordered
<1>7. \E b : First(R, S, b)
  BY <1>6, BestOf
<1> QED
  BY <1>3, <1>7 DEF First

LEMMA Muted ==
    ASSUME NEW d \in Record
    PROVE  /\ Mute(d) \in Record /\ Mute(d).source = NONE
           /\ Mute(d).id = d.id /\ Mute(d).sink = d.sink /\ Mute(d).signal = d.signal
           /\ Mute(d).time = d.time
           /\ d.source = NONE => Mute(d) = d
           /\ Mute(Mute(d)) = Mute(d)
<1>1. Mute(d) = [id |-> d.id, source |-> NONE, sink |-> d.sink, signal |-> d.signal, time |-> d.time]
  BY DEF Mute, Record
<1>2. NONE \in Int
  BY DEF NONE
<1>3. d = [id |-> d.id, source |-> d.source, sink |-> d.sink, signal |-> d.signal, time |-> d.time]
  BY DEF Record
<1>4. Mute(d) \in Record
  BY <1>1, <1>2 DEF Record
<1>5. Mute(Mute(d)) = Mute(d)
  BY <1>1 DEF Mute
<1> QED
  BY <1>1, <1>3, <1>4, <1>5

-----------------------------------------------------------------------------
(* Rule 1.  The keeper of a claim is never knocked out, and whoever has met its
   rivals and still claims is the only one to. *)
KeeperAt(n, c, k) ==
    /\ c[k].source # NONE
    /\ \A j \in 1..n : j # k /\ c[j].source = c[k].source => Loses(c[j], c[k])

Alone(n, p, k) == \A j \in 1..n : j # k => p[j].source # p[k].source

Met(n, c, p, m) ==
    /\ p \in [1..n -> Record]
    /\ \A k \in 1..n : p[k] = c[k] \/ p[k] = Mute(c[k])
    /\ \A k \in 1..n : KeeperAt(n, c, k) => p[k] = c[k]
    /\ \A k \in 1..m : p[k].source # NONE => Alone(n, p, k)

LEMMA ResolveStep ==
    ASSUME NEW n \in Nat, NEW c \in Configs(n), NEW i \in 1..n, NEW p, Met(n, c, p, i - 1)
    PROVE  Met(n, c, ResolveClaim(p, i), i)
<1> DEFINE q == ResolveClaim(p, i)
           rivals == {j \in 1..n : SameClaim(p, i, j)}
           stronger == {j \in rivals : Loses(p[i], p[j])}
           beaten == {j \in rivals \ stronger : \A s \in stronger : j < s}
           gone == beaten \cup (IF stronger = {} THEN {} ELSE {i})
<1>1. /\ p \in [1..n -> Record] /\ DOMAIN p = 1..n
      /\ \A k \in 1..n : c[k] \in Record /\ p[k] \in Record
  BY DEF Met, Configs
<1>2. q = Withdraw(p, gone) /\ gone \subseteq 1..n
  BY <1>1 DEF ResolveClaim
<1>3. \A k \in 1..n : q[k] = IF k \in gone THEN Mute(p[k]) ELSE p[k]
  BY <1>1, <1>2 DEF Withdraw, Mute
<1>4. q \in [1..n -> Record]
  <2>1. q = [k \in 1..n |-> IF k \in gone THEN Mute(p[k]) ELSE p[k]]
    BY <1>1, <1>2 DEF Withdraw, Mute
  <2>2. \A k \in 1..n : Mute(p[k]) \in Record
    BY <1>1, Muted
  <2> HIDE DEF q, gone
  <2> QED
    BY <1>1, <2>1, <2>2
<1>5. \A j \in rivals : j # i /\ j \in 1..n /\ p[i].source # NONE /\ p[j].source = p[i].source
  BY DEF SameClaim
<1>6. \A j \in 1..n : j # i /\ p[i].source # NONE /\ p[j].source = p[i].source => j \in rivals
  BY DEF SameClaim
<1>7. \A k \in gone : k \in rivals \ stronger \/ (k = i /\ stronger # {})
  OBVIOUS
<1>8. stronger = {} => \A k \in 1..n : k \in gone <=> k \in rivals
  OBVIOUS
<1>9. stronger # {} => i \in gone
  OBVIOUS
<1>10. \A j \in stronger : j \in rivals /\ Loses(p[i], p[j])
  OBVIOUS
<1>11. \A j \in rivals \ stronger : ~ Loses(p[i], p[j])
  OBVIOUS
<1> HIDE DEF q, rivals, stronger, beaten, gone
<1>12. \A k \in 1..n : p[k].source # NONE => p[k] = c[k]
  BY <1>1, Muted DEF Met
<1>13. \A k \in 1..n : q[k] = c[k] \/ q[k] = Mute(c[k])
  BY <1>1, <1>3, Muted DEF Met
<1>14. ASSUME NEW k \in 1..n, KeeperAt(n, c, k) PROVE q[k] = c[k]
  <2>1. p[k] = c[k] /\ c[k].source # NONE
    BY <1>14 DEF Met, KeeperAt
  <2>2. CASE k \in rivals \ stronger
    <3>1. p[i] = c[i] /\ k # i /\ c[i].source = c[k].source /\ ~ Loses(c[i], c[k])
      BY <1>5, <1>11, <1>12, <2>1, <2>2
    <3> QED
      BY <1>14, <3>1 DEF KeeperAt
  <2>3. CASE k = i /\ stronger # {}
    <3>1. PICK j \in stronger : TRUE
      BY <2>3
    <3>2. j \in 1..n /\ j # k /\ p[j].source = c[k].source /\ p[j] = c[j] /\ Loses(c[k], c[j])
      BY <1>5, <1>10, <1>12, <2>1, <2>3, <3>1
    <3>3. Loses(c[j], c[k]) /\ c[j].id # c[k].id
      BY <1>14, <3>2 DEF KeeperAt, Configs, Distinct
    <3> QED
      BY <1>1, <3>2, <3>3, LosesOrder
  <2> QED
    BY <1>3, <1>7, <2>1, <2>2, <2>3
<1>15. \A k \in 1..n : q[k].source = p[k].source \/ q[k].source = NONE
  BY <1>1, <1>3, Muted
<1>16. ASSUME NEW k \in 1..i, q[k].source # NONE PROVE Alone(n, q, k)
  <2>1. k \in 1..n /\ q[k].source = p[k].source /\ p[k].source # NONE
    BY <1>15, <1>16
  <2>2. CASE k # i
    <3>1. k \in 1..i-1
      BY <2>2
    <3>2. Alone(n, p, k)
      BY <2>1, <3>1 DEF Met
    <3> QED
      BY <1>15, <1>16, <2>1, <3>2 DEF Alone
  <2>3. CASE k = i
    <3>1. stronger = {}
      BY <1>1, <1>3, <1>9, <1>16, <2>3, Muted
    <3>2. ASSUME NEW j \in 1..n, j # i PROVE q[j].source # q[i].source
      <4>1. CASE j \in rivals
        <5>1. q[j] = Mute(p[j])
          BY <1>3, <1>8, <3>1, <4>1
        <5> QED
          BY <1>1, <1>16, <2>3, <5>1, Muted
      <4>2. CASE j \notin rivals
        BY <1>6, <1>15, <1>16, <2>1, <2>3, <3>2, <4>2
      <4> QED
        BY <4>1, <4>2
    <3> QED
      BY <2>3, <3>2 DEF Alone
  <2> QED
    BY <2>2, <2>3
<1> QED
  BY <1>4, <1>13, <1>14, <1>16 DEF Met, q

(* A loop over the devices that keeps an invariant, as a recursive function. *)
LEMMA ClaimLoop ==
    ASSUME NEW n \in Nat, NEW c \in Configs(n)
    PROVE  Met(n, c, AfterClaims(c), n)
<1> DEFINE C == [1..n -> Record]
           IsPass(p) == p = [i \in 0..n |-> IF i = 0 THEN c ELSE ResolveClaim(p[i - 1], i)]
<1>1. c \in C /\ DOMAIN c = 1..n /\ Len(c) = n
  <2>1. c \in Seq(Record) /\ DOMAIN c = 1..n
    BY DEF Configs
  <2> QED
    BY <2>1 DEF Configs
<1>2. \A i \in 1..n, p \in C : ResolveClaim(p, i) \in C
  <2> SUFFICES ASSUME NEW i \in 1..n, NEW p \in C PROVE ResolveClaim(p, i) \in C
    OBVIOUS
  <2>1. PICK W : ResolveClaim(p, i) = Withdraw(p, W)
    BY DEF ResolveClaim
  <2>2. Withdraw(p, W) = [k \in 1..n |-> IF k \in W THEN Mute(p[k]) ELSE p[k]]
    BY DEF Withdraw, Mute
  <2>3. \A k \in 1..n : p[k] \in Record /\ Mute(p[k]) \in Record
    BY Muted
  <2> QED
    BY <2>1, <2>2, <2>3
<1>3. \E p : IsPass(p)
  <2>1. PICK step : /\ step \in [1..n -> [C -> C]]
                    /\ \A i \in 1..n, p \in C : step[i][p] = ResolveClaim(p, i)
    <3> DEFINE step == [i \in 1..n |-> [p \in C |-> ResolveClaim(p, i)]]
    <3> HIDE DEF C
    <3>1. step \in [1..n -> [C -> C]]
      BY <1>2
    <3>2. \A i \in 1..n, p \in C : step[i][p] = ResolveClaim(p, i)
      OBVIOUS
    <3> QED
      BY <3>1, <3>2
  <2> HIDE DEF C
  <2>2. PICK p \in [0..n -> C] :
            p[0] = c /\ \A i \in 1..n : p[i] = step[i][p[i - 1]]
    <3>1. \E p : Run(n, C, c, step, p)
      BY <1>1, <2>1, Iterates
    <3> QED
      BY <3>1 DEF Run
  <2>3. \A i \in 0..n : i # 0 => i \in 1..n /\ i - 1 \in 0..n /\ p[i - 1] \in C
    OBVIOUS
  <2>4. \A i \in 0..n : p[i] = IF i = 0 THEN c ELSE ResolveClaim(p[i - 1], i)
    BY <2>1, <2>2, <2>3
  <2>5. p = [i \in 0..n |-> p[i]]
    OBVIOUS
  <2>6. IsPass(p)
    BY <2>4, <2>5
  <2> QED
    BY <2>6
<1>4. PICK p : IsPass(p) /\ AfterClaims(c) = p[n]
  <2>1. IsPass(CHOOSE p : IsPass(p))
    BY <1>3
  <2>2. AfterClaims(c) = (CHOOSE p : IsPass(p))[n]
    BY <1>1 DEF AfterClaims
  <2> QED
    BY <2>1, <2>2
<1> DEFINE S == {m \in 0..n : Met(n, c, p[m], m)}
<1>5. 0 \in S
  <2>1. p[0] = c
    BY <1>4
  <2> QED
    BY <1>1, <2>1 DEF Met
<1>6. ASSUME NEW m \in 0..n-1, m \in S PROVE m + 1 \in S
  <2>1. p[m + 1] = ResolveClaim(p[m], m + 1) /\ m + 1 \in 1..n /\ m + 1 \in 0..n /\ (m + 1) - 1 = m
    BY <1>4
  <2>2. Met(n, c, p[m], (m + 1) - 1)
    BY <1>6, <2>1
  <2>3. Met(n, c, ResolveClaim(p[m], m + 1), m + 1)
    BY <2>1, <2>2, ResolveStep
  <2> QED
    BY <2>1, <2>3
<1> HIDE DEF S
<1>7. \A m \in 0..n : m \in S
  BY <1>5, <1>6, LoopInduction
<1>8. n \in S
  BY <1>7
<1> QED
  BY <1>4, <1>8 DEF S

(* A claim survives rule 1 just when it is the keeper's. *)
LEMMA ClaimsKept ==
    ASSUME NEW n \in Nat, NEW c \in Configs(n)
    PROVE  /\ AfterClaims(c) \in [1..n -> Record]
           /\ \A k \in 1..n : AfterClaims(c)[k] = IF KeeperAt(n, c, k) THEN c[k] ELSE Mute(c[k])
<1> DEFINE a == AfterClaims(c)
<1>1. Met(n, c, a, n) /\ \A k \in 1..n : c[k] \in Record
  BY ClaimLoop DEF Configs
<1> HIDE DEF a
<1>2. ASSUME NEW k \in 1..n, a[k].source # NONE PROVE KeeperAt(n, c, k)
  <2>1. a[k] = c[k] /\ Alone(n, a, k)
    BY <1>1, <1>2, Muted DEF Met
  <2> DEFINE S == {j \in 1..n : c[j].source = c[k].source}
  <2>2. k \in S /\ S \in SUBSET (1..n)
    OBVIOUS
  <2>3. PICK b \in S : \A j \in S \ {b} : Loses(c[j], c[b])
    BY <2>2, BestClaim
  <2>4. KeeperAt(n, c, b) /\ b \in 1..n /\ c[b].source = a[k].source
    BY <1>2, <2>1, <2>3 DEF KeeperAt
  <2>5. a[b] = c[b]
    BY <1>1, <2>4 DEF Met
  <2>6. b = k
    BY <2>1, <2>4, <2>5 DEF Alone
  <2> QED
    BY <2>4, <2>6
<1>3. ASSUME NEW k \in 1..n PROVE a[k] = IF KeeperAt(n, c, k) THEN c[k] ELSE Mute(c[k])
  <2>1. CASE KeeperAt(n, c, k)
    BY <1>1, <2>1 DEF Met
  <2>2. CASE ~ KeeperAt(n, c, k)
    <3>1. a[k].source = NONE /\ (a[k] = c[k] \/ a[k] = Mute(c[k]))
      BY <1>1, <1>2, <2>2 DEF Met
    <3> QED
      BY <1>1, <2>2, <3>1, Muted
  <2> QED
    BY <2>1, <2>2
<1> QED
  BY <1>1, <1>3 DEF Met, a

(* Rules 1 and 2: a claim survives when it is the keeper's and somebody listens. *)
KeepsAt(n, c, k) == KeeperAt(n, c, k) /\ \E j \in 1..n : c[j].sink = c[k].source

LEMMA HeardKept ==
    ASSUME NEW n \in Nat, NEW c \in Configs(n)
    PROVE  /\ DropUnheard(AfterClaims(c)) \in Configs(n)
           /\ \A k \in 1..n : DropUnheard(AfterClaims(c))[k]
                                  = IF KeepsAt(n, c, k) THEN c[k] ELSE Mute(c[k])
<1> DEFINE a == AfterClaims(c)
           b == DropUnheard(a)
<1>1. /\ a \in [1..n -> Record] /\ DOMAIN a = 1..n
      /\ \A k \in 1..n : c[k] \in Record /\ a[k] \in Record
      /\ \A k \in 1..n : a[k] = IF KeeperAt(n, c, k) THEN c[k] ELSE Mute(c[k])
  BY ClaimsKept DEF Configs
<1> HIDE DEF a
<1>2. b = [k \in 1..n |-> IF \E j \in 1..n : a[j].sink = a[k].source THEN a[k] ELSE Mute(a[k])]
  BY <1>1 DEF DropUnheard, Withdraw, HasSinkFor, Mute
<1>3. \A j \in 1..n : a[j].sink = c[j].sink
  BY <1>1, Muted
<1> HIDE DEF b
<1>4. ASSUME NEW k \in 1..n PROVE b[k] = IF KeepsAt(n, c, k) THEN c[k] ELSE Mute(c[k])
  <2>1. b[k] = IF \E j \in 1..n : c[j].sink = a[k].source THEN a[k] ELSE Mute(a[k])
    BY <1>2, <1>3
  <2>2. CASE KeeperAt(n, c, k)
    BY <1>1, <2>1, <2>2 DEF KeepsAt
  <2>3. CASE ~ KeeperAt(n, c, k)
    <3>1. a[k] = Mute(c[k]) /\ Mute(a[k]) = a[k]
      BY <1>1, <2>3, Muted
    <3> QED
      BY <2>1, <2>3, <3>1 DEF KeepsAt
  <2> QED
    BY <2>2, <2>3
<1>5. \A k \in 1..n : b[k] \in Record /\ b[k].id = c[k].id
  BY <1>1, <1>4, Muted
<1>6. b \in [1..n -> Record]
  BY <1>2, <1>5
<1>7. Distinct(n, b)
  BY <1>5 DEF Configs, Distinct
<1> QED
  BY <1>4, <1>6, <1>7 DEF Configs, a, b

-----------------------------------------------------------------------------
(* Rule 3.  A device is promoted for the group it listens to only, and makes
   that group one with a source: the elections of two groups do not meet. *)
LEMMA Promoted ==
    ASSUME NEW d \in Record, NEW g \in Int
    PROVE  /\ Promote(d, g) \in Record /\ Promote(d, g).source = g
           /\ Promote(d, g).id = d.id /\ Promote(d, g).sink = d.sink
           /\ Promote(d, g).signal = d.signal /\ Promote(d, g).time = ELECTED_TIME
           /\ d.sink # NONE /\ d.sink \in Int
<1> DEFINE m == [d EXCEPT !.source = g]
<1>1. m \in Record /\ m.source = g /\ m.id = d.id /\ m.sink = d.sink /\ m.signal = d.signal
  BY DEF Record
<1>2. Promote(d, g) = [m EXCEPT !.time = ELECTED_TIME]
  BY DEF Promote
<1>3. ELECTED_TIME \in Int
  BY DEF ELECTED_TIME
<1> HIDE DEF m
<1>4. d.sink # NONE /\ d.sink \in Int
  BY DEF Record
<1> QED
  BY <1>1, <1>2, <1>3, <1>4 DEF Record

ElectedAt(n, b, k) ==
    /\ b[k].source = NONE
    /\ \A j \in 1..n : b[j].source # b[k].sink
    /\ \A j \in 1..n : j # k /\ b[j].sink = b[k].sink /\ b[j].source = NONE => Prefer(b[k], b[j])

Turn(b, k, m) == \E i \in 1..m : b[i].sink = b[k].sink

Held(n, b, e, m) ==
    /\ e \in [1..n -> Record]
    /\ \A k \in 1..n : e[k] = IF ElectedAt(n, b, k) /\ Turn(b, k, m)
                              THEN Promote(b[k], b[k].sink) ELSE b[k]

LEMMA ElectStep ==
    ASSUME NEW n \in Nat, NEW b \in Configs(n), NEW i \in 1..n, NEW e, Held(n, b, e, i - 1)
    PROVE  Held(n, b, Elect(e, i), i)
<1> DEFINE q == Elect(e, i)
           g == b[i].sink
           free == {k \in 1..n : e[k].sink = g /\ e[k].source = NONE}
<1>1. /\ e \in [1..n -> Record] /\ DOMAIN e = 1..n
      /\ \A k \in 1..n : b[k] \in Record /\ e[k] \in Record /\ b[k].sink # NONE
  BY DEF Held, Configs, Record
<1>2. \A k \in 1..n : /\ e[k].id = b[k].id /\ e[k].sink = b[k].sink
                      /\ e[k].signal = b[k].signal
                      /\ e[k] = b[k] \/ (ElectedAt(n, b, k) /\ Turn(b, k, i - 1)
                                         /\ e[k].source = b[k].sink)
  <2> TAKE k \in 1..n
  <2>1. b[k] \in Record /\ b[k].sink \in Int
    BY <1>1 DEF Record
  <2> DEFINE up == Promote(b[k], b[k].sink)
  <2>2. up.id = b[k].id /\ up.sink = b[k].sink /\ up.signal = b[k].signal /\ up.source = b[k].sink
    BY <2>1, Promoted
  <2>3. e[k] = IF ElectedAt(n, b, k) /\ Turn(b, k, i - 1) THEN up ELSE b[k]
    BY DEF Held
  <2> HIDE DEF up
  <2> QED
    BY <2>2, <2>3
<1>3. e \in Configs(n) /\ e[i].sink = g
  BY <1>1, <1>2 DEF Configs, Distinct
<1>4. \A k \in 1..n : Turn(b, k, i) <=> Turn(b, k, i - 1) \/ b[k].sink = g
  BY DEF Turn
<1>5. Free(e, g) = free
  BY <1>1 DEF Free
<1>6. Sourced(e, g) <=> \E k \in 1..n : e[k].source = g
  BY <1>1 DEF Sourced
<1>7. q = IF Sourced(e, g) \/ free = {} THEN e
          ELSE LET best == CHOOSE k \in free : \A m \in free \ {k} : Prefer(e[k], e[m])
               IN  [e EXCEPT ![best] = Promote(e[best], g)]
  BY <1>3, <1>5 DEF Elect
<1> HIDE DEF q, g
<1>8. CASE Sourced(e, g) \/ free = {}
  <2>1. q = e
    BY <1>7, <1>8
  <2>2. ASSUME NEW k \in 1..n, ElectedAt(n, b, k), b[k].sink = g PROVE Turn(b, k, i - 1)
    <3>1. CASE Sourced(e, g)
      <4>1. PICK j \in 1..n : e[j].source = g
        BY <1>6, <3>1
      <4>2. b[j].source # g
        BY <2>2, <4>1 DEF ElectedAt
      <4>3. Turn(b, j, i - 1) /\ b[j].sink = g
        BY <1>2, <4>1, <4>2
      <4> QED
        BY <2>2, <4>3 DEF Turn
    <3>2. CASE free = {} /\ ~ Turn(b, k, i - 1)
      <4>1. e[k] = b[k] /\ e[k].source = NONE /\ e[k].sink = g
        BY <1>2, <2>2, <3>2 DEF ElectedAt
      <4> QED
        BY <3>2, <4>1
    <3> QED
      BY <1>8, <3>1, <3>2
  <2>3. \A k \in 1..n : ElectedAt(n, b, k) => (Turn(b, k, i) <=> Turn(b, k, i - 1))
    BY <1>4, <2>2
  <2> QED
    BY <2>1, <2>3 DEF Held, q
<1>9. CASE ~ Sourced(e, g) /\ free # {}
  <2>1. /\ \A k \in 1..n : e[k].source # g
        /\ \A k \in 1..n : b[k].sink = g => e[k] = b[k]
    BY <1>2, <1>6, <1>9
  <2>2. \A k \in 1..n : b[k].source # g
    <3> SUFFICES ASSUME NEW k \in 1..n, b[k].source = g PROVE FALSE
      OBVIOUS
    <3>1. g # NONE
      BY <1>1 DEF g
    <3>2. ~ ElectedAt(n, b, k)
      BY <3>1 DEF ElectedAt
    <3> QED
      BY <1>2, <2>1, <3>2
  <2>3. \A k \in 1..n : k \in free <=> b[k].sink = g /\ b[k].source = NONE
    BY <1>2, <2>1
  <2> DEFINE Best(k) == \A m \in free \ {k} : Prefer(e[k], e[m])
  <2>4. \E k \in free : Best(k)
    BY <1>3, <1>9, BestListener
  <2>5. PICK best \in free : Best(best) /\ q = [e EXCEPT ![best] = Promote(e[best], g)]
    <3>1. (CHOOSE k \in free : Best(k)) \in free /\ Best(CHOOSE k \in free : Best(k))
      BY <2>4
    <3> QED
      BY <1>7, <1>9, <3>1
  <2>6. /\ best \in 1..n /\ e[best] = b[best] /\ b[best].sink = g /\ b[best].source = NONE
        /\ \A m \in free : e[m] = b[m] /\ m \in 1..n
    BY <2>1, <2>3, <2>5
  <2>7. \A m \in free : m # best => Prefer(b[best], b[m])
    BY <2>5, <2>6
  <2> HIDE DEF free, Best
  <2>8. ElectedAt(n, b, best)
    BY <2>2, <2>3, <2>6, <2>7 DEF ElectedAt
  <2>9. \A k \in 1..n : ElectedAt(n, b, k) /\ b[k].sink = g => k = best
    <3> SUFFICES ASSUME NEW k \in 1..n, ElectedAt(n, b, k), b[k].sink = g, k # best PROVE FALSE
      OBVIOUS
    <3>1. Prefer(b[k], b[best]) /\ Prefer(b[best], b[k]) /\ b[k].id # b[best].id
      BY <2>6, <2>8 DEF ElectedAt, Configs, Distinct
    <3> QED
      BY <1>1, <2>6, <3>1, PreferOrder
  <2>10. Promote(b[best], b[best].sink) \in Record /\ q[best] = Promote(b[best], b[best].sink)
    BY <1>1, <2>5, <2>6, Promoted
  <2>11. q \in [1..n -> Record] /\ \A k \in 1..n : k # best => q[k] = e[k]
    BY <1>1, <2>5, <2>6, <2>10
  <2>12. ASSUME NEW k \in 1..n
         PROVE  q[k] = IF ElectedAt(n, b, k) /\ Turn(b, k, i) THEN Promote(b[k], b[k].sink) ELSE b[k]
    <3>1. CASE k = best
      BY <1>4, <2>6, <2>8, <2>10, <3>1
    <3>2. CASE k # best
      <4>1. q[k] = e[k] /\ (ElectedAt(n, b, k) => (Turn(b, k, i) <=> Turn(b, k, i - 1)))
        BY <1>4, <2>9, <2>11, <3>2
      <4> QED
        BY <4>1 DEF Held
    <3> QED
      BY <3>1, <3>2
  <2> QED
    BY <2>11, <2>12 DEF Held, q
<1> QED
  BY <1>8, <1>9

LEMMA ElectType ==
    ASSUME NEW n \in Nat, NEW i \in 1..n, NEW e \in [1..n -> Record]
    PROVE  Elect(e, i) \in [1..n -> Record]
<1>1. e[i].sink \in Int /\ DOMAIN e = 1..n
  BY DEF Record
<1>2. PICK best, g : g \in Int /\ (Elect(e, i) = e \/ Elect(e, i) = [e EXCEPT ![best] = Promote(e[best], g)])
  BY <1>1 DEF Elect
<1>3. \A k \in 1..n : Promote(e[k], g) \in Record
  BY <1>2, Promoted
<1> QED
  BY <1>2, <1>3

LEMMA ElectLoop ==
    ASSUME NEW n \in Nat, NEW b \in Configs(n)
    PROVE  Held(n, b, AfterElections(b), n)
<1> DEFINE C == [1..n -> Record]
           IsPass(p) == p = [i \in 0..n |-> IF i = 0 THEN b ELSE Elect(p[i - 1], i)]
<1>1. b \in C /\ DOMAIN b = 1..n /\ Len(b) = n
  <2>1. b \in Seq(Record) /\ DOMAIN b = 1..n
    BY DEF Configs
  <2> QED
    BY <2>1 DEF Configs
<1>2. \A i \in 1..n, p \in C : Elect(p, i) \in C
  BY ElectType
<1>3. \E p : IsPass(p)
  <2>1. PICK step : /\ step \in [1..n -> [C -> C]]
                    /\ \A i \in 1..n, p \in C : step[i][p] = Elect(p, i)
    <3> DEFINE step == [i \in 1..n |-> [p \in C |-> Elect(p, i)]]
    <3> HIDE DEF C
    <3>1. step \in [1..n -> [C -> C]]
      BY <1>2
    <3>2. \A i \in 1..n, p \in C : step[i][p] = Elect(p, i)
      OBVIOUS
    <3> QED
      BY <3>1, <3>2
  <2> HIDE DEF C
  <2>2. PICK p \in [0..n -> C] :
            p[0] = b /\ \A i \in 1..n : p[i] = step[i][p[i - 1]]
    <3>1. \E p : Run(n, C, b, step, p)
      BY <1>1, <2>1, Iterates
    <3> QED
      BY <3>1 DEF Run
  <2>3. \A i \in 0..n : i # 0 => i \in 1..n /\ i - 1 \in 0..n /\ p[i - 1] \in C
    OBVIOUS
  <2>4. \A i \in 0..n : p[i] = IF i = 0 THEN b ELSE Elect(p[i - 1], i)
    BY <2>1, <2>2, <2>3
  <2>5. p = [i \in 0..n |-> p[i]]
    OBVIOUS
  <2>6. IsPass(p)
    BY <2>4, <2>5
  <2> QED
    BY <2>6
<1>4. PICK p : IsPass(p) /\ AfterElections(b) = p[n]
  <2>1. IsPass(CHOOSE p : IsPass(p))
    BY <1>3
  <2>2. AfterElections(b) = (CHOOSE p : IsPass(p))[n]
    BY <1>1 DEF AfterElections
  <2> QED
    BY <2>1, <2>2
<1> DEFINE S == {m \in 0..n : Held(n, b, p[m], m)}
<1>5. 0 \in S
  <2>1. p[0] = b
    BY <1>4
  <2> QED
    BY <1>1, <2>1 DEF Held, Turn
<1>6. ASSUME NEW m \in 0..n-1, m \in S PROVE m + 1 \in S
  <2>1. p[m + 1] = Elect(p[m], m + 1) /\ m + 1 \in 1..n /\ m + 1 \in 0..n /\ (m + 1) - 1 = m
    BY <1>4
  <2>2. Held(n, b, p[m], (m + 1) - 1)
    BY <1>6, <2>1
  <2>3. Held(n, b, Elect(p[m], m + 1), m + 1)
    BY <2>1, <2>2, ElectStep
  <2> QED
    BY <2>1, <2>3
<1> HIDE DEF S
<1>7. \A m \in 0..n : m \in S
  BY <1>5, <1>6, LoopInduction
<1>8. n \in S
  BY <1>7
<1> QED
  BY <1>4, <1>8 DEF S

(* Every group has had its turn in the end. *)
LEMMA Assigned ==
    ASSUME NEW n \in Nat, NEW b \in Configs(n)
    PROVE  /\ AfterElections(b) \in [1..n -> Record]
           /\ \A k \in 1..n : AfterElections(b)[k]
                  = IF ElectedAt(n, b, k) THEN Promote(b[k], b[k].sink) ELSE b[k]
<1>1. \A k \in 1..n : Turn(b, k, n)
  BY DEF Turn
<1> QED
  BY <1>1, ElectLoop DEF Held

-----------------------------------------------------------------------------
(* What the loops compute is what the rules say. *)
LEMMA KeepsRule ==
    ASSUME NEW n \in Nat, NEW c \in Configs(n), NEW k \in 1..n
    PROVE  Keeps(Range(c), c[k]) <=> KeepsAt(n, c, k)
<1> DEFINE devs == Range(c)
           g == c[k].source
<1>1. /\ devs = {c[j] : j \in 1..n}
      /\ \A j \in 1..n : c[j] \in Record
      /\ \A i, j \in 1..n : c[i] = c[j] => i = j
  BY DEF Range, Configs, Distinct
<1>2. Listeners(devs, g) # {} <=> \E j \in 1..n : c[j].sink = g
  BY <1>1 DEF Listeners
<1> HIDE DEF devs
<1>3. Claimants(devs, g) = {c[j] : j \in {i \in 1..n : c[i].source = g}}
  BY <1>1 DEF Claimants
<1> DEFINE Best(d) == d \in Claimants(devs, g)
                      /\ \A e \in Claimants(devs, g) \ {d} : Loses(e, d)
<1>4. Keeper(devs, g) = CHOOSE d : Best(d)
  BY DEF Keeper
<1>5. ASSUME NEW d, NEW e, Best(d), Best(e) PROVE d = e
  <2> SUFFICES ASSUME d # e PROVE FALSE
    OBVIOUS
  <2>1. Loses(d, e) /\ Loses(e, d)
    BY <1>5
  <2>2. d \in Record /\ e \in Record /\ d.id # e.id
    BY <1>1, <1>3, <1>5 DEF Configs, Distinct
  <2> QED
    BY <2>1, <2>2, LosesOrder
<1>6. Best(c[k]) <=> \A j \in 1..n : j # k /\ c[j].source = g => Loses(c[j], c[k])
  BY <1>1, <1>3
<1> HIDE DEF Best
<1>7. \E d : Best(d)
  <2>1. PICK b \in {i \in 1..n : c[i].source = g} :
            \A j \in {i \in 1..n : c[i].source = g} \ {b} : Loses(c[j], c[b])
    BY BestClaim
  <2>2. Best(c[b])
    BY <1>1, <1>3, <2>1 DEF Best
  <2> QED
    BY <2>2
<1>8. Best(Keeper(devs, g))
  BY <1>4, <1>7
<1>9. c[k] = Keeper(devs, g) <=> Best(c[k])
  BY <1>5, <1>8
<1> QED
  BY <1>2, <1>6, <1>9 DEF Keeps, KeepsAt, KeeperAt, devs

(* After rules 1 and 2 just the kept claims are left. *)
LEMMA LeftOver ==
    ASSUME NEW n \in Nat, NEW c \in Configs(n), NEW b, b = DropUnheard(AfterClaims(c)),
           NEW j \in 1..n
    PROVE  /\ c[j] \in Record /\ b[j] \in Record
           /\ b[j].sink = c[j].sink /\ b[j].id = c[j].id /\ b[j].signal = c[j].signal
           /\ KeepsAt(n, c, j) => b[j] = c[j] /\ b[j].source # NONE
           /\ ~ KeepsAt(n, c, j) => b[j] = Mute(c[j]) /\ b[j].source = NONE
<1>1. c[j] \in Record /\ b[j] = IF KeepsAt(n, c, j) THEN c[j] ELSE Mute(c[j])
  BY HeardKept DEF Configs
<1> QED
  BY <1>1, Muted DEF KeepsAt, KeeperAt

LEMMA ElectedRule ==
    ASSUME NEW n \in Nat, NEW c \in Configs(n), NEW k \in 1..n, ~ KeepsAt(n, c, k)
    PROVE  Elected(Range(c), c[k]) <=> ElectedAt(n, DropUnheard(AfterClaims(c)), k)
<1> DEFINE devs == Range(c)
           b == DropUnheard(AfterClaims(c))
           g == c[k].sink
<1>1. /\ devs = {c[j] : j \in 1..n} /\ g # NONE
      /\ \A j \in 1..n : c[j] \in Record
      /\ \A i, j \in 1..n : c[i] = c[j] => i = j
  BY DEF Range, Configs, Distinct, Record
<1>2. \A j \in 1..n : Keeps(devs, c[j]) <=> KeepsAt(n, c, j)
  BY KeepsRule
<1>3. \A j \in 1..n :
          /\ b[j] \in Record /\ b[j].sink = c[j].sink
          /\ b[j].id = c[j].id /\ b[j].signal = c[j].signal
          /\ KeepsAt(n, c, j) => b[j] = c[j] /\ b[j].source # NONE
          /\ ~ KeepsAt(n, c, j) => b[j].source = NONE
  BY LeftOver
<1> HIDE DEF devs, b
<1>4. Candidates(devs, g) = {c[j] : j \in {i \in 1..n : c[i].sink = g /\ ~ KeepsAt(n, c, i)}}
  <2>1. \A d : d \in Candidates(devs, g) <=> d \in devs /\ d.sink = g /\ ~ Keeps(devs, d)
    BY DEF Candidates, Listeners
  <2>2. \A j \in 1..n : c[j] \in Candidates(devs, g) <=> c[j].sink = g /\ ~ KeepsAt(n, c, j)
    BY <1>1, <1>2, <2>1
  <2>3. \A d \in Candidates(devs, g) : \E j \in 1..n : d = c[j]
    BY <1>1, <2>1
  <2> QED
    BY <2>2, <2>3
<1>5. c[k] \in Candidates(devs, g)
  BY <1>4
<1>6. (\A e \in Claimants(devs, g) : ~ Keeps(devs, e)) <=> \A j \in 1..n : b[j].source # g
  <2>1. (\A e \in Claimants(devs, g) : ~ Keeps(devs, e))
            <=> \A j \in 1..n : c[j].source = g => ~ KeepsAt(n, c, j)
    BY <1>1, <1>2 DEF Claimants
  <2>2. \A j \in 1..n : b[j].source = g <=> c[j].source = g /\ KeepsAt(n, c, j)
    BY <1>1, <1>3
  <2> QED
    BY <2>1, <2>2
<1>7. (\A e \in Candidates(devs, g) \ {c[k]} : Prefer(c[k], e))
          <=> \A j \in 1..n : j # k /\ b[j].sink = b[k].sink /\ b[j].source = NONE
                             => Prefer(b[k], b[j])
  <2>1. (\A e \in Candidates(devs, g) \ {c[k]} : Prefer(c[k], e))
          <=> \A j \in 1..n : j # k /\ c[j].sink = g /\ ~ KeepsAt(n, c, j) => Prefer(c[k], c[j])
    BY <1>1, <1>4
  <2>2. \A j \in 1..n : Prefer(c[k], c[j]) <=> Prefer(b[k], b[j])
    BY <1>1, <1>3, PreferOrder
  <2> QED
    BY <1>3, <2>1, <2>2
<1>8. b[k].source = NONE /\ b[k].sink = g
  BY <1>3
<1> QED
  BY <1>5, <1>6, <1>7, <1>8 DEF Elected, ElectedAt, devs, b

LEMMA RoleRule ==
    ASSUME NEW n \in Nat, NEW c \in Configs(n), NEW k \in 1..n
    PROVE  AssignGroups(c)[k] = Role(Range(c), c[k])
<1> DEFINE b == DropUnheard(AfterClaims(c))
<1>1. b \in Configs(n)
  BY HeardKept
<1>2. AssignGroups(c)[k] = IF ElectedAt(n, b, k) THEN Promote(b[k], b[k].sink) ELSE b[k]
  BY <1>1, Assigned DEF AssignGroups
<1>3. /\ c[k] \in Record /\ b[k].sink = c[k].sink
      /\ KeepsAt(n, c, k) => b[k] = c[k] /\ b[k].source # NONE
      /\ ~ KeepsAt(n, c, k) => b[k] = Mute(c[k]) /\ b[k].source = NONE
  BY LeftOver
<1>4. CASE KeepsAt(n, c, k)
  BY <1>2, <1>3, <1>4, KeepsRule DEF ElectedAt, Role
<1>5. CASE ~ KeepsAt(n, c, k)
  <2>1. Elected(Range(c), c[k]) <=> ElectedAt(n, b, k)
    BY <1>5, ElectedRule
  <2>2. ~ Keeps(Range(c), c[k])
    BY <1>5, KeepsRule
  <2>3. Promote(Mute(c[k]), c[k].sink)
            = [c[k] EXCEPT !.source = c[k].sink, !.time = ELECTED_TIME]
    BY <1>3 DEF Promote, Mute, Record
  <2> HIDE DEF b
  <2> QED
    BY <1>2, <1>3, <1>5, <2>1, <2>2, <2>3 DEF Role, Mute
<1> QED
  BY <1>4, <1>5

(* What is left of a device: it keeps its name and its room, and sources what it
   claimed, the group it listens to, or nothing. *)
LEMMA RoleShape ==
    ASSUME NEW n \in Nat, NEW c \in Configs(n)
    PROVE  /\ AssignGroups(c) \in Configs(n)
           /\ \A k \in 1..n :
                 LET r == AssignGroups(c)[k]
                 IN  /\ r.id = c[k].id /\ r.sink = c[k].sink /\ r.signal = c[k].signal
                     /\ r.source \in {c[k].source, c[k].sink, NONE}
                     /\ r.time \in {c[k].time, ELECTED_TIME}
<1> DEFINE b == DropUnheard(AfterClaims(c))
           r == AssignGroups(c)
<1>1. /\ b \in Configs(n) /\ r \in [1..n -> Record]
      /\ \A k \in 1..n : r[k] = IF ElectedAt(n, b, k) THEN Promote(b[k], b[k].sink) ELSE b[k]
  BY HeardKept, Assigned DEF AssignGroups
<1>2. \A k \in 1..n :
         /\ c[k] \in Record /\ b[k] \in Record /\ b[k].id = c[k].id
         /\ b[k] = c[k] \/ b[k] = Mute(c[k])
  BY LeftOver
<1> HIDE DEF b, r
<1>3. ASSUME NEW k \in 1..n
      PROVE  /\ b[k].sink = c[k].sink /\ b[k].signal = c[k].signal /\ b[k].time = c[k].time
             /\ b[k].source \in {c[k].source, NONE}
  BY <1>2, Muted
<1>4. ASSUME NEW k \in 1..n
      PROVE  /\ r[k].id = c[k].id /\ r[k].sink = c[k].sink /\ r[k].signal = c[k].signal
             /\ r[k].source \in {c[k].source, c[k].sink, NONE}
             /\ r[k].time \in {c[k].time, ELECTED_TIME}
  <2>1. CASE ElectedAt(n, b, k)
    <3> DEFINE g == b[k].sink
               up == Promote(b[k], g)
    <3>1. r[k] = up /\ g \in Int /\ b[k] \in Record
      BY <1>1, <1>2, <2>1 DEF Record
    <3>2. /\ up.source = g /\ up.id = b[k].id /\ up.sink = b[k].sink
          /\ up.signal = b[k].signal /\ up.time = ELECTED_TIME
      BY <3>1, Promoted
    <3> HIDE DEF up
    <3> QED
      BY <1>2, <1>3, <3>1, <3>2
  <2>2. CASE ~ ElectedAt(n, b, k)
    BY <1>1, <1>2, <1>3, <2>2
  <2> QED
    BY <2>1, <2>2
<1>5. Distinct(n, r)
  BY <1>4 DEF Configs, Distinct
<1> QED
  BY <1>1, <1>4, <1>5 DEF Configs, r

(* The loops compute the rules, whatever the order of the devices. *)
LEMMA LoopsAreRules ==
    ASSUME NEW n \in Nat, NEW c \in Configs(n)
    PROVE  Range(AssignGroups(c)) = Rules(Range(c))
<1>1. DOMAIN c = 1..n /\ DOMAIN AssignGroups(c) = 1..n
  BY RoleShape DEF Configs
<1>2. \A k \in 1..n : AssignGroups(c)[k] = Role(Range(c), c[k])
  BY RoleRule
<1> QED
  BY <1>1, <1>2 DEF Rules, Range

-----------------------------------------------------------------------------
(* What a round leaves. *)
Settled(n, c) ==
    /\ \A i, j \in 1..n : c[i].source = c[j].source /\ c[i].source # NONE => i = j
    /\ \A i \in 1..n : c[i].source # NONE => \E j \in 1..n : c[j].sink = c[i].source
    /\ \A i, j \in 1..n : c[i].sink = c[j].sink /\ c[j].source = NONE =>
           \E k \in 1..n : c[k].source = c[i].sink

LEMMA SettledRule ==
    ASSUME NEW n \in Nat, cfg \in Configs(n), Settled(n, cfg)
    PROVE  WellFormed
<1>1. Devs = {cfg[j] : j \in 1..n}
  BY DEF Devs, Range, Configs
<1> QED
  BY <1>1 DEF WellFormed, Settled, Claimants, Listeners

LEMMA RoundSettles ==
    ASSUME NEW n \in Nat, NEW c \in Configs(n)
    PROVE  Settled(n, AssignGroups(c))
<1> DEFINE b == DropUnheard(AfterClaims(c))
           r == AssignGroups(c)
<1>1. /\ b \in Configs(n)
      /\ \A k \in 1..n : r[k] = IF ElectedAt(n, b, k) THEN Promote(b[k], b[k].sink) ELSE b[k]
  BY HeardKept, Assigned DEF AssignGroups
<1>2. \A k \in 1..n : /\ c[k] \in Record /\ b[k] \in Record /\ b[k].sink = c[k].sink
                      /\ b[k].sink # NONE
                      /\ b[k].source # NONE => KeepsAt(n, c, k) /\ b[k] = c[k]
  BY LeftOver DEF Record
<1>3. \A k \in 1..n : r[k].sink = b[k].sink
  BY <1>2, RoleShape
<1> HIDE DEF b, r
<1>4. \A k \in 1..n : ElectedAt(n, b, k) => r[k].source = b[k].sink
  <2> SUFFICES ASSUME NEW k \in 1..n, ElectedAt(n, b, k) PROVE r[k].source = b[k].sink
    OBVIOUS
  <2>1. r[k] = Promote(b[k], b[k].sink) /\ b[k].sink \in Int
    BY <1>1, <1>2 DEF Record
  <2> QED
    BY <1>2, <2>1, Promoted
<1>5. \A k \in 1..n : ~ ElectedAt(n, b, k) => r[k] = b[k]
  BY <1>1
<1>6. ASSUME NEW i \in 1..n, NEW j \in 1..n, r[i].source = r[j].source, r[i].source # NONE
      PROVE  i = j
  <2> SUFFICES ASSUME i # j PROVE FALSE
    OBVIOUS
  <2>1. b[i].id # b[j].id /\ c[i].id # c[j].id
    BY <1>1 DEF Configs, Distinct
  <2>2. CASE ElectedAt(n, b, i) /\ ElectedAt(n, b, j)
    <3>1. Prefer(b[i], b[j]) /\ Prefer(b[j], b[i])
      BY <1>4, <1>6, <2>2 DEF ElectedAt
    <3> QED
      BY <1>2, <2>1, <3>1, PreferOrder
  <2>3. CASE ElectedAt(n, b, i) /\ ~ ElectedAt(n, b, j)
    BY <1>4, <1>5, <1>6, <2>3 DEF ElectedAt
  <2>4. CASE ~ ElectedAt(n, b, i) /\ ElectedAt(n, b, j)
    BY <1>4, <1>5, <1>6, <2>4 DEF ElectedAt
  <2>5. CASE ~ ElectedAt(n, b, i) /\ ~ ElectedAt(n, b, j)
    <3>1. KeepsAt(n, c, i) /\ KeepsAt(n, c, j) /\ c[i].source = c[j].source
      BY <1>2, <1>5, <1>6, <2>5
    <3>2. Loses(c[i], c[j]) /\ Loses(c[j], c[i])
      BY <3>1 DEF KeepsAt, KeeperAt
    <3> QED
      BY <1>2, <2>1, <3>2, LosesOrder
  <2> QED
    BY <2>2, <2>3, <2>4, <2>5
<1>7. ASSUME NEW i \in 1..n, r[i].source # NONE PROVE \E j \in 1..n : r[j].sink = r[i].source
  <2>1. CASE ElectedAt(n, b, i)
    BY <1>3, <1>4, <2>1
  <2>2. CASE ~ ElectedAt(n, b, i)
    <3>1. r[i] = b[i] /\ b[i] = c[i] /\ KeepsAt(n, c, i)
      BY <1>2, <1>5, <1>7, <2>2
    <3>2. PICK j \in 1..n : c[j].sink = c[i].source
      BY <3>1 DEF KeepsAt
    <3> QED
      BY <1>2, <1>3, <3>1, <3>2
  <2> QED
    BY <2>1, <2>2
<1>8. ASSUME NEW i \in 1..n, NEW j \in 1..n, r[i].sink = r[j].sink, r[j].source = NONE,
             \A k \in 1..n : r[k].source # r[i].sink
      PROVE  FALSE
  <2> DEFINE S == {k \in 1..n : b[k].sink = b[j].sink /\ b[k].source = NONE}
  <2>1. ~ ElectedAt(n, b, j)
    BY <1>2, <1>4, <1>8
  <2>2. j \in S /\ S \in SUBSET (1..n)
    BY <1>5, <1>8, <2>1
  <2>3. PICK k \in S : \A m \in S \ {k} : Prefer(b[k], b[m])
    BY <1>1, <2>2, BestListener
  <2>4. k \in 1..n /\ b[k].sink = b[j].sink /\ b[k].source = NONE
    BY <2>3
  <2>5. \A m \in 1..n : b[m].source # b[j].sink
    <3> SUFFICES ASSUME NEW m \in 1..n, b[m].source = b[j].sink PROVE FALSE
      OBVIOUS
    <3>1. ~ ElectedAt(n, b, m)
      BY <1>2 DEF ElectedAt
    <3> QED
      BY <1>3, <1>5, <1>8, <3>1
  <2>6. ElectedAt(n, b, k)
    BY <2>3, <2>4, <2>5 DEF ElectedAt
  <2> QED
    BY <1>3, <1>4, <1>8, <2>4, <2>6
<1> QED
  BY <1>6, <1>7, <1>8 DEF Settled, r

(* A settled configuration is a fixed point of the rules, hence of the loops. *)
LEMMA SettledStays ==
    ASSUME NEW n \in Nat, NEW c \in Configs(n), Settled(n, c)
    PROVE  AssignGroups(c) = c
<1>1. ASSUME NEW k \in 1..n PROVE AssignGroups(c)[k] = c[k]
  <2> DEFINE devs == Range(c)
  <2>1. AssignGroups(c)[k] = Role(devs, c[k])
    BY RoleRule
  <2>2. \A j \in 1..n : Keeps(devs, c[j]) <=> KeepsAt(n, c, j)
    BY KeepsRule
  <2>3. \A j \in 1..n : KeepsAt(n, c, j) <=> c[j].source # NONE
    BY DEF Settled, KeepsAt, KeeperAt
  <2>4. devs = {c[j] : j \in 1..n} /\ c[k] \in Record /\ c[k].sink # NONE
    BY DEF Range, Configs, Record
  <2> HIDE DEF devs
  <2>5. CASE c[k].source # NONE
    BY <2>1, <2>2, <2>3, <2>5 DEF Role
  <2>6. CASE c[k].source = NONE
    <3>1. PICK j \in 1..n : c[j].source = c[k].sink
      BY <2>6 DEF Settled
    <3>2. c[j] \in Claimants(devs, c[k].sink) /\ Keeps(devs, c[j])
      BY <2>2, <2>3, <2>4, <3>1 DEF Claimants
    <3>3. ~ Elected(devs, c[k]) /\ ~ Keeps(devs, c[k])
      BY <2>2, <2>3, <2>6, <3>2 DEF Elected
    <3>4. Role(devs, c[k]) = Mute(c[k])
      BY <3>3 DEF Role, Mute
    <3> QED
      BY <2>1, <2>4, <2>6, <3>4, Muted
  <2> QED
    BY <2>5, <2>6
<1>2. c \in [1..n -> Record] /\ AssignGroups(c) \in [1..n -> Record]
  BY RoleShape DEF Configs
<1> QED
  BY <1>1, <1>2

-----------------------------------------------------------------------------
(* The inductive invariant of the rounds: a configuration of distinct devices,
   settled once a round has been run. *)
RoundsInv ==
    /\ RulesTypeOK
    /\ \E n \in Nat : cfg \in Configs(n) /\ (round >= 1 => Settled(n, cfg))

LEMMA RoundsInit == RulesInit => RoundsInv
<1> SUFFICES ASSUME RulesInit PROVE RoundsInv
  OBVIOUS
<1> DEFINE n == Cardinality(Ids)
<1>1. n \in Nat
  BY RulesAssumption, FS_CardinalityType
<1> HIDE DEF n
<1> DEFINE Described(f) == \A i \in Ids : f[i] \in Device(i)
           Listed(f, p) == cfg = [k \in DOMAIN p |-> f[p[k]]]
<1>d. PICK f : Described(f) /\ \E p \in Orders : Listed(f, p)
  BY DEF RulesInit
<1> HIDE DEF Described, Listed
<1>p. PICK p \in Orders : Listed(f, p)
  BY <1>d
<1>2. /\ p \in [1..n -> Ids]
      /\ \A i, j \in 1..n : i # j => p[i] # p[j]
      /\ cfg = [k \in 1..n |-> f[p[k]]]
  <2>1. p \in [1..n -> Ids] /\ (\A i, j \in 1..n : i # j => p[i] # p[j])
    BY DEF Orders, n
  <2>2. DOMAIN p = 1..n
    BY <2>1
  <2> QED
    BY <1>p, <2>1, <2>2 DEF Listed
<1>3. \A k \in 1..n : p[k] \in Ids /\ cfg[k] \in Device(p[k])
  BY <1>d, <1>2 DEF Described
<1>4. \A i \in Ids : i \in Int /\ i # 0
  BY RulesAssumption
<1>5. GroupNames \subseteq Int \ {NONE} /\ NONE \in Int /\ Times \subseteq Int /\ Signals \subseteq Int
  BY RulesAssumption DEF NONE
<1>6. \A k \in 1..n : cfg[k] \in Record /\ cfg[k].id = p[k]
  BY <1>3, <1>4, <1>5 DEF Device, Record
<1>7. cfg \in Configs(n)
  BY <1>2, <1>6 DEF Configs, Distinct
<1>8. RulesTypeOK
  <2>1. round \in 0..2 /\ DOMAIN cfg = 1..n
    BY <1>2 DEF RulesInit
  <2>2. \A k \in 1..n : cfg[k] \in [id : Ids, source : GroupNames \cup {NONE},
                 sink : GroupNames, signal : Signals, time : Times \cup {ELECTED_TIME}]
    BY <1>3 DEF Device
  <2> QED
    BY <2>1, <2>2 DEF RulesTypeOK
<1>9. ~ (round >= 1)
  BY DEF RulesInit
<1> QED
  BY <1>1, <1>7, <1>8, <1>9 DEF RoundsInv

LEMMA RoundsNext == RoundsInv /\ [Round]_rulesVars => RoundsInv'
<1> SUFFICES ASSUME RoundsInv, [Round]_rulesVars PROVE RoundsInv'
  OBVIOUS
<1>1. CASE UNCHANGED rulesVars
  BY <1>1 DEF RoundsInv, RulesTypeOK, rulesVars
<1>2. CASE Round
  <2>1. PICK n \in Nat : cfg \in Configs(n)
    BY DEF RoundsInv
  <2>2. cfg' = AssignGroups(cfg)
    BY <1>2 DEF Round
  <2>3. cfg' \in Configs(n) /\ Settled(n, cfg')
    BY <2>1, <2>2, RoleShape, RoundSettles
  <2>4. round' \in 0..2
    BY <1>2 DEF Round, RoundsInv, RulesTypeOK
  <2>5. DOMAIN cfg = 1..n /\ DOMAIN cfg' = 1..n /\ \A k \in 1..n : cfg'[k] \in Record
    BY <2>1, <2>3 DEF Configs
  <2> DEFINE Good == [id : Ids, source : GroupNames \cup {NONE}, sink : GroupNames,
                      signal : Signals, time : Times \cup {ELECTED_TIME}]
  <2>6. ASSUME NEW k \in 1..n PROVE cfg'[k] \in Good
    <3> DEFINE r == cfg'[k]
    <3>1. /\ r.id = cfg[k].id /\ r.sink = cfg[k].sink /\ r.signal = cfg[k].signal
          /\ r.source \in {cfg[k].source, cfg[k].sink, NONE}
          /\ r.time \in {cfg[k].time, ELECTED_TIME}
      BY <2>1, <2>2, RoleShape
    <3>2. cfg[k] \in Good
      BY <2>5 DEF RoundsInv, RulesTypeOK
    <3>3. r \in Record
      BY <2>5
    <3> HIDE DEF r
    <3>4. r \in Good
      BY <3>1, <3>2, <3>3 DEF Record
    <3> QED
      BY <3>4 DEF r
  <2> QED
    BY <2>3, <2>4, <2>5, <2>6 DEF RoundsInv, RulesTypeOK
<1> QED
  BY <1>1, <1>2

(* What a step of the rounds does, in a configuration the invariant allows. *)
LEMMA RoundStep ==
    ASSUME RoundsInv, [Round]_rulesVars
    PROVE  /\ [Range(cfg') = Rules(Devs)]_rulesVars
           /\ [round >= 1 => cfg' = cfg]_rulesVars
<1>1. PICK n \in Nat : cfg \in Configs(n) /\ (round >= 1 => Settled(n, cfg))
  BY DEF RoundsInv
<1>2. CASE Round
  <2>1. cfg' = AssignGroups(cfg)
    BY <1>2 DEF Round
  <2> QED
    BY <1>1, <2>1, LoopsAreRules, SettledStays DEF Devs
<1> QED
  BY <1>2

LEMMA RoundsWellFormed == RoundsInv => WellFormed
<1> SUFFICES ASSUME RoundsInv PROVE WellFormed
  OBVIOUS
<1>1. PICK n \in Nat : cfg \in Configs(n) /\ (round >= 1 => Settled(n, cfg))
  BY DEF RoundsInv
<1>2. CASE ~ (round >= 1)
  BY <1>2 DEF WellFormed
<1>3. CASE round >= 1
  BY <1>1, <1>3, SettledRule
<1> QED
  BY <1>2, <1>3
=============================================================================
