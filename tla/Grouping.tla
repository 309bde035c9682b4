------------------------------ MODULE Grouping ------------------------------
(***************************************************************************)
(* The multi-room consensus of replaynet: rn_assign_groups() and the       *)
(* helpers it calls, as operators over a configuration.  A configuration   *)
(* is a sequence of device records: every node puts itself first and its   *)
(* peers behind in the order of ITS peer table, so two nodes with the same *)
(* information run the same code over differently ordered sequences.       *)
(*                                                                         *)
(* Device ids are compared with strcmp; here they are positive integers    *)
(* ordered by <.  A group is named by a device id, or by the configured    *)
(* default group, which is no device's id.                                 *)
(***************************************************************************)
EXTENDS Integers, Sequences, Functions

(* RN_NONE, "sources nothing". *)
NONE == 0

(* RN_ELECTED_TIME: later than every real timestamp. *)
ELECTED_TIME == 1000

(* Same claim: both devices claim to source the same group. *)
SameClaim(cfg, i, j) ==
    /\ i # j
    /\ cfg[i].source # NONE
    /\ cfg[j].source = cfg[i].source

(* i_loses: the newer claim loses, and of two equally old ones the smaller id. *)
Loses(d, e) ==
    \/ d.time > e.time
    \/ d.time = e.time /\ d.id < e.id

(* rn_dev_prefer: stronger signal, then greater id. *)
PreferWithoutTieBreak(d, e) == d.signal >= e.signal   \* fault: equals are both better
Prefer(d, e) ==
    \/ d.signal > e.signal
    \/ d.signal = e.signal /\ d.id > e.id

Withdraw(cfg, losers) ==
    [k \in DOMAIN cfg |->
        IF k \in losers THEN [cfg[k] EXCEPT !.source = NONE] ELSE cfg[k]]

(***************************************************************************)
(* Rule 1, one pass of the outer loop: device i meets its rivals in index  *)
(* order, knocks out each one it beats, and stops at the first that beats  *)
(* it.                                                                     *)
(***************************************************************************)
ResolveClaim(cfg, i) ==
    LET rivals   == {j \in DOMAIN cfg : SameClaim(cfg, i, j)}
        stronger == {j \in rivals : Loses(cfg[i], cfg[j])}
        beaten   == {j \in rivals \ stronger : \A s \in stronger : j < s}
    IN  Withdraw(cfg, beaten \cup (IF stronger = {} THEN {} ELSE {i}))

(* rn_has_sink_for *)
HasSinkAtAll(cfg, group) == \E k \in DOMAIN cfg : cfg[k].sink # NONE   \* fault
HasSinkFor(cfg, group) == \E k \in DOMAIN cfg : cfg[k].sink = group

(* Rule 2: a source nobody listens to is dropped. *)
DropUnheard(cfg) ==
    Withdraw(cfg, {k \in DOMAIN cfg : ~ HasSinkFor(cfg, cfg[k].source)})

Sourced(cfg, group) == \E k \in DOMAIN cfg : cfg[k].source = group

(* the listeners of a group that source nothing *)
FreeOrNot(cfg, group) == {k \in DOMAIN cfg : cfg[k].sink = group}   \* fault
Free(cfg, group) == {k \in DOMAIN cfg : cfg[k].sink = group /\ cfg[k].source = NONE}

Promote(d, group) == [d EXCEPT !.source = group, !.time = ELECTED_TIME]

(***************************************************************************)
(* Rule 3, one pass of the loop: the group device i listens to, when       *)
(* nobody sources it, elects its best member that sources nothing else.    *)
(***************************************************************************)
Elect(cfg, i) ==
    LET group == cfg[i].sink
        free  == Free(cfg, group)
        best  == CHOOSE k \in free : \A m \in free \ {k} : Prefer(cfg[k], cfg[m])
    IN  IF Sourced(cfg, group) \/ free = {}
        THEN cfg
        ELSE [cfg EXCEPT ![best] = Promote(cfg[best], group)]

(* The two loops over the devices, in index order. *)
AfterClaims(cfg) ==
    LET pass[i \in 0..Len(cfg)] ==
            IF i = 0 THEN cfg ELSE ResolveClaim(pass[i - 1], i)
    IN  pass[Len(cfg)]

AfterElections(cfg) ==
    LET pass[i \in 0..Len(cfg)] == IF i = 0 THEN cfg ELSE Elect(pass[i - 1], i)
    IN  pass[Len(cfg)]

(* rn_assign_groups: the three rules, each over the whole configuration. *)
AssignGroups(cfg) == AfterElections(DropUnheard(AfterClaims(cfg)))
=============================================================================
