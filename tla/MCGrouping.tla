----------------------------- MODULE MCGrouping -----------------------------
(***************************************************************************)
(* Runs the consensus over every configuration of a few devices, in every  *)
(* order a peer table can give them, and over its own result again.        *)
(***************************************************************************)
EXTENDS GroupRules

CONSTANTS Ids,        \* device ids
          GroupNames, \* group names devices listen to or source
          Times,      \* source timestamps of voluntary claims
          Signals     \* wifi signal levels

ASSUME RulesAssumption ==
    /\ IsFiniteSet(Ids) /\ Ids \subseteq Nat \ {0}
    /\ GroupNames \subseteq Nat \ {NONE}
    /\ Times \subseteq Int /\ Signals \subseteq Int

VARIABLES cfg,       \* the configuration, as one node holds it
          round      \* consensus rounds run so far, counted up to 2

rulesVars == <<cfg, round>>

Device(i) == [id : {i}, source : GroupNames \cup {NONE}, sink : GroupNames,
              signal : Signals, time : Times]

(* RN_MAX_PEERS slots in use, in any order. *)
Orders == {p \in [1..Cardinality(Ids) -> Ids] :
             \A i, j \in 1..Cardinality(Ids) : i # j => p[i] # p[j]}

Devs == Range(cfg)

RulesInit ==
    /\ \E f \in {g \in [Ids -> UNION {Device(i) : i \in Ids}] :
                    \A i \in Ids : g[i] \in Device(i)} :
         \E p \in Orders : cfg = [k \in DOMAIN p |-> f[p[k]]]
    /\ round = 0

(* A daemon runs it again and again; the third round and on count as the second. *)
Round ==
    /\ cfg' = AssignGroups(cfg)
    /\ round' = IF round < 2 THEN round + 1 ELSE 2

RulesTypeOK ==
    /\ \A k \in DOMAIN cfg : cfg[k] \in [id : Ids, source : GroupNames \cup {NONE},
                                         sink : GroupNames, signal : Signals,
                                         time : Times \cup {ELECTED_TIME}]
    /\ round \in 0..2

(* Whatever order a node's peer table puts the devices in, the in-place loops
   give each device exactly the role the three documented rules give it; hence
   all nodes with the same information agree without an arbiter. *)
OrderIndependent == [][Range(cfg') = Rules(Devs)]_rulesVars

(* Running the consensus over its own result changes nothing: an election is
   not overturned, and does not start another one, the next time round. *)
Stable == [][round >= 1 => cfg' = cfg]_rulesVars

(* After a round no group has two sources, no source is without a listener,
   and a group is left silent only if each of its listeners sources another. *)
WellFormed ==
    round >= 1 =>
        /\ \A d, e \in Devs : d.source = e.source /\ d.source # NONE => d = e
        /\ \A d \in Devs : d.source # NONE => Listeners(Devs, d.source) # {}
        /\ \A d \in Devs : Claimants(Devs, d.sink) = {} =>
               \A e \in Listeners(Devs, d.sink) : e.source # NONE
=============================================================================
