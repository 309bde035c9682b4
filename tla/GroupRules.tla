----------------------------- MODULE GroupRules -----------------------------
(***************************************************************************)
(* What the consensus promises, stated over the SET of devices: no order,  *)
(* no loops.  The comment above rn_assign_groups gives three rules; this   *)
(* is each of them as one definition.  MCGrouping checks that the          *)
(* in-place, order-dependent loops of Grouping compute exactly this.       *)
(***************************************************************************)
EXTENDS Integers, FiniteSets, Grouping

Claimants(devs, g) == {d \in devs : d.source = g}
Listeners(devs, g) == {d \in devs : d.sink = g}

(* The claimant of g that no other claimant beats. *)
Keeper(devs, g) ==
    CHOOSE d \in Claimants(devs, g) :
        \A e \in Claimants(devs, g) \ {d} : Loses(e, d)

(* A voluntary claim survives when it is the keeper's and somebody listens. *)
Keeps(devs, d) ==
    /\ d.source # NONE
    /\ d = Keeper(devs, d.source)
    /\ Listeners(devs, d.source) # {}

(* Listeners of g that are left without a claim of their own. *)
Candidates(devs, g) == {d \in Listeners(devs, g) : ~ Keeps(devs, d)}

(* d is elected for its group: nobody keeps the group and d is the best candidate. *)
Elected(devs, d) ==
    /\ d \in Candidates(devs, d.sink)
    /\ \A e \in Claimants(devs, d.sink) : ~ Keeps(devs, e)
    /\ \A e \in Candidates(devs, d.sink) \ {d} : Prefer(d, e)

Role(devs, d) ==
    IF Keeps(devs, d) THEN d
    ELSE IF Elected(devs, d)
         THEN [d EXCEPT !.source = d.sink, !.time = ELECTED_TIME]
         ELSE [d EXCEPT !.source = NONE]

Rules(devs) == {Role(devs, d) : d \in devs}
=============================================================================
