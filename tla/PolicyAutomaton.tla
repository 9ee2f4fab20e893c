-------------------------- MODULE PolicyAutomaton --------------------------
(***************************************************************************)
(* The safety policy A_P = (Q, Sigma, delta, q0, F) of broker/automaton.py *)
(* and the default policy the Broker builds when it is given none.         *)
(*                                                                         *)
(* A policy is a record: transitions is a sequence of [src, pred, dst] with*)
(* pred the set of effects the predicate accepts, tried in order.          *)
(***************************************************************************)
EXTENDS Manifest, FiniteSets

\* step() returning None.
NoState == "none"

\* The transitions that fire for eff, by index.
Enabled(policy, current, eff) ==
    {i \in DOMAIN policy.transitions :
        /\ policy.transitions[i].src = current
        /\ eff \in policy.transitions[i].pred}

\* The first matching transition decides.
step(policy, current, eff) ==
    LET hits == Enabled(policy, current, eff) IN
    IF hits = {} THEN NoState
    ELSE policy.transitions[CHOOSE i \in hits : \A j \in hits : i <= j].dst

accepts(policy, current) == current \in policy.accepting

\* The states a run of the policy can visit.
StatesOf(policy) ==
    {policy.initial} \cup {policy.transitions[i].dst : i \in DOMAIN policy.transitions}

-----------------------------------------------------------------------------
(* The default policy. *)

ALLOWED_MUT_DESTINATIONS == {"alerts.partner.com"}

is_obs  == {e \in Effect : e.kind = "Obs"}
is_decl == {e \in Effect : e.kind = "Decl"}
is_pure == {e \in Effect : e.kind = "Pure"}
is_mut_admissible == {e \in Effect : /\ e.kind = "Mut"
                                     /\ leq(e.label, BOTTOM)
                                     /\ e.target \in ALLOWED_MUT_DESTINATIONS}

\* The four transitions out of s.  Every other effect has none.
TransitionsFrom(s) ==
    << [src |-> s, pred |-> is_obs,            dst |-> "obs"],
       [src |-> s, pred |-> is_decl,           dst |-> s],
       [src |-> s, pred |-> is_pure,           dst |-> s],
       [src |-> s, pred |-> is_mut_admissible, dst |-> "mut"] >>

default_automaton ==
    [transitions |-> TransitionsFrom("init") \o TransitionsFrom("obs")
                                             \o TransitionsFrom("mut"),
     initial     |-> "init",
     accepting   |-> {"init", "obs", "mut"}]
=============================================================================
