-------------------------- MODULE ReferenceMonitor --------------------------
(***************************************************************************)
(* What broker/broker.py promises to the rest of the system, with tokens,  *)
(* clocks and hashes abstracted away.  Callers hold numbered grants.  The  *)
(* monitor answers one request at a time and writes every answer down:     *)
(*   - it admits only a request that is declared and that the policy       *)
(*     accepts in the current phase, only against a live grant, and a      *)
(*     declassification only through a registered declassifier;            *)
(*   - the phase moves with an admission and never with a refusal;         *)
(*   - any answer, a refusal too, voids every grant that was outstanding,  *)
(*     and a grant never comes back to life.                               *)
(***************************************************************************)
EXTENDS PolicyAutomaton

CONSTANTS Manifests, Effects, Policy, Registered,
          UsesEnvelope, UsesPolicy, UsesGrants

VARIABLES decisions,    \* the answers so far, oldest first
          phase,        \* where the policy stands
          handed,       \* how many grants were handed out
          live          \* the grants that can still authorise a request

monitorVars == <<decisions, phase, handed, live>>

Refused == [admitted |-> FALSE]

Admitted(m, e, g) ==
    [admitted |-> TRUE, manifest |-> m, effect |-> e, grant |-> g]

MonitorInit ==
    /\ decisions = <<>>
    /\ phase = Policy.initial
    /\ handed = 0
    /\ live = {}

Grant ==
    /\ handed' = handed + 1
    /\ live' = live \cup {handed'}
    /\ UNCHANGED <<decisions, phase>>

\* Grants run out with time.
Lapse ==
    /\ live' \subseteq live
    /\ UNCHANGED <<decisions, phase, handed>>

Refuse ==
    /\ decisions' = Append(decisions, Refused)
    /\ live' = {}
    /\ UNCHANGED <<phase, handed>>

AdmitRequest(m, e, g) ==
    /\ UsesEnvelope => effect_in_envelope(e, m)
    /\ UsesGrants => g \in live
    /\ UsesPolicy => accepts(Policy, step(Policy, phase, e))
    /\ e.kind = "Decl" => e.primitive \in Registered
    /\ phase' = IF UsesPolicy THEN step(Policy, phase, e) ELSE phase
    /\ decisions' = Append(decisions, Admitted(m, e, g))
    /\ live' = {}
    /\ UNCHANGED handed

\* A new session starts the policy over; nothing written is lost.
NewSession ==
    /\ phase' = Policy.initial
    /\ UNCHANGED <<decisions, handed, live>>

MonitorNext ==
    \/ Grant
    \/ Lapse
    \/ Refuse
    \/ \E m \in Manifests, e \in Effects, g \in 0 .. handed : AdmitRequest(m, e, g)
    \/ NewSession

MonitorSpec == MonitorInit /\ [][MonitorNext]_monitorVars
=============================================================================
