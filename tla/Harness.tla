------------------------------- MODULE Harness -------------------------------
(***************************************************************************)
(* run_baseline of experiments/common.py: one system is given cases, one   *)
(* after the other, and every decided case is accounted for.  A system     *)
(* with a CVM of its own submits the cell to it, with the layers that are  *)
(* switched on for that system.  Between cases the log of the full system  *)
(* is the object of the tampering study (AuditStudy).                      *)
(*                                                                         *)
(* The shadow outbox is empty before and after a case, so what decide()    *)
(* writes is all it ever holds.                                            *)
(***************************************************************************)
EXTENDS Accounting, AuditStudy, PolicyAutomaton

CONSTANTS
    Systems,            \* the systems compared, by name
    Cases,              \* the cases they are given
    Manifests,          \* the manifests that occur
    Policy, Registered, \* as in Broker
    Worker,             \* the one thread of the experiment
    MaxCases, MaxReceipts, MaxTokens, MaxTime, MaxCallTime     \* bounds

VARIABLES
    state, issued, now, granted, resetAt, manifestCache, sourceCache, hwm,
    run, results, owner, performed,     \* the CVM of the system, see CVM
    system,             \* the system under test
    stage,              \* how far the case is
    cases,              \* the cases it is still to be given
    current,            \* the case it is at
    baseline,           \* chain_baseline
    history             \* outcomes, and history of what they are about

brokerLocals == <<state, issued, now, granted, resetAt>>
cvmLocals    == <<manifestCache, sourceCache, hwm, run, results, owner, performed>>
caseVars     == <<system, stage, cases, current, baseline, history>>
harnessVars  == <<log, brokerLocals, cvmLocals, snapshot, kind, caseVars>>

\* A CVM with the given layers; its audit log is the log that is studied.  The
\* clock matters to the study only: it moves for the systems with all layers.
Cvm(layers) == INSTANCE CVM WITH
    receipts         <- log,
    EnableStatic     <- layers.static,
    EnableAutomaton  <- layers.auto,
    EnableKernel     <- layers.kernel,
    EnableIfc        <- layers.ifc,
    EnableEnvelope   <- layers.envelope,
    EnableCapability <- layers.capability,
    Cells <- {}, Effects <- {}, ForeignTokens <- {},
    SignKey <- "key", TTL <- 1, MaxCells <- MaxCases,
    MaxCallTime <- IF layers = AllLayers THEN MaxCallTime ELSE 0

LayersUsed == {LayersOf[s] : s \in DOMAIN LayersOf}

\* One thread; destinations and calls are lists; no cell raises out of
\* submit_cell (none of the suites is that deep); kv_get observes and nothing
\* else (worker.py:121); the source determines the IR; a manifest has a ceiling.
ASSUME HarnessAssumption ==
    /\ MaxCases \in Nat
    /\ \A v, w \in Worker : v = w
    /\ \A c \in Cases : c.dests \in Seq(STRING)
    /\ \A s \in DOMAIN LayersOf, c, d \in Cases :
          LET cell == CellGiven(s, c)
              other == CellGiven(s, d) IN
          /\ cell.calls \in Seq(ToSet(cell.calls))
          /\ cell.form \in {"pycap", "python", "broken"}
          /\ \A i \in DOMAIN cell.calls :
                cell.calls[i].primitive = "kv_get" => cell.calls[i].kind # "Mut"
          /\ cell.source = other.source => cell.ir = other.ir
          /\ \A lb \in Label : cell.verdict[lb] # Rejected
                                => cell.verdict[lb].label_ceiling \in Label

HarnessInit ==
    /\ system \in Systems
    /\ cases \in [1 .. MaxCases -> Cases]
    /\ StudyInit
    /\ Cvm(AllLayers)!CvmInit
    /\ stage = "ready" /\ current = "none" /\ baseline = 0 /\ history = <<>>

\* Mutant of Begin: chain_baseline is not remembered.
BeginAtZero ==
    /\ stage = "ready" /\ kind = "none" /\ cases # <<>>
    /\ IF HasCvm(system)
       THEN \E l \in LayersUsed : l = LayersOf[system] /\ Cvm(l)!ResetSession
       ELSE UNCHANGED <<log, brokerLocals, cvmLocals>>
    /\ baseline' = 0
    /\ current' = Head(cases) /\ cases' = Tail(cases)
    /\ stage' = IF Submits(system, Head(cases)) THEN "submit" ELSE "decide"
    /\ UNCHANGED <<snapshot, kind, system, history>>

\* A session of its own for every case; the caches and the log go on.
Begin ==
    /\ stage = "ready" /\ kind = "none" /\ cases # <<>>
    /\ IF HasCvm(system)
       THEN \E l \in LayersUsed : l = LayersOf[system] /\ Cvm(l)!ResetSession
       ELSE UNCHANGED <<log, brokerLocals, cvmLocals>>
    /\ baseline' = IF HasCvm(system) THEN Len(log) ELSE 0
    /\ current' = Head(cases) /\ cases' = Tail(cases)
    /\ stage' = IF Submits(system, Head(cases)) THEN "submit" ELSE "decide"
    /\ UNCHANGED <<snapshot, kind, system, history>>

SubmitCell(w) ==
    /\ stage = "submit"
    /\ \E l \in LayersUsed :
          l = LayersOf[system] /\ Cvm(l)!Submit(w, CellGiven(system, current))
    /\ stage' = "running"
    /\ UNCHANGED <<snapshot, kind, system, cases, current, baseline, history>>

RunCell(w) ==
    /\ stage = "running"
    /\ \E l \in LayersUsed : l = LayersOf[system] /\ Cvm(l)!Step(w)
    /\ UNCHANGED <<snapshot, kind, caseVars>>

Since(n) == SubSeq(log, n + 1, Len(log))

\* decide() returns, the case is accounted for.
Score(w) ==
    /\ stage \in {"decide", "running"} /\ run[w].at = "idle"
    /\ LET submitted == stage = "running"
           last == results[Len(results)]
           d    == decide(system, current, IF submitted THEN last.outcome ELSE "none") IN
       history' = Append(history,
           [case    |-> current,
            by      |-> IF submitted THEN last.by ELSE 0,
            writes  |-> d.writes,
            outcome |-> Outcome(system, current, d.decision, Since(baseline),
                                d.writes, Len(history))])
    /\ stage' = "ready" /\ current' = "none" /\ baseline' = 0
    /\ UNCHANGED <<log, brokerLocals, cvmLocals, snapshot, kind, system, cases>>

\* The study takes the log of the full system between two cases.
Study ==
    /\ system = "ESCar_full" /\ stage = "ready"
    /\ Trial \/ Restore
    /\ UNCHANGED <<brokerLocals, cvmLocals, caseVars>>

Work == \E w \in Worker : SubmitCell(w) \/ RunCell(w) \/ Score(w)

HarnessNext ==
    \/ Begin
    \/ Work
    \/ Study

\* One thread does all the work and nothing blocks it.
HarnessSpec == HarnessInit /\ [][HarnessNext]_harnessVars /\ WF_harnessVars(Work)

-----------------------------------------------------------------------------
(* Conditions on the cases *)

\* The text of the source spells one destination, as often as it likes.
OneDestination(c) == \A i, j \in DOMAIN c.dests : c.dests[i] = c.dests[j]

\* What the proxy offers, whatever the layers, and what it submits for a call
\* of a cell with manifest m.
Offered == Cvm(AllLayers)!ProxyPrimitive

EffectOfCall(m, call) ==
    [kind |-> call.kind, primitive |-> call.primitive, target |-> call.target,
     label |-> IF call.primitive \in {"http_get", "send_http"}
               THEN lookup_label(m, call.primitive, call.target, call.kind) ELSE BOTTOM]

\* The systems with all layers on.
FullSystems == {"ESCar_full", "ESCar_no_decl"}

\* What the verifier can have said of the IR of a cell the system is given.
VerdictsFor(s, suite, ir) ==
    {cell.verdict[lb] : cell \in {d \in {CellGiven(s, c) : c \in suite} : d.ir = ir},
                        lb \in Label} \ {Rejected}

\* An attack shows in every mutation it asks the proxy for: it goes where nothing
\* may go, or is high under every manifest its IR can have been given.
AttackShows(s, suite, c) ==
    LET cell == CellGiven(s, c) IN
    \A k \in DOMAIN cell.calls, m \in VerdictsFor(s, suite, cell.ir) :
        LET call == cell.calls[k] IN
        call.kind = "Mut" /\ call.primitive \in Offered =>
            \/ call.target \notin ALLOWED_MUT_DESTINATIONS
            \/ EffectOfCall(m, call).label # BOTTOM

AttacksShow(suite) ==
    \A s \in FullSystems, c \in suite : c.label = "ATTACK" => AttackShows(s, suite, c)

-----------------------------------------------------------------------------
(* Properties *)

Outcomes == [i \in DOMAIN history |-> history[i].outcome]

\* The admitted mutations of submission n, by the history of its receipts.
AdmittedBy(n) ==
    Cardinality({i \in DOMAIN owner : /\ owner[i] = n /\ i \in DOMAIN log
                                      /\ log[i].decision = "ADMIT"
                                      /\ log[i].effect.kind = "Mut"})

\* A case is charged with the mutations of its own submission and of no other,
\* although all cases share one log and only its length at the start is
\* remembered (common.py:83-84, chain_baseline).  Two systems are charged twice
\* for what they write to the outbox as well; of the others no case violates
\* the policy more often than it commits.
AccountingIsLocal ==
    kind = "none" =>
        \A i \in DOMAIN history :
            LET o == history[i].outcome IN
            /\ o.committed_mutations
                 = Larger(AdmittedBy(history[i].by), Len(history[i].writes))
            /\ system \notin {"B2_strict_seccomp", "StaticManifest_only_no_broker"} =>
                 o.policy_violating_commits <= o.committed_mutations

\* "rejected units do not reach the Broker, so they cannot be policy-violating"
\* (common.py:359-361): a case counted as rejected by the front end has no
\* commit, and where the kernel monitor is on nothing of it reached a service,
\* although the count only looks for missing receipts.
RejectedStayOut ==
    \A i \in DOMAIN history :
        history[i].outcome.pycap_rejected =>
            /\ history[i].outcome.committed_mutations = 0
            /\ LayersOf[system].kernel =>
                 \A p \in DOMAIN performed : performed[p].by # history[i].by

\* "no broker activity AND a VERIFY_REJECT / SYNTAX_REJECT decision is a
\* fail-closed rejection" (common.py:141-142): the submission of a case that is
\* counted as rejected ended in the front end.
RejectedByFrontEnd ==
    \A i \in DOMAIN history, k \in DOMAIN results :
        history[i].outcome.pycap_rejected /\ results[k].by = history[i].by =>
            results[k].outcome \in {"SYNTAX_REJECT", "VERIFY_REJECT"}

\* The rates of the several tables tell one story: the unsafe rate of all cases
\* is that of the accepted ones times the share accepted, attack success does
\* not shrink when rejected attacks are left out, completion is success, and the
\* two tables agree on whether anything unsafe happened (common.py:187-300,
\* 373-413).
AperturesAgree ==
    LET outs == Outcomes IN
    /\ Same(task_ucr_deploy(outs), Times(task_ucr_accepted(outs), accept_rate(outs)))
    /\ AtMost(asr_deploy(outs), asr_accepted(outs))
    /\ AtMost(far(outs), asr_deploy(outs))
    /\ Same(deployment_benign_completion(outs), benign_success_deploy(outs))
    /\ AtMost(benign_success_deploy(outs), Rest(overblocking(outs)))
    /\ task_ucr_deploy(outs)[1] = 0 <=> ucr(outs)[1] = 0

\* With all layers on no attack commits anything, whatever the cell does after
\* a refusal (families.py failure_desync; systems.py PcaWFull).
FullNeverViolates ==
    system \in FullSystems =>
        \A i \in DOMAIN history : history[i].outcome.policy_violating_commits = 0

\* A ghost mutation is one without a receipt (common.py:44), and UMECR counts the
\* cases that have one.  The counter cannot leave zero whatever the system does;
\* where the CVM enforces, zero is what happened: as many mutations reached a
\* service as the broker admitted.
ReportedGhostsAreTrue ==
    kind = "none" /\ system \in FullSystems =>
        \A i \in DOMAIN history :
            LET sent == {p \in DOMAIN performed : /\ performed[p].by = history[i].by
                                                  /\ performed[p].call.kind = "Mut"} IN
            /\ umec_rate(Outcomes)[1] + unit_umec_rate(Outcomes)[1] = 0
            /\ Cardinality(sent) = history[i].outcome.committed_mutations

\* Every case that is begun is scored, however its cell ends.
CasesAreScored == []<>(stage = "ready")
=============================================================================
