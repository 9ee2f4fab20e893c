-------------------------------- MODULE CVM --------------------------------
(***************************************************************************)
(* The resident CVM (runtime/cvm.py) with its workers (runtime/worker.py)  *)
(* and the kernel monitor (kernel/enforcement.py) on top of Broker: a cell *)
(* is verified or found in a cache, its calls are executed through the     *)
(* broker, and the outcome moves the high-water mark of the session.       *)
(*                                                                         *)
(* A cell is what the CVM can tell of it: its source, the hash of its IR,  *)
(* what reading it gives, the verdict the verifier gives it at either      *)
(* high-water mark, and the calls of its longest run.  Python inside the   *)
(* cell may stop after any prefix of them, by returning or by raising.     *)
(* Its form is PyCap, other Python, no Python ("broken"), Python too deep  *)
(* for the filter's recursion ("deep"), or text whose reading raises what  *)
(* is not a SyntaxError ("unreadable").                                    *)
(*                                                                         *)
(* Calls of the broker are atomic here; ConcurrentBroker takes them apart. *)
(***************************************************************************)
EXTENDS Broker

CONSTANTS
    Cells,              \* the cells that are submitted
    Worker,             \* the threads that share this CVM
    EnableStatic, EnableIfc, EnableKernel,      \* ablation knobs
    MaxCells            \* model bound: submissions

\* A call a cell makes, and the site in its manifest that declares it, or 0.
CallType == [kind : EffectKind, primitive : Primitive, target : Target, site : Nat]

\* The declaration of a call: it names the primitive, and the target or any.
Declares(m, call) ==
    /\ call.site \in DOMAIN m.effects
    /\ LET declared == m.effects[call.site] IN
       /\ declared.kind = call.kind /\ declared.primitive = call.primitive
       /\ declared.target \in {AnyTarget, call.target}

\* What the verifier says of a cell is an envelope of its declared calls at
\* either mark (Verifier, EnvelopeIsComplete), the source determines the IR, and
\* the IR the calls.
ASSUME CvmAssumption ==
    /\ {EnableStatic, EnableIfc, EnableKernel} \subseteq BOOLEAN
    /\ MaxCells \in Nat
    /\ PermissiveManifest \in Manifests
    /\ \A m \in Manifests : CeilingCovers(m)
    /\ \A c \in Cells :
          /\ c.form \in {"pycap", "python", "broken", "deep", "unreadable"}
          /\ c.verdict \in [Label -> Manifests \cup {Rejected}]
          /\ c.calls \in Seq(CallType)
          /\ \A i \in DOMAIN c.calls, lb \in Label :
                [kind |-> c.calls[i].kind, primitive |-> c.calls[i].primitive,
                 target |-> c.calls[i].target, label |-> lb] \in Effects
    /\ \A c, d \in Cells :
          /\ c.source = d.source => c.ir = d.ir
          /\ c.ir = d.ir => \A i \in DOMAIN c.calls, lb \in Label :
                c.calls[i].site # 0 /\ d.verdict[lb] # Rejected
                    => Declares(d.verdict[lb], c.calls[i])

VARIABLES
    manifestCache,      \* self._manifest_cache: IR hash -> manifest
    sourceCache,        \* self._source_cache: source -> manifest
    hwm,                \* self._session_hwm
    run,                \* the cell each thread is running and its locals
    results,            \* history: how each submission ended, in order
    owner,              \* history: which submission each receipt belongs to
    performed           \* history: what reached a service, by submission

brokerVars == <<receipts, state, issued, now, granted, resetAt>>
caches == <<manifestCache, sourceCache>>
cvmVars == <<brokerVars, caches, hwm, run, results, owner, performed>>

NoCell == [source |-> "none"]

\* The locals of submit_cell before it is called.
Idle == [at |-> "idle", cell |-> NoCell, id |-> 0, hwm |-> BOTTOM, manifest |-> Rejected,
         baseline |-> 0, next |-> 1, token |-> NoToken, joined |-> BOTTOM]

Running == {w \in Worker : run[w].at # "idle"}

CvmInit ==
    /\ Init
    /\ manifestCache = <<>> /\ sourceCache = <<>>
    /\ hwm = BOTTOM
    /\ run = [w \in Worker |-> Idle]
    /\ results = <<>> /\ owner = <<>> /\ performed = <<>>

UsesVerifier == EnableStatic /\ EnableIfc

\* Thread w goes on with these locals.
Goto(w, locals) == run' = [run EXCEPT ![w] = locals]

\* submit_cell returns an ExecResult, or raises.
Answer(w, outcome) ==
    /\ results' = Append(results,
                         [by |-> run[w].id, outcome |-> outcome, since |-> resetAt])
    /\ run' = [run EXCEPT ![w] = Idle]

-----------------------------------------------------------------------------
(* submit_cell *)

\* The source cache is asked first; a hit skips parsing and verification.
Submit(w, c) ==
    /\ run[w].at = "idle"
    /\ Len(results) + Cardinality(Running) < MaxCells
    /\ LET new == [Idle EXCEPT !.at = "verify", !.cell = c, !.hwm = hwm,
                               !.id = Len(results) + Cardinality(Running) + 1] IN
       Goto(w, IF UsesVerifier /\ c.source \in DOMAIN sourceCache
               THEN [new EXCEPT !.at = "start", !.manifest = sourceCache[c.source]]
               ELSE new)
    /\ UNCHANGED <<brokerVars, caches, hwm, results, owner, performed>>

Parses(c) == c.form = "pycap" \/ (c.form \in {"python", "deep"} /\ ~EnableStatic)

\* Only SyntaxError and PyCapSyntaxError are caught around the parser and the
\* filter: any other exception leaves submit_cell.
Escapes(c) == c.form = "unreadable" \/ (c.form = "deep" /\ EnableStatic)

\* Mutant of KnownManifest: the manifest cache is never hit.
KnownManifestNever(c) == c.verdict[hwm]

\* The manifest cache is asked by IR hash before the verifier runs.
KnownManifest(c) ==
    IF c.ir \in DOMAIN manifestCache THEN manifestCache[c.ir] ELSE c.verdict[hwm]

Verify(w) ==
    /\ run[w].at = "verify"
    /\ LET c == run[w].cell IN
       \/ /\ Escapes(c)
          /\ Answer(w, "RAISED")
       \/ /\ ~Escapes(c) /\ ~Parses(c)
          /\ Answer(w, "SYNTAX_REJECT")
       \/ /\ Parses(c) /\ UsesVerifier
          /\ KnownManifest(c) = Rejected
          /\ Answer(w, "VERIFY_REJECT")
       \/ /\ Parses(c) /\ UsesVerifier
          /\ KnownManifest(c) # Rejected
          /\ Goto(w, [run[w] EXCEPT
                !.at = IF c.ir \in DOMAIN manifestCache THEN "file" ELSE "store",
                !.manifest = KnownManifest(c)])
          /\ UNCHANGED results
       \/ /\ Parses(c) /\ ~UsesVerifier
          /\ Goto(w, [run[w] EXCEPT !.at = "start", !.manifest = PermissiveManifest])
          /\ UNCHANGED results
    /\ UNCHANGED <<brokerVars, caches, hwm, owner, performed>>

\* The cache with m under key.
Put(cache, key, m) ==
    [k \in DOMAIN cache \cup {key} |-> IF k = key THEN m ELSE cache[k]]

\* A verdict just made goes into the manifest cache, whatever high-water mark
\* it was made at ...
Store(w) ==
    /\ run[w].at = "store"
    /\ manifestCache' = Put(manifestCache, run[w].cell.ir, run[w].manifest)
    /\ Goto(w, [run[w] EXCEPT !.at = "file"])
    /\ UNCHANGED <<brokerVars, sourceCache, hwm, results, owner, performed>>

\* ... and, like one that was found there, into the source cache.
File(w) ==
    /\ run[w].at = "file"
    /\ sourceCache' = Put(sourceCache, run[w].cell.source, run[w].manifest)
    /\ Goto(w, [run[w] EXCEPT !.at = "start"])
    /\ UNCHANGED <<brokerVars, manifestCache, hwm, results, owner, performed>>

\* Mutant of Start: receipts of earlier cells are inspected too.
StartZero(w) ==
    /\ run[w].at = "start"
    /\ Goto(w, [run[w] EXCEPT !.at = "exec", !.baseline = 0])
    /\ UNCHANGED <<brokerVars, caches, hwm, results, owner, performed>>

\* Mutant of Start: the baseline is off by one.
StartLate(w) ==
    /\ run[w].at = "start"
    /\ Goto(w, [run[w] EXCEPT !.at = "exec", !.baseline = Len(receipts) + 1])
    /\ UNCHANGED <<brokerVars, caches, hwm, results, owner, performed>>

\* A fresh worker; the length of the audit log is remembered.
Start(w) ==
    /\ run[w].at = "start"
    /\ Goto(w, [run[w] EXCEPT !.at = "exec", !.baseline = Len(receipts)])
    /\ UNCHANGED <<brokerVars, caches, hwm, results, owner, performed>>

-----------------------------------------------------------------------------
(* The worker: RuntimeBrokerProxy *)

\* What the proxy offers, and the masquerading primitives it leaves to the
\* kernel monitor.
ProxyPrimitive == {"http_get", "send_http", "kv_get", "declassify_bucket",
                   "declassify_hash", "declassify_redact"}
SENSITIVE_SYSCALLS == {"raw_socket", "tcp_connect"}

AtCall(w) == run[w].at = "exec" /\ run[w].next <= Len(run[w].cell.calls)

NextCall(w) == run[w].cell.calls[run[w].next]

\* http_get and send_http carry the label found in the manifest.
EffectOf(w) ==
    LET call == NextCall(w) IN
    [kind |-> call.kind, primitive |-> call.primitive, target |-> call.target,
     label |-> IF call.primitive \in {"http_get", "send_http"}
               THEN lookup_label(run[w].manifest, call.primitive, call.target, call.kind)
               ELSE BOTTOM]

\* _submit gets a token for the call ...
GetToken(w) ==
    /\ AtCall(w) /\ NextCall(w).primitive \in ProxyPrimitive
    /\ EnableCapability
    /\ issue_token(run[w].manifest)
    /\ Goto(w, [run[w] EXCEPT !.at = "submit", !.token = FreshToken(run[w].manifest)])
    /\ UNCHANGED <<caches, hwm, results, owner, performed>>

\* Mutant of Reaches: send_http posts whatever the broker answers.
ReachesAlways(primitive, admitted) == admitted \/ primitive \in {"kv_get", "send_http"}

\* Whether the service is called: kv_get does not look at the answer.
Reaches(primitive, admitted) == admitted \/ primitive = "kv_get"

\* ... and submits; the service is called on the answer.
SubmitEffect(w) ==
    /\ IF EnableCapability THEN run[w].at = "submit"
       ELSE AtCall(w) /\ NextCall(w).primitive \in ProxyPrimitive
    /\ LET call == NextCall(w) IN
       /\ submit(run[w].manifest, EffectOf(w), run[w].token)
       /\ owner' = Append(owner, run[w].id)
       /\ LET admitted == receipts'[Len(receipts')].decision = "ADMIT" IN
          performed' = IF Reaches(call.primitive, admitted)
                       THEN Append(performed, [by |-> run[w].id, call |-> call])
                       ELSE performed
    /\ Goto(w, [run[w] EXCEPT !.at = "exec", !.next = @ + 1, !.token = NoToken])
    /\ UNCHANGED <<caches, hwm, results>>

\* A masquerading call dies in the kernel, or escapes when that is off.
KernelCall(w) ==
    /\ AtCall(w) /\ NextCall(w).primitive \in SENSITIVE_SYSCALLS
    /\ \/ /\ EnableKernel
          /\ Answer(w, "KERNEL_DENY")
          /\ UNCHANGED performed
       \/ /\ ~EnableKernel
          /\ performed' = Append(performed, [by |-> run[w].id, call |-> NextCall(w)])
          /\ Goto(w, [run[w] EXCEPT !.at = "exec", !.next = @ + 1])
          /\ UNCHANGED results
    /\ UNCHANGED <<brokerVars, caches, hwm, owner>>

\* The cell raises: an attribute the proxy does not have, a missing key in
\* the {} that a refused call returns, or an error of its own.
Raise(w) ==
    /\ run[w].at = "exec"
    /\ Answer(w, "EXEC_ERROR")
    /\ UNCHANGED <<brokerVars, caches, hwm, owner, performed>>

\* The cell returns, here or at the end of its calls.
Return(w) ==
    /\ run[w].at = "exec"
    /\ Goto(w, [run[w] EXCEPT !.at = "judge"])
    /\ UNCHANGED <<brokerVars, caches, hwm, results, owner, performed>>

-----------------------------------------------------------------------------
(* The outcome *)

\* "Inspect only receipts produced by this cell": those past the baseline.
DeniedSince(n) == \E i \in n + 1 .. Len(receipts) : receipts[i].decision = "DENY"

\* Mutant of Judge: a denied cell gets no result.
JudgeForgets(w) ==
    /\ run[w].at = "judge" /\ ~DeniedSince(run[w].baseline)
    /\ Goto(w, [run[w] EXCEPT !.at = "raise",
                              !.joined = join(hwm, run[w].manifest.label_ceiling)])
    /\ UNCHANGED <<brokerVars, caches, hwm, results, owner, performed>>

\* Mutant of Judge: the mark is replaced by the ceiling of the cell.
JudgeReplaces(w) ==
    /\ run[w].at = "judge"
    /\ \/ /\ DeniedSince(run[w].baseline)
          /\ Answer(w, "BROKER_DENY")
       \/ /\ ~DeniedSince(run[w].baseline)
          /\ Goto(w, [run[w] EXCEPT !.at = "raise",
                                    !.joined = run[w].manifest.label_ceiling])
          /\ UNCHANGED results
    /\ UNCHANGED <<brokerVars, caches, hwm, owner, performed>>

Judge(w) ==
    /\ run[w].at = "judge"
    /\ \/ /\ DeniedSince(run[w].baseline)
          /\ Answer(w, "BROKER_DENY")
       \/ /\ ~DeniedSince(run[w].baseline)
          /\ Goto(w, [run[w] EXCEPT !.at = "raise",
                              !.joined = join(hwm, run[w].manifest.label_ceiling)])
          /\ UNCHANGED results
    /\ UNCHANGED <<brokerVars, caches, hwm, owner, performed>>

\* The mark that was read is joined and written back.
RaiseHwm(w) ==
    /\ run[w].at = "raise"
    /\ hwm' = run[w].joined
    /\ Answer(w, "OK")
    /\ UNCHANGED <<brokerVars, caches, owner, performed>>

\* CVM.reset_session, called by the driver between cells.  The caches stay.
ResetSession ==
    /\ Running = {}
    /\ reset_session
    /\ hwm' = BOTTOM
    /\ UNCHANGED <<caches, run, results, owner, performed>>

Step(w) ==
    \/ Verify(w) \/ Store(w) \/ File(w) \/ Start(w)
    \/ GetToken(w) \/ SubmitEffect(w) \/ KernelCall(w) \/ Raise(w) \/ Return(w)
    \/ Judge(w) \/ RaiseHwm(w)

CvmNext ==
    \/ \E w \in Worker : Step(w)
    \/ \E w \in Worker, c \in Cells : Submit(w, c)
    \/ ResetSession

\* The interpreter schedules every thread that can run.
CvmSpec ==
    /\ CvmInit /\ [][CvmNext]_cvmVars
    /\ \A w \in Worker : WF_cvmVars(Step(w))

-----------------------------------------------------------------------------
(* Properties *)

Outcome == {"SYNTAX_REJECT", "VERIFY_REJECT", "KERNEL_DENY", "EXEC_ERROR",
            "BROKER_DENY", "OK", "RAISED"}

\* Receipts, owners and what reached a service belong to submissions; a worker
\* that got past verification holds a manifest.
CvmTypeOK ==
    /\ TypeOK
    /\ hwm \in Label
    /\ Len(owner) = Len(receipts)
    /\ \A k \in DOMAIN results : results[k].outcome \in Outcome
    /\ \A s \in DOMAIN sourceCache : sourceCache[s] \in Manifests
    /\ \A w \in Running :
          /\ run[w].id \in 1 .. MaxCells
          /\ run[w].at # "verify" => run[w].manifest \in Manifests

\* How often submission n called the service behind primitive on target, and
\* how often the broker admitted it.
Carried(n, primitive, target) ==
    Cardinality({i \in DOMAIN performed :
                    /\ performed[i].by = n
                    /\ performed[i].call.primitive = primitive
                    /\ performed[i].call.target = target})

AdmittedFor(n, primitive, target) ==
    Cardinality({i \in AdmittedAt :
                    /\ owner[i] = n
                    /\ receipts[i].effect.primitive = primitive
                    /\ receipts[i].effect.target = target})

\* Nothing reaches a service without an admission of its own, and nothing is
\* admitted that the worker does not carry out: no phantom mutation, however
\* the cell ends (tests/test_smoke.py:70, worker.py _submit).
EffectsAreAdmitted ==
    \A n \in 1 .. MaxCells, target \in Target,
       primitive \in {"http_get", "send_http"} \cup
                     (IF EnableKernel THEN SENSITIVE_SYSCALLS ELSE {}) :
        Carried(n, primitive, target) = AdmittedFor(n, primitive, target)

\* The same of kv_get: "every external effect is proxied through the Broker"
\* (worker.py:3-4), "the only component permitted to submit external effects"
\* (broker.py:1).
ReadsAreAdmitted ==
    \A n \in 1 .. MaxCells, target \in Target :
        Carried(n, "kv_get", target) = AdmittedFor(n, "kv_get", target)

Finished(n, outcome) ==
    \E k \in DOMAIN results : results[k].by = n /\ results[k].outcome = outcome

Denied(n) == \E i \in DOMAIN owner : owner[i] = n /\ receipts[i].decision = "DENY"

\* A cell that is accepted, and whose state_out goes on to the next cell, was
\* refused nothing (cvm.py:155-164).
AcceptedIsClean == \A n \in 1 .. MaxCells : Finished(n, "OK") => ~Denied(n)

\* A cell is reported as denied only for a refusal of its own: "Inspect only
\* receipts produced by this cell" (cvm.py:155).
DeniedHasCause == \A n \in 1 .. MaxCells : Finished(n, "BROKER_DENY") => Denied(n)

\* The worker never takes a declared call out of the envelope: the label that
\* lookup_label finds is one the broker's envelope check accepts, although the
\* two search the manifest by different rules (worker.py:90-101,
\* broker.py:163-170).
DeclaredIsInside ==
    UsesVerifier =>
        \A w \in Running, i \in DOMAIN owner :
            /\ owner[i] = run[w].id
            /\ \A k \in DOMAIN run[w].cell.calls : run[w].cell.calls[k].site # 0
            => receipts[i].note # "envelope_violation"

\* Whatever an accepted cell of the session was admitted to observe or send is
\* below the session's mark, so that the cells its state_out reaches are
\* verified above it (cvm.py:167, manifest.py add_effect).
OutputsAreCovered ==
    EnableEnvelope =>
        \A i \in AdmittedAt :
            i > resetAt /\ Finished(owner[i], "OK") => leq(receipts[i].effect.label, hwm)

\* "update session HWM monotonically" (cvm.py:166): the mark falls only when
\* the session is reset, between cells.
HwmIsMonotone == [][leq(hwm, hwm') \/ Running = {}]_cvmVars

\* The two caches never give different answers for one cell (cvm.py:110-122).
CachesAgree ==
    \A c \in Cells :
        c.source \in DOMAIN sourceCache =>
            c.ir \in DOMAIN manifestCache /\ manifestCache[c.ir] = sourceCache[c.source]

EndsRaised(n, raised) ==
    \E k \in DOMAIN results :
        results[k].by = n /\ raised = (results[k].outcome = "RAISED")

RunsEscaping(n, escapes) ==
    \E w \in Running : run[w].id = n /\ escapes = Escapes(run[w].cell)

\* Every submission ends, found in a cache or not and whichever layer stops
\* it, and with an ExecResult unless the parser or the filter raised something
\* submit_cell does not catch (cvm.py submit_cell, grammar.py:109-115).
CellsAreAnswered ==
    \A n \in 1 .. MaxCells, b \in BOOLEAN : RunsEscaping(n, b) ~> EndsRaised(n, b)

\* "Returns the AST or raises PyCapSyntaxError" (grammar.py:108), on which
\* submit_cell relies to answer every cell with an ExecResult.
NothingEscapes == \A k \in DOMAIN results : results[k].outcome # "RAISED"

\* What running cells sent is low under the manifest that judge(w) gives.
SentIsLow(judge(_)) ==
    \A w \in Running, p \in DOMAIN performed :
        LET call == performed[p].call IN
        performed[p].by = run[w].id /\ call.primitive = "send_http" /\ call.site # 0
            => judge(w).effects[call.site].label = BOTTOM

\* "MUT is allowed only when global label-ceiling for that effect is BOT"
\* (automaton.py:58): the label the manifest gives the call site itself.
SitesAreLow ==
    LET Own(w) == run[w].manifest IN UsesVerifier => SentIsLow(Own)

\* "start at hwm-equivalent label so that cross-cell continuations stay sound"
\* (abstract_interp.py:53-54): the label the verifier gives the call site at
\* the mark the session stood at.
ContinuationsAreSound ==
    LET Verdict(w) == run[w].cell.verdict[run[w].hwm] IN
    UsesVerifier => SentIsLow(Verdict)
=============================================================================
