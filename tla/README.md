# ESCAR verification

TLA+ models of ESCAR, a runtime that executes small programs ("cells") written
by a language model.  A cell may touch the world only through a broker.  Before
it runs, a static analysis turns it into a *manifest* of the effects it can
have; while it runs, the broker admits each effect against the manifest, a
capability token and a policy automaton, and writes every decision into a
hash-chained log.

The models follow the Python code in `src/`.  TLC checks them on small
instances, and TLAPS proves the main properties of the broker, of racing calls
to it, of the CVM around it, of the syntax filter, of the abstract interpreter, of
the tampering study and of the experiments' accounting for all values of the
constants.

## The system

### How the parts interact

```
 source ──> PyCap filter ──> SSA builder ──> abstract interpreter ──> manifest
                                                                        │
 CVM.submit_cell: caches, session mark, outcome                         │
     └─> Worker.execute ──> RuntimeBrokerProxy ──> Broker.submit <──────┘
                                │                     ├ envelope   (manifest)
                                │                     ├ capability (token, chain head)
                                ├─> mock services     ├ automaton  (policy state)
                                └─> KernelMonitor     ├ declassifier registry
                                                      └ AuditLog.append
```

All calls are synchronous.  There is one broker, log and automaton per CVM, and
`experiments/rq4_performance.py:203-222` drives one CVM from several threads.
The experiments build one such CVM per compared system, with some layers off, give
it cases one after the other (`experiments/common.py:79-184`) and count outcomes.
No module takes a lock.  Nothing is persisted, so there is no crash recovery;
nothing is sent over a network, so no message is lost or duplicated.  What can
go wrong is the interleaving of threads, the order of the checks, what is stale
when it is used (head, clock, cache, label, pc) and a cell that stops half way.

### Inventory

| Part | State | Operations | What makes it correct |
|---|---|---|---|
| `pycap/lattice.py` | none | `join`, `join_many`, `leq` | labels only rise along a flow |
| `pycap/grammar.py` | error list | `syntax_filter` | only the sublanguage the builder knows gets through |
| `pycap/ssa.py` | counters, instructions, scope | `expr`, `stmt`, `build` | every register is defined once before use, every broker call is numbered and present |
| `verifier/abstract_interp.py` | registers, pc, mark, gas, manifest | `verify`, `_run_block`, `_run_instr`, `_broker_call` | the manifest covers every run, and what it calls low does not depend on high data |
| `verifier/manifest.py` | effects, ceiling | `add_effect`, `to_dict` | the ceiling bounds every effect |
| `verifier/certificate.py` | none | sign, verify | not used by the CVM |
| `broker/capability.py` | none | `sign_token`, `verify_token` | a token is good for one manifest at one head for a while |
| `broker/automaton.py` | none (the state is the broker's) | `step`, `accepts`, `default_automaton` | a refused effect does not move the session |
| `broker/audit.py` | receipts | `head`, `append`, `append_error`, `verify_integrity` | each link commits to the whole history |
| `broker/declassifier.py` | frozen registry | `get`, bucket, hash, redact | only registered functions lower a label |
| `broker/broker.py` | log, state, issued tokens | `issue_token`, `submit`, `reset_session` | complete mediation: the reference monitor below |
| `kernel/enforcement.py` | denied list (never read) | `call` | sensitive calls are denied by default |
| `runtime/worker.py` | proxy, services | primitives, `_submit`, `_lookup_label`, `execute` | a service is reached exactly on an admission |
| `runtime/cvm.py` | two caches, session mark, broker | `submit_cell`, `reset_session` | an outcome follows from the cell's own receipts; cached manifests suit the session they are used in |
| `baslines/systems.py` | shadow outbox, a CVM for some | `decide`, `reset` | what it writes is what it allowed |
| `attacks/families.py`, `benchmarks/` | none | generators of cases | a case is what its label says |
| `experiments/common.py` | list of outcomes | `run_baseline`, rates | a case is charged with its own effects; the tables agree with each other |
| `experiments/audit_tamper.py` | a log and its copy | four perturbations, `_verify` | every perturbation of an accepted log is reported, an untouched log is not |
| other `experiments/`, `tests/` | none | drivers that print tables | |

The hazards, each at its line and with the properties that guard it, are in
`PROJECT.json` under `hazards`.

## Modules

| Module | Models | Extends |
|---|---|---|
| `Lattice` | `pycap/lattice.py` | |
| `Manifest` | effects, envelope, `add_effect`, `_lookup_label` | `Lattice` |
| `Audit` | the log as operators on a sequence of receipts | `Manifest` |
| `Capability` | tokens | `Audit` |
| `PolicyAutomaton` | `step`, `accepts`, the default automaton | `Manifest` |
| `Broker` | `broker/broker.py`, calls one at a time | the four above |
| `ReferenceMonitor` | what the broker promises, without tokens, clocks and hashes | `PolicyAutomaton` |
| `ConcurrentBroker` | the broker shared by threads, one shared read or write per action | `Broker` |
| `CVM` | `submit_cell`, worker, proxy and kernel around the broker; several cells at once | `Broker` |
| `PyCap` | syntax trees of cells and how Python runs them | |
| `SSA` | `SSABuilder` | `PyCap` |
| `AbstractInterp` | what an instruction does to the abstract state | `Manifest` |
| `Walk` | `AbstractInterpreter.verify`, an instruction at a time, at both marks | `AbstractInterp` |
| `Filter` | `syntax_filter`, a node at a time | |
| `Verifier` | one cell filtered, built, walked and compared with its runs | `SSA`, `Walk`, `Filter` |
| `Families` | cases of `attacks/families.py` and `benchmarks/native_codebench.py`, and the suites | `Manifest` |
| `Baselines` | `decide()` of the compared systems | `Families` |
| `Accounting` | outcome of a case and rates of `experiments/common.py` | `Audit`, `Baselines` |
| `AuditStudy` | `experiments/audit_tamper.py` and the trial of `mechanism_layer.py` | `Audit` |
| `Harness` | `run_baseline` with a CVM per system, the study between its cases | `Accounting`, `AuditStudy`, `PolicyAutomaton`, instance of `CVM` |
| `BrokerProofs` | theorems about `Broker`, which implements `ReferenceMonitor` | `Broker`, `TLAPS` |
| `ConcurrentProofs` | theorems about `ConcurrentBroker` | `ConcurrentBroker`, `BrokerProofs` |
| `AuditStudyProofs` | theorems about `AuditStudy` | `AuditStudy`, `TLAPS` |
| `CVMProofs` | theorems about `CVM` with any number of threads | `CVM`, `BrokerProofs` |
| `SessionProofs` | theorems about `CVM` with one thread | `CVMProofs` |
| `FilterProofs` | theorem about `Filter` | `Filter`, `TLAPS` |
| `WalkProofs` | theorems about `Walk` | `Walk`, `TLAPS` |
| `HarnessProofs` | theorems about `Harness` and the rates of `Accounting` | `Harness`, `TLAPS` |
| `MCBroker`, `MCConcurrentBroker`, `MCCVM`, `MCVerifier`, `MCHarness` | small values for TLC | |

### Correspondence

*Broker.*  The variables are the attributes of the Python object: `receipts` is
`self.audit.receipts`, `state` is `self.state`, `issued` the values of
`self._issued_tokens`.  `granted` and `resetAt` are history.  `submit` is a
disjunction with one disjunct per `return` of the method; each repeats the
conditions of the checks above it.  The automaton moves before step 4
(`broker.py:140` before `:143`), so `DenyUnregistered` changes `state`.  The
clock is a variable: `Tick` moves it between calls, and `ClockReadings` lets it
move inside one, where the code reads it up to three times: to check the token
(`capability.py:63`), to hash the receipt (`audit.py:62`) and to stamp it (`:68`).
`MaxCallTime` bounds how far.  The three knobs are constants.

*Hashes and keys.*  SHA-256 and HMAC are taken as collision free: a link *is*
the sequence of the bodies it commits to, a digest is the manifest, a MAC is the
key and the signed fields.

*ConcurrentBroker.*  Eight actions per call: the token is issued, the head is
compared, the state is read, written, the head is read for the link, the body
hashed over the length and clock of that moment, the receipt numbered and
stamped, and pushed.  Checks come from `Broker`.  `moves` and `moveOf` are history:
what was written to the automaton's state, and by which receipt's call.

*CVM.*  `run[w]` is the frame of the thread in `submit_cell`: where it is and the
locals of the method, with the values they have before they are assigned.  `Submit`
reads the source cache and the mark, `Verify` the manifest cache, `Store` writes the
manifest cache when the verdict is a new one, `File` the source cache, `Start`
remembers the length of the log, `GetToken`, `SubmitEffect` and `KernelCall` are the
proxy's calls, `Raise` and `Return` end the cell after any prefix of its calls,
`Judge` reads the receipts past the remembered length, `RaiseHwm` writes the joined
mark.  `SubmitEffect` takes the broker's `submit` as one step: `ConcurrentBroker` is
where that is taken apart.  A cell is a record: its source key, IR key, calls, the
manifest the verifier gives at each mark, and its form, which is what reading the
source gives: PyCap, other Python, a syntax error, or an exception that nothing
catches (`deep`, `unreadable`; `Escapes`).  A submission that ends in such an
exception has the outcome `RAISED` and no `ExecResult`.

*Filter.*  A syntax tree is a table of its nodes in the order in which
`generic_visit` reaches them, each with the place of its parent.  `Visit` is the
visit method of one node: it may add to `errors`, and `Descends` says whether it
ends in `generic_visit`, that is, whether its children become due.  The nine
structural methods do not.  `Passes` and `Refused` are the two ways out of
`syntax_filter`; a source that does not parse has an empty tree.

*Walk.*  `Step` interprets one instruction of `cell`.  The nested calls of
`_run_block` over slices of one flat list are a stack of saved pc labels, which is
all that distinguishes them; `_match_close` is the condition `Nested`.  The walk is
taken at both marks side by side, `abs[BOTTOM]` and `abs[HIGH]`.  `LoweredCell` is
what the builder hands over, and `WalkSpec` starts from any such cell; the run
`verifier` checks that `build` hands over nothing else (the first conjunct of
`WalkTypeOK`).

*Verifier.*  `Scan` and `Refuse` are the filter, `Build` and `Interpret` the rest of
the verification in `submit_cell`.  `build` is a fold over the syntax tree, as the
Python code is a recursive visitor.
`PyCap!Execute` runs a cell whose calls are all admitted: values are terms over
what they were computed from, so two runs that differ only in the secret a high
source answers show exactly which calls depend on it.  Objects live on a heap, and
names and the items of displays refer to them, so a store or an `append` is seen
under every name and through every display.  `and`, `or` and chained comparisons
stop where Python stops; a statement that raises ends the run; the cell may call
itself; what stands next to `def cell` is run before it.  The broker is one of the
objects, and can be put into a list and called from there.

*AuditStudy.*  `log` is `audit.receipts`, `snapshot` the deep copy a trial takes,
`kind` the perturbation in place between the change and the restore.  `Write` is
`append` with two readings of the clock.  Each `_tamper`, `_replay`, `_splice`,
`_visible_gap` is an action; `_p4_forge` is one round of the loop in
`mechanism_layer.py:192-214`, with both of its changes.

*Harness.*  One case goes through `Begin` (`reset_session`, the length of the log
is remembered), `SubmitCell` and `RunCell` (steps of `CVM`, instantiated with the
layers of the system) where `decide` submits a cell, and `Score`, which is the rest
of `decide` and the body of `run_baseline` behind it.  The layers are constants of
`CVM`; `Cvm(layers)` is one instance per system.  The log of the CVM is the log
that `AuditStudy` perturbs.

### Abstractions, by name

* A case is its cell, the words the systems search the source for and the
  destinations spelled out in it; a suite is the set of its cases, from which a
  run draws in any order.  Random numbers in sources and states are left out.
* The shadow outbox is empty before and after each case, so it is the `writes` of
  one `decide`.
* A rate is a pair of numbers.  Rates are compared by multiplication.

* Operation verbs and the beta, wall-clock and output budgets are recorded by the
  code and read by no check: left out.
* Expressions that the builder lowers to one instruction over all their operands
  and the interpreter joins the labels of (arithmetic, displays, `and` and `or`,
  indexing, method calls) are one instruction `join`.  In `PyCap` the ones that
  Python evaluates alike are one node, `Op`: arithmetic and one comparison.  Absent
  slice bounds are left out.
* In `PyCap`: a value of a service that is not spelled out has items of its own, one
  for each key.  Stores to attributes and the step of a slice are skipped by the
  builder like `AugStore`, which stands for them.  Decorators and defaults are run
  like `Outside`.  `broker` is not bound anew.  Keyword arguments come in the order of
  the parameters.  Of a method of data there are `append`, `get` and `format`; of
  the builtins `str` and `max`.  Recursion is cut at depth 1 (`MaxRecursion`) and the
  comparison of nested objects at depth 4 (`MaxNesting`).  Where a run raises may
  depend on high data; such pairs of runs are not compared (`LowIsIndependent`).
* The phis of one `if` are emitted in one fixed order.  Python walks a set of
  strings, whose order differs between processes; so does the IR hash then.
* In `Verifier` the IR hash is the list of instructions.
* With the static analysis off, a cell could catch `SyscallDenied` itself; `CVM`
  always ends such a cell in `KERNEL_DENY`.
* The mock services answer every `http_get` from one table.  `PyCap` has what the
  label rules are about instead: sources that are high and sources that are not.
* `CVM.reset_session` is called between cells, as the drivers do.

## Runs

Every passing run is exhaustive for its constants.

| Run | Question | Bounds |
|---|---|---|
| `broker_policy` | Do log, automaton and answers stay together through every branch of `submit`, and is each step one of the monitor's? | 1 manifest, 6 effects (one per branch), 3 receipts, 2 tokens, resets anywhere |
| `broker_tokens` | Can a replayed, stolen, stale, foreign or expired token authorise anything? | 2 manifests, 2 effects, 2 receipts, 2 tokens and 1 foreign one, clock to 2, lifetime 1, a call takes up to 1 |
| `concurrent` | What holds of the log and the automaton when calls overlap at any point? | 2 threads, 3 calls, 4 effects, clock to 1, lifetime 0 |
| `cvm_session` | Do services, receipts, outcomes, caches and mark agree over a session? | 1 thread, 3 cells of 6 kinds, resets |
| `cvm_race` | Which of it survives two cells at once, and does each submission end, and in what? | 2 threads, 2 cells of 6 kinds |
| `verifier` | Does the filter miss anything, is the manifest complete, what does "low" mean in it, and what does the mark change? | 24,315 cells: 2 preludes, any 2 of 56 statements, 3 endings; a prelude, any 3 of 14 statements that share objects, 2 endings; 10 trees that are not PyCap and a source that does not parse; both marks; gas 16 |
| `harness` | Do the tables count what happened, for systems with any layer off, and what does each verifier of a log notice? | 12 systems (10 own a CVM), any 2 of 7 cases, 6 receipts, 6 tokens, clock to 1 |
| `concurrent_fork`, `cvm_stale`, `cvm_sites`, `verifier_branch`, `study_integrity` | Five statements of the code's own documents and tests that the code does not keep, see below | smallest that shows them |

Why the bounds are enough.  A token can be wrong in manifest, head, key or time; two
manifests, two receipts, one foreign token and a clock that passes the expiry produce
each.  Three receipts give a chain with a first, a middle and a last link, and let a
refusal stand between two admissions.  Two overlapping calls and a third show both a
fork and a call that starts after it.  Three cells are what a stale cache needs: one
that fills it, one that raises the mark, one that hits it.  In `verifier` the two free
statements between a prelude and an ending cover every pair (branch, loop, store, alias,
call, short circuit, nested run) in both orders, three statements about two names are
what a reference in a display needs to be made, followed and changed through, and the
gas of 16 lets the longest cells run out; a bound of 1025 stands for loops that are
rejected.  The ten foreign trees have something forbidden as a child, an argument, an
argument of an argument, and beneath what is refused itself, and a call of each kind
that `visit_Call` tells apart.  The instances are small: they are where the proofs below
take over.

Two cases are what
`harness` needs for receipts of one to be charged to the other, for a cached
manifest and for rates that leave out one of them; the seven cases are one for
each way a case can end, and a log of up to six receipts has every place a
perturbation can be at.

The clock does not move in `broker_policy`, `cvm_*`; time matters only to
tokens, and `broker_tokens` and `concurrent` are about those.  In `harness` it moves
for the systems with all layers, one of which owns the log that is studied.

### What the runs show

* *Complete mediation, one call at a time.*  `ImplementsMonitor`: every step of
  the broker is an answer, a grant, a lapse of grants or a new session of a
  monitor that has no tokens, clocks or hashes.  Any answer voids every grant.
* *The log explains the state.*  `AuditCommitsToHistory`, `StateMatchesAudit`,
  `DenyIsInert`.
* *Without a lock* the chain may fork, but only within an overlap
  (`LinksAreFresh`), and the automaton may lose a step but is never given one that
  no call made from a state of its own time (`StepsAreFresh`).  That a token names the
  head its effect extends, and that some order of the calls explains the automaton,
  are lost: `MCConcurrentToken.cfg`, `MCConcurrentStep.cfg`.
* *Tokens and time.*  A token is alive when it is checked; the time in the link is
  read later and may lie after the expiry, by no more than a call takes
  (`AuthorityBound`).
* *Cells.*  What reached a service was admitted, and the reverse, however the
  cell ended (`EffectsAreAdmitted`), accepted cells were refused nothing, denied
  cells were; what an accepted cell handled is below the mark
  (`OutputsAreCovered`); a declared call is never outside the envelope although
  worker and broker search the manifest by different rules (`DeclaredIsInside`).
* *Filter.*  A cell passes exactly when no node of its tree is forbidden, wherever
  it stands (`FilterIsExact`).
* *The mark.*  The manifests of a cell at the two marks declare the same calls in the
  same order, and none lower at the high mark (`MarksAreOrdered`).  So of the two
  mistakes a cached manifest could make, only one is possible: a manifest made at the
  high mark is safe at the low one, and `cvm_stale` shows what the reverse does.
  The walk leaves every branch it enters, and its ceilings cover its effects
  (`WalkTypeOK`).
* *Manifests.*  The builder defines registers before use and numbers every call
  it lowers (`RegistersAreDefinedOnce`, `EverySiteIsDeclared`); every call of a
  run is inside the envelope (`EnvelopeIsComplete`); a low declaration hides high
  data (`TrackedIsIndependent`); a state_out that depends on high data comes
  with a high ceiling (`StateOutIsCovered`).
* *Experiments.*  A case is charged with the mutations of its own submission only
  (`AccountingIsLocal`), although cases share log and caches; a case counted as
  rejected committed nothing (`RejectedStayOut`), although the count looks at
  receipts only and takes in cells the kernel stopped; the rates of the tables
  imply each other (`AperturesAgree`); every case begun is scored
  (`CasesAreScored`).  With all layers on no attack commits anything, also when the
  cell goes on after a refusal (`FullNeverViolates`); the ghost counter is zero by
  its formula, and where all layers are on zero is the truth
  (`ReportedGhostsAreTrue`).
* *Tampering.*  `_verify` reports every perturbation of a log it accepts
  (`PerturbationsAreSeen`), and accepts an untouched log exactly when no append saw
  the clock move (`HonestLogsVerify`); `verify_integrity` accepts a log that nobody
  touched and reports a replay and a gap (`IntegritySeesLinks`), and of the other
  perturbations none has to be noticed (`study_integrity`).

`EnvelopeIsComplete`, `TrackedIsIndependent` and `StateOutIsCovered` have
preconditions on the cell, and each conjunct of them is there because the run finds
a cell that breaks the property without it.  `Lowered`: no loop (walked once, its
`else` not at all), no augmented store and no tuple of targets (skipped, bound to
nothing), nothing next to the cell, the broker under its own name only.  `Tracked`
adds: nothing behind an `if` (the pc is restored before the phis), no call in an
operand that may not be evaluated (no pc), no change of an object that has a second
name or that stands in a display, no `append` (labels its result, not the list), no
keyword arguments of plain calls and methods (dropped), no cell that calls itself
(its parameters are taken as low), sources that are spelled out (any other is
declared `*` and taken as low).  Calls of declassifiers are left out of
`EnvelopeIsComplete`: they are declared under their value and submitted under their
purpose.  `TrackedIsIndependent` is thus a description of what the interpreter
follows; the run `verifier_branch` and `MCVerifierEnvelope.cfg` show what it does not.

### Disagreements shown by a run

| Run | Code | Statement |
|---|---|---|
| `concurrent_fork` | two overlapping `append` extend one link (`audit.py:59`) | "sequential prev_chain link must hold" (`tests/test_smoke.py:96`) |
| `cvm_stale` | a manifest made at a low mark is used at a high one (`cvm.py:75`) | registers "start at hwm-equivalent label so that cross-cell continuations stay sound" (`abstract_interp.py:53-54`) |
| `cvm_sites` | two sends to one target share the label of the first (`worker.py:93`) | "MUT is allowed only when global label-ceiling for that effect is BOT" (`automaton.py:58`) |
| `verifier_branch` | the pc is restored before the phis (`abstract_interp.py:142`) | "phi inherits pc — control-flow taint absorption" (`abstract_interp.py:210`) |
| `study_integrity` | `verify_integrity` computes the hash and does not compare it (`audit.py:82-96`) | "The auditor must detect every perturbation" (`mechanism_layer.py:177-178`) |

Nine more statements are stated in the same way and have a configuration each.  The
configurations are kept for the reader and are not among the runs; TLC finds each
violated in a few seconds.

| Configuration, module | Property | Code | Statement |
|---|---|---|---|
| `MCConcurrentStep.cfg`, `MCConcurrentBroker` | `AutomatonIsNotRaced` | of two overlapping calls the later write of the automaton's state undoes the earlier (`broker.py:129-140`) | "multi-cell workflows cannot race the automaton" (`automaton.py:4-5`) |
| `MCConcurrentToken.cfg`, `MCConcurrentBroker` | `TokenNamesHead` | the head is compared with the token, and read again for the link (`broker.py:116`, `audit.py:59`) | the token is "bound to (IR hash, manifest, h_{t-1})" (`broker.py:6`) |
| `MCBrokerOrder.cfg`, `MCBroker` | `DenyIsInert` | the automaton moves before the declassifier is looked up (`broker.py:140`, `:143`); the default policy has no transition that shows it | "On admit: ... advances the automaton" (`broker.py:8-9`) |
| `MCCvmReads.cfg`, `MCCVM` | `ReadsAreAdmitted` | `kv_get` ignores the refusal (`worker.py:121`) | the broker is "the only component permitted to submit external effects" (`broker.py:1`) |
| `MCCvmRaises.cfg`, `MCCVM` | `NothingEscapes` | `syntax_filter` and `submit_cell` catch two exceptions, and a deep tree raises another (`grammar.py:109-115`, `cvm.py:84`) | "Returns the AST or raises PyCapSyntaxError" (`grammar.py:108`) |
| `MCCvmMark.cfg`, `MCCVM` | `HwmIsMonotone` | the mark is read, joined and written back while another thread raises it (`cvm.py:167`) | "update session HWM monotonically" (`cvm.py:166`) |
| `MCCvmBlame.cfg`, `MCCVM` | `DeniedHasCause` | receipts of another thread count as the cell's (`cvm.py:156`) | "Inspect only receipts produced by this cell" (`cvm.py:155`) |
| `MCVerifierEnvelope.cfg`, `MCVerifier` | `EnvelopeCoversRuns` | the broker under another name, and calls the builder passes over, are in no manifest (`ssa.py:149-153`, `:187-194`, `:225-239`, `:249-258`) | the envelope "is always an over-approximation of what the cell could do" (`abstract_interp.py:98-99`) |
| `MCHarnessReject.cfg`, `MCHarness` | `RejectedByFrontEnd` | a cell that raised or was stopped by the kernel counts as rejected by the front end (`common.py:143-144`) | "AND a VERIFY_REJECT / SYNTAX_REJECT decision" (`common.py:141-142`) |

Met while modelling and without a run of their own:

* Which policies hide the order of the last two checks is `RefusedDeclLoops`; that
  the default policy is one of them is `DefaultPolicyLoops`.
* `append` reads the clock twice, so a link cannot always be recomputed from the
  receipt it is stored in (`audit.py:62`, `:68`).
* A denied cell leaves the mark where it was although its earlier reads were
  admitted (`cvm.py:158-167`); its state_out is dropped with it.
* The docstring of the interpreter joins the session mark into every effect label
  (`abstract_interp.py:12-15`); the code leaves it out (`:249-254`).
* A system with a CVM and an outbox is charged twice for one violation
  (`common.py:110-115`, `:128-136`).  The unsafe rate of `B2_strict_seccomp` can
  pass 100 %, and the interval of `unified_metrics` then takes the square root of
  a negative number.  `AccountingIsLocal` excepts the two systems.
* The ghost counter is `max(0, n - max(c, n))` (`common.py:126-127`), and a trial
  of `mechanism_layer.py:211` counts as detected whatever is answered (`or True`).
* `StaticManifestOnlyBaseline` says a rejection of the verifier acts as a failure of
  extraction (`systems.py:301`) and allows it (`:303-306`).
* `grammar.py:6` says unbounded recursion is rejected; a cell may call itself
  (`grammar.py:92`).
* Threads that always overlap can make each other's tokens stale for ever; a
  refusal is an answer, so `CellsAreAnswered` holds all the same.

### Fairness

`CvmSpec` has weak fairness of every thread's own steps: a started cell has only bounded
loops, calls into the runtime that do not block, and an interpreter that schedules every
runnable thread.  Submitting cells, the clock and resets are not fair.
`CellsAreAnswered` needs no more.  `HarnessSpec` has weak fairness of `Work`, the steps
of the one thread of an experiment once a case is begun; `CasesAreScored` needs it.  The
bounds leave room for every call of every admitted cell, so that no thread is stopped by
`MaxReceipts`.  The other specifications are for safety and state no fairness.

`CHECK_DEADLOCK FALSE` is set where the system stops for good: when the callers
have made all their calls (`concurrent*`, `cvm_*`) or the cell is verified
(`verifier*`), or the cases are used up (`harness`).

## Proofs

For every set of manifests, effects, policies, tokens, cells, threads, systems and
cases, every setting of the knobs, every log, tree and body of instructions, and every
bound:

| Theorem | Statement |
|---|---|
| `TypeCorrect` | `Spec => []TypeOK` |
| `HistoryCommitted` | `Spec => []AuditCommitsToHistory` |
| `AuthorityIsBound` | `Spec => []AuthorityBound` |
| `SingleUse` | `Spec => []TokenSingleUse` |
| `DenialInert` | `RefusedDeclLoops => (Spec => DenyIsInert)` |
| `StateAudited` | `RefusedDeclLoops => (Spec => []StateMatchesAudit)` |
| `DefaultPolicyLoops` | the default policy satisfies `RefusedDeclLoops` |
| `Refinement` | under the same condition, `Spec => Monitor!MonitorSpec` |
| `ConcurrentInvariant` | `ConcurrentSpec => []ConcurrentInv`, for every set of threads |
| `ConcurrentTyped`, `LinksFresh`, `StepsFresh` | `ConcurrentSpec => []` of `ConcurrentTypeOK`, `LinksAreFresh`, `StepsAreFresh` |
| `PerturbationsSeen`, `LinksSeen`, `HonestVerified` | `StudySpec => []` of `PerturbationsAreSeen`, `IntegritySeesLinks`, `HonestLogsVerify`, for every log |
| `CvmInvariant` | `CvmSpec => []CvmInv`, for every set of threads |
| `CvmTypeCorrect`, `EffectsCarriedOut`, `AcceptedWasClean`, `DeclaredStaysInside` | `CvmSpec => []` of `CvmTypeOK`, `EffectsAreAdmitted`, `AcceptedIsClean`, `DeclaredIsInside` |
| `CvmRunsABroker` | `CvmSpec => Spec`: the CVM uses the broker as `Broker` says it is used |
| `CvmKeepsAuthority`, `CvmImplementsMonitor` | the broker's theorems and its refinement, of the CVM |
| `SessionInvariant` | `OneThread => (CvmSpec => []SessionInv)` |
| `DenialCaused`, `OutputsCovered`, `CachesAgreed`, `HwmMonotone` | under `OneThread`, `CvmSpec` implies `[]` of `DeniedHasCause`, `OutputsAreCovered`, `CachesAgree`, and `HwmIsMonotone` |
| `FilterExact` | `FilterSpec => []FilterIsExact`, for every tree |
| `WalkInvariant` | `WalkSpec => []WalkInv`, for every lowered cell |
| `WalkTyped`, `MarksOrdered` | `WalkSpec => []` of `WalkTypeOK`, `MarksAreOrdered` |
| `LowEnvelopeIsInside` | what the low manifest's envelope admits, the high one's admits |
| `CallsDeclared` | an accepted cell's n-th effect is the n-th broker call of its body, and there is no other |
| `HarnessInvariant` | `HarnessSpec => []HarnessInv`, for any series of cases |
| `CasesPayForThemselves`, `TablesTellOneStory`, `GhostsAreTrue` | `HarnessSpec => []` of `AccountingIsLocal`, `AperturesAgree`, `ReportedGhostsAreTrue` |
| `RejectedAreNotRun` | `HarnessSpec => []RejectedStayOut`, when every case has `OneDestination` |
| `AttacksAreHarmless` | `HarnessSpec => []FullNeverViolates`, under `default_automaton` and `AttacksShow(Cases)` |

Assumptions: `BrokerAssumption` (constants are typed; a foreign token has another
key; the policy's transitions are a finite sequence and `NoState` is not one of
its states).  `CvmAssumption` (constants are typed; a verdict is a manifest or a
rejection, and every manifest has a ceiling that covers its effects; cells with one
source have one IR, and what the verifier says of an IR declares the calls of every
cell with it).  `InterpAssumption` (high sources and `*` are targets, the gas is a
number).  `FilterAssumption` (a tree's first node is its root, and every other comes
after its parent).  `HarnessAssumption` (one thread; destinations and calls are lists;
`kv_get` observes; cells with one source have one IR; a verdict has a ceiling).  TLC
evaluates all of them on the runs.  The parts of
`CvmAssumption` that are about the verifier are what is shown of it: `WalkTyped`
has the ceilings, `CallsDeclared` and the run's `EnvelopeIsComplete` the
declarations.  `OneThread` (any two threads are the same) is how every driver but
`rq4_performance.py` uses the CVM.

Two theorems about the experiments ask something of the cases.  `OneDestination`:
the text of a source spells one destination.  `PolicyOnlyBaseline` writes the
destinations one by one and returns at the first that is refused, so a case that
spells an allowed one and then another would count as rejected with a commit.
`AttacksShow`: every mutation that an attack asks the proxy for goes where nothing may
go, or is labelled high by every manifest the verifier can have given its IR.  Without
it the theorem would be false: an attack whose send is declared low and goes to the
partner is, to the broker, benign work.  `SuitesFit` in `MCHarness` has TLC evaluate
both on all cases of the two suites, not only on the seven of the run.

The argument.  `AuditCommitsToHistory` is inductive with `TypeOK`: the new link is the
old head with one body more, so its length is its position.  `TokenSingleUse` is not
inductive.  Its strengthening `AuthorityInv` has three parts: `TokenTable` (a nonce is
one token's own, and a token is no older than the last receipt its link commits to),
`LogTimed` (receipts are about past readings of the clock, and each has its token
recorded) and `AuthorityBound`.  Two admissions with one nonce have one token, hence one
`prev_chain`, hence by `AuditCommitsToHistory` (the length of a link is its position)
one position.  `StateMatchesAudit` is existential: the step lemma extends the witness
run by one state.  The refinement rests on the links of issued tokens being no longer
than the log (`LinksExist`): after an answer the head is longer than every issued link,
so no grant is live.  `AdmitIsMonitored` and `RefusalIsMonitored` do the two kinds of
answer.

`RefusedDeclLoops` is needed: `MCBrokerOrder.cfg` has a policy without it.

Racing calls (`ConcurrentProofs`).  Neither `LinksAreFresh` nor `StepsAreFresh` is
inductive: each is decided by a thread long before the receipt is in the log, so the
strengthening is about the locals of calls in flight.  `Frame` says for each place a
call can be at what its locals hold there: the token is issued, for this manifest,
and the call began no later than now (`Common`); the state to be written is a step
from one the automaton was in since then (`Steps`); an admission has its move
(`Decided`); the link that was read was a head at some moment of the call (`Linking`),
the hash covers that link and this body (`Hashed`), and the receipt has both
(`Stamped`).  Three lemmas carry what other threads do: a frame is not disturbed by a
token more (`FrameKeepsTokens`), a receipt more (`FrameKeepsReceipts`) or a move more
(`FrameKeepsMoves`).  `LocalStep` and `QuietStep` then reduce seven of the nine kinds
of step to their own frame; `Push` moves the frame's facts into `Links` and
`Admissions`.  Nothing says that the automaton's state is the one the check was made
in: that is the step that racing calls lose (`MCConcurrentStep.cfg`).

The tampering study (`AuditStudyProofs`).  `Untouched` is the shape of a log that
only `append` has written: links in order, link n covers n bodies, and the last of
them is that of receipt n with the first reading of the clock.  Then a link
determines its body (`LinkInjective`) and is never the link it extends
(`LinkGrows`).  Each perturbation breaks one of the two equations of `_verify` at
one place, and `HonestVerified` is the same equations with the two readings equal.
Assumption: `EntriesAssumption`, the typing of what is appended.

The CVM (`CVMProofs`).  `EffectsAreAdmitted` compares two counts, of what reached a
service and of the admissions of one submission.  Both move in `SubmitEffect` only,
where the receipt written, the owner recorded and the service called are of one call
(`SubmitServes`); in the kernel's calls the first moves alone, so those are counted
only where the kernel stops them.  `AcceptedIsClean` holds with several threads although
`Judge` reads the receipts of all of them, because it errs on one side: `Frame` says
that a thread's own receipts lie past its baseline, so none of its refusals can be
missed.  `DeclaredIsInside` needs the history of manifests: the one a thread holds is
a verdict on *some* cell with the same IR at *some* mark (`VerdictsFor`,
`CachesHoldVerdicts`), which declares the thread's calls all the same; that
`lookup_label` then finds a label that the envelope admits is a lemma about the two
searches.  `Ids` keeps numbers of submissions apart, though a reset or an answer
of another thread comes between.  `CvmRunsABroker` maps every step of the CVM to one of
`Next` or to a stutter, and brings everything that is proved of `Broker` with it.

One thread (`SessionProofs`).  Four properties that two threads break, in the runs of
`MCCVM` and in the code.  `SessionFrame` has what a thread knows when it is alone: the
receipts past its baseline are its own (so a denial is its own), a fresh verdict is
not in the manifest cache yet and one that is not fresh is there (so the two caches
agree after `Store`), the mark to be written is the one that is joined (so it only
rises), and what was admitted for the cell is below the ceiling of its manifest
(`EnvelopeIsLow`: an envelope holds nothing above its ceiling).

The filter (`FilterProofs`).  `FilterInv`: what has been visited and offends is in
`errors`, and what is in `errors` offends.  When nothing is due and `errors` is empty,
every node has been visited: take the first one that has not; its parent comes before
it, was visited, did not offend, so is not one of the structural types and descends,
and the node is due after all (`WalkIsThorough`).

The walk (`WalkProofs`).  `WalkInv` says three things at once.  The abstract state is
typed (`AbsState`).  The stack of saved labels is as long as the branches that are
open (`BranchDepth`), with the low pc of the cell at its foot (`Grounded`): when the
body ends, nothing is open, so the pc is low again, which is what a walk that returns
from `_run_block` relies on.  And the states at the two marks are in order (`Below`):
same registers, same targets, same stack height, no label higher at the low mark.  One
lemma per kind of instruction says that it keeps the order (`GetRises`, `SetRises`,
`BrokerCallRises`, `RunRises`); since targets and gas are the same at both marks, both
walks declare the same calls and run out at the same instruction.  `CallsDeclared`
counts: the position of an effect is the number of broker calls up to its own
(`CountStep`, `ManifestGrows`).

The experiments (`HarnessProofs`).  The properties are about the outcomes kept of
earlier cases, and the log they are about goes on growing, and is another log while
the study tampers with it.  `Genuine` is the log as the CVM wrote it, and everything
is said of that.  `HarnessInv` ties four lists together.  `Numbers`: submissions are
numbered as they end, the receipts past `chain_baseline` are those of the latest
(`Latest`) and of no other, and no case that is scored is the latest any more, so what
is charged to it (`Charged`) never changes again.  `Delivered`: where the kernel
monitor is on, a submission has sent as many mutations as it was admitted.  `Scored`:
what is kept of a case equals what `Charged` says of it.  The steps of the CVM are
reduced to four kinds (`StepKinds`): locals move, the submission ends, a masquerading
call escapes, or one receipt is written and a service is called on it; the invariant
is proved over the four kinds, once for all ten settings of the layers.
`OutcomeIs` is the body of `run_baseline` behind `decide`, for any system, and shows
among other things that no ghost can be reported.

`AperturesAgree` follows from what all outcomes have in common (`Coherent`): what is
unsafe or allowed was accepted, and what is unsafe has a commit.  The rates are
fractions of two counts, so the identities are about cardinalities, except `ucr`,
which divides sums.  A sum is a fold by recursion over subsets; that the recursion has
a solution (`SumExists`), and that a sum of naturals is zero exactly when all of them
are (`SumOfNaturals`), is shown with a least counterexample.

`AttacksAreHarmless` needs the history of the caches, as `DeclaredIsInside` does:
`Judged` says that every manifest in a cache or in a frame is a verdict on the IR of
the cell it is used for, given in some session at some mark.  `AttackIsRefused` then
has the envelope out of play altogether: the label the worker gives the call comes
from such a verdict, and the default policy has no transition for a mutation that is
high or goes elsewhere (`DefaultMuts`).  `Harmless` says that while an attack runs no
mutation lies past the baseline, which is what `Score` counts.

What is only model-checked.  Liveness (`CellsAreAnswered`, `CasesAreScored`): out of
the prover's reach.  The five properties of `Verifier` that compare a manifest with
runs of the source or with the builder's work (`RegistersAreDefinedOnce`,
`EverySiteIsDeclared`, `EnvelopeIsComplete`, `TrackedIsIndependent`,
`StateOutIsCovered`): `PyCap` and `SSA` recurse over syntax trees, and the prover
takes no module with a recursive operator.  `CallsDeclared` is the half of
`EverySiteIsDeclared` that lies behind the builder.  Every other property of a
passing run is a theorem.

## Not modelled

* The functions behind the declassifiers: they compute on values that the models
  abstract.  Only the registry decides anything in the broker.
* `verifier/certificate.py`: nothing calls it.
* `experiments/stats.py`, the intervals and the times of every table: floating
  point and wall clock.
* `experiments/a2_forgery.py` flips bits of tokens at random; that none verifies is
  what the models assume of HMAC.
* The other experiments print constants, measure time or feed source text to the
  filter.  `benchmarks/` beyond the suites, and the tests, are data and drivers.
* A second `def cell`: `build` takes the first definition and `exec` the last;
  `Verifier` has one.

## Order of work

The modules were written in the order of the first table: lattice to broker, the
reference monitor and the proofs about both; the broker under threads; the CVM; the
front end; the experiments; then the proofs about racing calls, about the study, about
the CVM, the filter and the walk, and about the accounting.  What would come next:
the builder as a walk over a table of nodes, as `Filter` is, so that
`RegistersAreDefinedOnce` and `EverySiteIsDeclared` can be proved of any cell; and
`Harness` with several threads on one system, as `rq4_performance.py` has it.
