------------------------------ MODULE Verifier ------------------------------
(***************************************************************************)
(* Verification of one cell: the syntax filter looks through its tree,     *)
(* SSABuilder lowers it, AbstractInterpreter walks the instructions        *)
(* (verify), and the manifest is what the CVM works with.  The properties  *)
(* compare the manifest with the runs of the cell under PyCap.             *)
(***************************************************************************)
EXTENDS SSA, Walk, Filter

VARIABLES
    built               \* what the builder made of the cell

verifierVars == <<filterVars, walkVars, built>>

VerifierInit ==
    /\ FilterInit
    /\ WalkInit
    /\ built = build(<<>>)

\* The filter walks the tree, and may refuse the cell.
Scan ==
    /\ Visit
    /\ UNCHANGED <<walkVars, built>>

Refuse ==
    /\ Refused /\ verdict = "none"
    /\ verdict' = "refused"
    /\ UNCHANGED <<filterVars, cell, at, abs, built>>

Build ==
    /\ Passes /\ at = 0 /\ verdict = "none"
    /\ built' = build(program)
    /\ \/ /\ ~built'.ok
          /\ verdict' = "rejected"
          /\ UNCHANGED <<cell, at, abs>>
       \/ /\ built'.ok
          /\ Enter([params |-> Params, body |-> built'.body])
    /\ UNCHANGED filterVars

Interpret == (Step \/ Exhaust \/ Accept) /\ UNCHANGED <<filterVars, built>>

VerifierNext == Scan \/ Refuse \/ Build \/ Interpret

VerifierSpec == VerifierInit /\ [][VerifierNext]_verifierVars

-----------------------------------------------------------------------------
(* What the manifest is compared with *)

\* The run in which high sources hold the given secret.  State carried over
\* depends on it only in a session whose mark is high.
Run(lb, secret) ==
    Execute(program, HighSource, secret, IF lb = HIGH THEN secret ELSE "1")

Secret == {"0", "1"}

Sites == {built.sites[i] : i \in DOMAIN built.sites}

DeclaredLabel(lb, site) ==
    ManifestAt(lb).effects[CHOOSE i \in DOMAIN built.sites : built.sites[i] = site].label

\* The calls of a run that the manifest declares as low.  A declassification
\* is low by decision, and so is its answer.
LowCalls(lb, run) ==
    SelectSeq(run.calls, LAMBDA c :
        /\ c.prim \notin BROKER_DECL
        /\ c.site \in Sites
        /\ DeclaredLabel(lb, c.site) = BOTTOM)

\* The parts of a program.
RECURSIVE Statements(_)
Statements(block) ==
    UNION {{block[i]} \cup
           (CASE block[i].node \in {"If", "For"} ->
                     Statements(block[i].body) \cup Statements(block[i].orelse)
              [] block[i].node = "Outside" -> Statements(block[i].body)
              [] OTHER -> {}) : i \in DOMAIN block}

\* What an expression is made of, from left to right.
Operands(e) ==
    CASE e.node \in {"Op", "Display", "BoolOp", "Compare", "Subscript"} -> e.args
      [] e.node = "IfExp"                   -> <<e.test, e.body, e.orelse>>
      [] e.node \in {"Call", "BrokerCall"} -> e.args \o e.keywords
      [] e.node = "MethodCall"              -> <<e.receiver>> \o e.args \o e.keywords
      [] e.node \in {"Constant", "Name"}   -> <<>>

RECURSIVE Parts(_)
Parts(e) == {e} \cup UNION {Parts(Operands(e)[i]) : i \in DOMAIN Operands(e)}

ExpressionsOf(st) ==
    CASE st.node = "If"    -> Parts(st.test)
      [] st.node \in {"For", "Outside", "Other"} -> {}
      [] st.node = "Store" -> Parts(st.value) \cup Parts(st.index)
      [] OTHER             -> Parts(st.value)

Expressions(block) == UNION {ExpressionsOf(st) : st \in Statements(block)}

Uses(nodes) == \E st \in Statements(program) : st.node \in nodes

BrokerCalls(es) == {e \in es : e.node = "BrokerCall"}

SpelledTargets ==
    \A e \in Expressions(program) :
        e.node = "BrokerCall" /\ e.prim = "http_get"
            => e.args # <<>> /\ e.args[1].node = "Constant"

\* The broker is an object of the cell's like any other.
HandsOverBroker == \E e \in Expressions(program) : e.node = "Name" /\ e.id = "broker"

\* What the builder does not look at: rounds of a loop after the first and its
\* else, augmented stores, targets in a tuple, code outside the cell, and the
\* broker under another name.
Lowered == ~Uses({"For", "AugStore", "Unpack", "Outside"}) /\ ~HandsOverBroker

\* No statement runs after an if: in its arms as well, an if comes last.
RECURSIVE BranchesLast(_)
BranchesLast(block) ==
    \A i \in DOMAIN block :
        block[i].node = "If" => /\ i = Len(block)
                                /\ BranchesLast(block[i].body)
                                /\ BranchesLast(block[i].orelse)

\* No call depends on whether it is evaluated.
CallsAreCertain ==
    \A e \in Expressions(program) :
        LET Certain(n) == \A i \in DOMAIN Operands(e) :
                              i > n => BrokerCalls(Parts(Operands(e)[i])) = {} IN
        /\ e.node \in {"IfExp", "BoolOp"} => Certain(1)
        /\ e.node = "Compare" => Certain(2)

\* The names whose objects an expression may be, or may refer to.
RECURSIVE Held(_)
Held(e) ==
    CASE e.node = "Name" -> {e.id}
      [] e.node \in {"Constant", "BrokerCall"} -> {}
      [] e.node = "Call" /\ e.func = "str" -> {}
      [] OTHER -> UNION {Held(Operands(e)[i]) : i \in DOMAIN Operands(e)}

\* No object that is changed is known under two names.
ChangesAreSeen ==
    LET changed == {st.target : st \in {q \in Statements(program) :
                                           q.node \in {"Store", "AugAssign"}}} IN
    \A st \in Statements(program) :
        /\ st.node \in {"Assign", "Store", "AugAssign"} => changed \cap Held(st.value) = {}
        /\ st.node = "Assign" /\ (\E i \in DOMAIN st.targets : st.targets[i] \in changed)
              => Len(st.targets) = 1 /\ Held(st.value) = {}

\* The programs whose flows the interpreter follows: what is called is lowered,
\* nothing runs or is evaluated because of a branch that is over, no object is
\* changed under another name or by a method, no label is dropped with a keyword,
\* and no parameter holds what a nested run was given.
Tracked ==
    /\ Lowered /\ BranchesLast(program) /\ CallsAreCertain /\ ChangesAreSeen
    /\ SpelledTargets
    /\ \A e \in Expressions(program) :
          /\ e.node \in {"Call", "MethodCall"} => e.keywords = <<>>
          /\ e.node = "MethodCall" => e.prim # "append"
          /\ e.node = "Call" => e.func # "cell"

-----------------------------------------------------------------------------
(* Properties *)

\* "Lower a PyCap AST into a control-flow-bounded SSA IR" (ssa.py:1): every
\* register is defined once and no instruction reads one that is not defined
\* further up, across branches, loops and returns.
RegistersAreDefinedOnce ==
    \A i \in DOMAIN built.body :
        LET ins == built.body[i]
            Above(r) == \E j \in 1 .. i - 1 : built.body[j].dst = r IN
        /\ ins.dst # NoReg => ~Above(ins.dst)
        /\ \A k \in DOMAIN ins.args :
              ins.args[k][1] = "%" => Above(ins.args[k])

\* The statements without those that the builder passes over.
RECURSIVE SeenByBuilder(_)
SeenByBuilder(block) ==
    LET sts == SelectSeq(block, LAMBDA st : st.node \notin {"AugStore", "Outside"}) IN
    [i \in DOMAIN sts |->
        CASE sts[i].node = "If"  -> [sts[i] EXCEPT !.body = SeenByBuilder(@),
                                                   !.orelse = SeenByBuilder(@)]
          [] sts[i].node = "For" -> [sts[i] EXCEPT !.body = SeenByBuilder(@),
                                                   !.orelse = <<>>]
          [] OTHER -> sts[i]]

\* Every broker call the builder lowers is declared once, at the place its
\* origin id gives it, whichever branch it is in and whether or not it can be
\* reached (ssa.py:7-8, abstract_interp.py _broker_call).
EverySiteIsDeclared ==
    LET sites == built.sites
        calls == BrokerCalls(Expressions(SeenByBuilder(program))) IN
    Accepted =>
        /\ Sites = {e.site : e \in calls}
        /\ \A i, j \in DOMAIN sites : sites[i] = sites[j] => i = j
        /\ \A lb \in Label :
              /\ DOMAIN ManifestAt(lb).effects = DOMAIN sites
              /\ \A e \in calls, i \in DOMAIN sites :
                    sites[i] = e.site => ManifestAt(lb).effects[i].primitive = e.prim

\* "the manifest's effect envelope is always an over-approximation of what the
\* cell could do" (abstract_interp.py:98-99): no call of a run is outside it,
\* with the label the worker looks up.  Calls of declassifiers are left out: they
\* are declared under their value and submitted under their purpose.
EnvelopeCoversRuns ==
    LET Submitted(c, kind, m) ==
            [kind |-> kind, primitive |-> c.prim, target |-> c.target,
             label |-> IF c.prim = "kv_get" THEN BOTTOM
                       ELSE lookup_label(m, c.prim, c.target, kind)] IN
    Accepted =>
        \A lb \in Label, secret \in Secret :
            \A c \in ToSet(Run(lb, secret).calls) :
                c.prim \notin BROKER_DECL =>
                    effect_in_envelope(Submitted(c, KindOf(c.prim), ManifestAt(lb)),
                                       ManifestAt(lb))

\* It covers the cells of which the builder looks at everything: operands that are
\* not evaluated, calls made twice by a cell that calls itself, targets that a
\* branch chooses (ssa.py expr and stmt, abstract_interp.py _broker_call).
EnvelopeIsComplete == Accepted /\ Lowered => EnvelopeCoversRuns

\* What the manifest declares as low does not depend on high data, neither in
\* what is sent nor in whether it is sent: the labels join "control-flow taint"
\* and "data-flow taint" (abstract_interp.py:12-15).  Runs that an exception ends
\* are not compared: the labels say nothing of where a cell raises.
LowIsIndependent ==
    LET LowAgrees(lb, zero, one) ==
            ~zero.raised /\ ~one.raised => LowCalls(lb, zero) = LowCalls(lb, one) IN
    Accepted => \A lb \in Label : LowAgrees(lb, Run(lb, "0"), Run(lb, "1"))

\* It holds of the programs whose flows the interpreter follows.
TrackedIsIndependent == Accepted /\ Tracked => LowIsIndependent

\* A cell whose state_out depends on high data has a high ceiling, so that the
\* session's mark is high when the next cell reads it (manifest.py add_effect,
\* cvm.py:166-167), whatever loops, aliases, branches and nested runs it is made
\* of, as long as every call it makes is declared and its sources are spelled out.
StateOutIsCovered ==
    LET Covered(lb, zero, one) ==
            (/\ Result(zero) # Result(one)
             /\ \A c \in ToSet(zero.calls \o one.calls) : c.site \in Sites)
                => join(lb, ManifestAt(lb).label_ceiling) = HIGH IN
    Accepted /\ SpelledTargets =>
        \A lb \in Label : Covered(lb, Run(lb, "0"), Run(lb, "1"))
=============================================================================
