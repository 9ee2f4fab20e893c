-------------------------------- MODULE PyCap --------------------------------
(***************************************************************************)
(* Cells as programs: the syntax trees that pycap/grammar.py lets through, *)
(* and what Python makes of them when Worker.execute (runtime/worker.py)   *)
(* runs a cell whose calls are all admitted.                               *)
(*                                                                         *)
(* What an operation computes is abstracted to what it depends on: its     *)
(* value is the term over its operands, so two runs give the same value    *)
(* exactly when no operand differs.  Values are objects on a heap; names   *)
(* and the items of displays refer to them, so a change of an object shows *)
(* wherever it is referred to.                                             *)
(***************************************************************************)
EXTENDS Naturals, Sequences, SequencesExt, TLC

(* Expressions.  Op stands for the operations that make a value of all     *)
(* their operands: arithmetic, a single comparison, slices.  Display is a  *)
(* list, tuple or dict display, its items at "0" and "1".  Compare is a    *)
(* chain a < b < c, BoolOp is "and" or "or".                               *)
Constant(v)            == [node |-> "Constant", value |-> v]
Name(x)                == [node |-> "Name", id |-> x]
Op(args)               == [node |-> "Op", args |-> args]
Display(args)          == [node |-> "Display", args |-> args]
Compare(args)          == [node |-> "Compare", args |-> args]
BoolOp(op, args)       == [node |-> "BoolOp", op |-> op, args |-> args]
Subscript(e, i)        == [node |-> "Subscript", args |-> <<e, i>>]
IfExp(test, a, b)      == [node |-> "IfExp", test |-> test, body |-> a, orelse |-> b]
\* A call of a builtin, or of the cell itself.
Call(f, args, keywords) ==
    [node |-> "Call", func |-> f, args |-> args, keywords |-> keywords]
\* broker.prim(args, keywords).  The site tells calls of one cell apart.
BrokerCall(prim, args, keywords, site) ==
    [node |-> "BrokerCall", prim |-> prim, args |-> args, keywords |-> keywords,
     site |-> site]
\* e.method(args, keywords) where e is not the name broker.
MethodCall(e, method, args, keywords, site) ==
    [node |-> "MethodCall", receiver |-> e, prim |-> method, args |-> args,
     keywords |-> keywords, site |-> site]

(* Statements.  AugStore is x[i] += e, Unpack is x, y = e, Outside is a    *)
(* statement next to "def cell", Other is any statement the filter lets    *)
(* through and the builder does not know.                                  *)
AssignAll(xs, e)       == [node |-> "Assign", targets |-> xs, value |-> e]
Assign(x, e)           == AssignAll(<<x>>, e)
AugAssign(x, e)        == [node |-> "AugAssign", target |-> x, value |-> e]
Store(x, i, e)         == [node |-> "Store", target |-> x, index |-> i, value |-> e]
AugStore(x, e)         == [node |-> "AugStore", target |-> x, value |-> e]
Unpack(x, y, e)        == [node |-> "Unpack", first |-> x, second |-> y, value |-> e]
Do(e)                  == [node |-> "Expr", value |-> e]
If(test, body, orelse) == [node |-> "If", test |-> test, body |-> body, orelse |-> orelse]
For(x, bound, body, orelse) ==
    [node |-> "For", target |-> x, bound |-> bound, body |-> body, orelse |-> orelse]
Return(e)              == [node |-> "Return", value |-> e]
Outside(st)            == [node |-> "Outside", body |-> <<st>>]
Other                  == [node |-> "Other"]

Params == {"uid", "state_in"}

-----------------------------------------------------------------------------
(* A run: the objects, the names bound to them, the calls made so far, the *)
(* value of the last expression.  It stops when the cell returns, out then *)
(* being what it returns, or raises.                                       *)

Object(term, truth) == [term |-> term, truth |-> truth, items |-> <<>>]

New(s, obj) == [s EXCEPT !.heap = Append(@, obj), !.val = Len(s.heap) + 1]

\* The name bound to the value.
Bind(s, x) == [s EXCEPT !.env = (x :> s.val) @@ @]

Raise(s) == [s EXCEPT !.running = FALSE, !.raised = TRUE]

\* How deep a cell may nest objects and its own calls before they are cut off.
MaxNesting   == 4
MaxRecursion == 1

RECURSIVE ValueTo(_, _, _)
ValueTo(s, loc, depth) ==
    LET obj == s.heap[loc] IN
    IF depth = 0 \/ obj.items = <<>> THEN obj.term
    ELSE <<"with", obj.term,
           [k \in DOMAIN obj.items |-> ValueTo(s, obj.items[k], depth - 1)]>>

\* What an object is, with the objects it refers to.
Value(s, loc) == ValueTo(s, loc, MaxNesting)

Truth(s, loc) == s.heap[loc].truth \/ s.heap[loc].items # <<>>

\* The term an operation makes of others.
Term(s, name, locs) == <<name>> \o [i \in DOMAIN locs |-> Value(s, locs[i])]

\* A new object made of others.  It refers to what they refer to.
Combine(s, name, locs) ==
    [term |-> Term(s, name, locs), truth |-> \E i \in DOMAIN locs : Truth(s, locs[i]),
     items |-> FoldLeft(LAMBDA items, loc : items @@ s.heap[loc].items, <<>>, locs)]

\* The string an object is, where the cell spells it out.
Text(s, loc) ==
    IF s.heap[loc].term[1] = "const" THEN s.heap[loc].term[2] ELSE "computed"

\* Numbers and strings have no items.
Container(s, loc) ==
    s.heap[loc].term[1] \notin {"const", "uid", "round", "str", "declassified", "broker"}

\* The object x refers to at a key; what has no such item raises, and of data
\* that is not spelled out it is a value of its own.
Item(s, loc, key) ==
    CASE ~Container(s, loc) -> Raise(s)
      [] Container(s, loc) /\ key \in DOMAIN s.heap[loc].items ->
           [s EXCEPT !.val = s.heap[loc].items[key]]
      [] Container(s, loc) /\ key \notin DOMAIN s.heap[loc].items ->
           IF s.heap[loc].term = <<"display">> THEN Raise(s)
           ELSE New(s, Object(<<"item", Value(s, loc), key>>, s.heap[loc].truth))

\* x[key] = val, and with another key x.append(val): x is changed in place.
SetItem(s, loc, key, val) ==
    IF Container(s, loc) THEN [s EXCEPT !.heap[loc].items = (key :> val) @@ @]
    ELSE Raise(s)

Extend(s, loc, val) ==
    SetItem(s, loc, <<"round", Cardinality(DOMAIN s.heap[loc].items)>>, val)

Nothing == Object(<<"const", "none">>, FALSE)

-----------------------------------------------------------------------------
(* Calls *)

\* The services: high sources answer with the secret of this run, the keyed
\* store and the declassifiers with what everybody may know.
Response(s, prim, target) ==
    CASE prim = "http_get" /\ target \in s.secrets ->
             Object(<<"secret", s.secret>>, s.secret = "1")
      [] prim = "http_get" /\ target \notin s.secrets ->
             Object(Term(s, "data", s.vals), TRUE)
      [] prim \in {"kv_get", "send_http"} -> Object(<<"data", prim, target>>, TRUE)
      [] OTHER -> Object(<<"declassified", prim>>, TRUE)

\* The proxy's primitives, and the target each submits: a declassifier is
\* called on a value and submits its purpose.
ProxyTarget(s, prim) ==
    CASE prim = "declassify_bucket" -> "alert"
      [] prim = "declassify_hash"   -> "audit"
      [] prim = "declassify_redact" -> "logging"
      [] OTHER                      -> Text(s, s.vals[1])

Proxied == {"http_get", "send_http", "kv_get", "declassify_bucket",
            "declassify_hash", "declassify_redact"}

\* A call the proxy offers is made; one it does not offer raises.
CallBroker(s, e) ==
    IF e.prim \in Proxied /\ s.vals # <<>>
    THEN LET target == ProxyTarget(s, e.prim) IN
         New([s EXCEPT !.calls =
                Append(@, [site |-> e.site, prim |-> e.prim, target |-> target,
                           sent |-> Term(s, "sent", s.vals)])],
             Response(s, e.prim, target))
    ELSE Raise(s)

\* A method of data, or of the broker under another name than its own; the
\* receiver's value is the first.  format and its like make a string.
CallMethod(s, e) ==
    LET recv == s.vals[1]
        rest == [s EXCEPT !.vals = Tail(@)] IN
    CASE s.heap[recv].term = <<"broker">> -> CallBroker(rest, e)
      [] e.prim = "append" /\ s.heap[recv].term # <<"broker">> ->
           New(Extend(s, recv, s.vals[2]), Nothing)
      [] e.prim = "format" /\ s.heap[recv].term # <<"broker">> ->
           New(s, Object(Term(s, "str", s.vals), TRUE))
      [] e.prim = "get" /\ s.heap[recv].term # <<"broker">> ->
           LET key == Value(s, s.vals[2]) IN
           IF s.heap[recv].term = <<"display">> /\ key \notin DOMAIN s.heap[recv].items
           THEN New(s, Nothing) ELSE Item(s, recv, key)

\* A builtin: str makes a string of its arguments, max picks one of them.
CallBuiltin(s, e) ==
    CASE e.func = "str" -> New(s, Object(Term(s, "str", s.vals), TRUE))
      [] e.func = "max" ->
           [s EXCEPT !.val = IF Truth(s, s.vals[1]) THEN s.vals[1] ELSE s.vals[Len(s.vals)]]

RECURSIVE Eval(_, _)

KeepVal(s, vals) == [s EXCEPT !.vals = Append(vals, s.val)]

\* Several expressions, from left to right; their values in s.vals.
Evals(s, es) ==
    FoldLeft(LAMBDA acc, e : KeepVal(Eval(acc, e), acc.vals), [s EXCEPT !.vals = <<>>], es)

\* What is evaluated or run next, after the value the state ends in.
Arm(s, first, second) == IF Truth(s, s.val) THEN first ELSE second

EvalArm(s, e) == IF s.running THEN Eval(s, Arm(s, e.body, e.orelse)) ELSE s

\* An operand of "and" is evaluated when those before it are true, one of "or"
\* when they are false; the value is that of the last one evaluated.
EvalBoolOp(s, e) ==
    FoldLeft(LAMBDA acc, arg :
                IF acc.running /\ Truth(acc, acc.val) = (e.op = "and")
                THEN Eval(acc, arg) ELSE acc,
             Eval(s, Head(e.args)), Tail(e.args))

\* One link of a chain: the operand just evaluated is the next one's left.
Link(s, left) ==
    IF s.running THEN [New(s, Combine(s, "op", <<left, s.val>>)) EXCEPT !.left = s.val]
    ELSE s

FirstLink(s) == Link(s, s.vals[1])

\* a < b < c is a < b and b < c, with b evaluated once.
EvalCompare(s, e) ==
    FoldLeft(LAMBDA acc, arg :
                IF acc.running /\ Truth(acc, acc.val) THEN Link(Eval(acc, arg), acc.left)
                ELSE acc,
             FirstLink(Evals(s, SubSeq(e.args, 1, 2))), SubSeq(e.args, 3, Len(e.args)))

\* A display refers to its operands.
Show(s) ==
    New(s, [Object(<<"display">>, FALSE) EXCEPT
              !.items = FoldLeft(LAMBDA items, i :
                                    (<<"const", ToString(i - 1)>> :> s.vals[i]) @@ items,
                                 <<>>, [i \in DOMAIN s.vals |-> i])])

RECURSIVE ExecBlock(_, _)

\* The run goes on in the caller s, with what the callee returned.
BackIn(s, done) ==
    LET back == [done EXCEPT !.depth = s.depth, !.env = s.env, !.out = 0,
                             !.running = ~done.raised] IN
    IF done.out = 0 THEN New(back, Nothing) ELSE [back EXCEPT !.val = done.out]

\* cell(uid, state_in) with the arguments for parameters, and its result.
CallCell(s, e) ==
    IF s.depth = MaxRecursion THEN Raise(s)
    ELSE BackIn(s, ExecBlock([s EXCEPT !.depth = @ + 1,
                                !.env = ("uid" :> s.vals[1]) @@ ("state_in" :> s.vals[2])
                                            @@ s.globals], s.program))

\* The operation on the values just computed.
Apply(s, e) ==
    CASE ~s.running -> s
      [] s.running /\ e.node = "Op"         -> New(s, Combine(s, "op", s.vals))
      [] s.running /\ e.node = "Display"    -> Show(s)
      [] s.running /\ e.node = "Subscript"  -> Item(s, s.vals[1], Value(s, s.vals[2]))
      [] s.running /\ e.node = "BrokerCall" -> CallBroker(s, e)
      [] s.running /\ e.node = "MethodCall" -> CallMethod(s, e)
      [] s.running /\ e.node = "Call" ->
           IF e.func = "cell" THEN CallCell(s, e) ELSE CallBuiltin(s, e)

\* A cell that has returned or raised evaluates nothing.
Eval(s, e) ==
    CASE ~s.running -> s
      [] s.running /\ e.node = "Constant" -> New(s, Object(<<"const", e.value>>, TRUE))
      [] s.running /\ e.node = "Name" ->
           IF e.id \in DOMAIN s.env THEN [s EXCEPT !.val = s.env[e.id]] ELSE Raise(s)
      [] s.running /\ e.node = "IfExp"   -> EvalArm(Eval(s, e.test), e)
      [] s.running /\ e.node = "BoolOp"  -> EvalBoolOp(s, e)
      [] s.running /\ e.node = "Compare" -> EvalCompare(s, e)
      [] s.running /\ e.node \in {"Op", "Display", "Subscript"} -> Apply(Evals(s, e.args), e)
      [] s.running /\ e.node \in {"Call", "BrokerCall"} ->
           Apply(Evals(s, e.args \o e.keywords), e)
      [] s.running /\ e.node = "MethodCall" ->
           Apply(Evals(s, <<e.receiver>> \o e.args \o e.keywords), e)

-----------------------------------------------------------------------------
(* Statements *)

ExecArm(s, st) == IF s.running THEN ExecBlock(s, Arm(s, st.body, st.orelse)) ELSE s

\* One round of a loop after the other, then its else.
ExecLoop(s, st) ==
    ExecBlock(FoldLeft(LAMBDA acc, i :
                 IF acc.running
                 THEN ExecBlock(Bind(New(acc, Object(<<"round", i>>, TRUE)), st.target), st.body)
                 ELSE acc,
              s, [i \in 1 .. st.bound |-> i]), st.orelse)

\* Two items of one object, bound one after the other.
ExecUnpack(s, st) ==
    LET first  == Item(s, s.val, <<"const", "0">>)
        second == Item(Bind(first, st.first), s.val, <<"const", "1">>) IN
    IF first.raised THEN first ELSE IF second.raised THEN second ELSE Bind(second, st.second)

\* x += e makes a new number or string, and extends a list or dict in place.
ExecAugAssign(s, st) ==
    LET old == s.env[st.target]
        new == New(s, Combine(s, "op", <<old, s.val>>)) IN
    IF Container(s, old)
    THEN Extend(New(s, Combine(s, "op", <<s.val>>)), old, Len(s.heap) + 1)
    ELSE Bind(new, st.target)

\* The statement on the value just computed; a name that is not bound raises.
Perform(s, st) ==
    CASE st.node = "Assign" -> FoldLeft(Bind, s, st.targets)
      [] st.node \in {"AugAssign", "Store", "AugStore"} /\ st.target \notin DOMAIN s.env ->
           Raise(s)
      [] st.node = "AugAssign" /\ st.target \in DOMAIN s.env -> ExecAugAssign(s, st)
      [] st.node = "Store" /\ st.target \in DOMAIN s.env ->
           SetItem(s, s.env[st.target], Value(s, s.vals[2]), s.vals[1])
      [] st.node = "AugStore" /\ st.target \in DOMAIN s.env ->
           Extend(s, s.env[st.target], s.val)
      [] st.node = "Unpack" -> ExecUnpack(s, st)
      [] st.node = "Expr"   -> s
      [] st.node = "Return" -> [s EXCEPT !.running = FALSE, !.out = s.val]

PerformAfter(s, st) == IF s.running THEN Perform(s, st) ELSE s

Exec(s, st) ==
    CASE ~s.running \/ st.node = "Outside" -> s
      [] s.running /\ st.node = "If"  -> ExecArm(Eval(s, st.test), st)
      [] s.running /\ st.node = "For" -> ExecLoop(s, st)
      [] s.running /\ st.node = "Store" ->
           PerformAfter(Evals(s, <<st.value, st.index>>), st)
      [] s.running /\ st.node \notin {"If", "For", "Store", "Outside"} ->
           PerformAfter(Eval(s, st.value), st)

ExecBlock(s, block) == FoldLeft(Exec, s, block)

\* exec(compile(source)): what stands outside the cell is run first, and binds
\* names that the cell can read.
Load(s) ==
    FoldLeft(LAMBDA acc, st : IF st.node = "Outside" THEN ExecBlock(acc, st.body) ELSE acc,
             s, s.program)

\* The frame of the cell, above what is global.
CellFrame(s) ==
    [s EXCEPT !.globals = s.env, !.env = ("uid" :> 1) @@ ("state_in" :> 2) @@ @]

\* Worker.execute: uid is public, state_in carries what earlier cells of the
\* session put there, the targets in secrets answer with the secret.
Execute(program, secrets, secret, carried) ==
    LET start == [env |-> "broker" :> 3, globals |-> <<>>, program |-> program,
                  heap |-> <<Object(<<"uid">>, TRUE),
                             Object(<<"state", carried>>, carried = "1"),
                             Object(<<"broker">>, TRUE)>>,
                  calls |-> <<>>, val |-> 1, vals |-> <<>>, left |-> 1, depth |-> 0,
                  running |-> TRUE, raised |-> FALSE, out |-> 0,
                  secrets |-> secrets, secret |-> secret] IN
    ExecBlock(CellFrame(Load(start)), program)

\* What the cell returns, where it does.
Result(s) == IF s.out = 0 THEN <<>> ELSE Value(s, s.out)
=============================================================================
