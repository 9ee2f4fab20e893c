--------------------------------- MODULE SSA ---------------------------------
(***************************************************************************)
(* SSABuilder of pycap/ssa.py: it flattens a cell into a list of           *)
(* instructions over fresh registers, with phi instructions where the      *)
(* branches of an if meet, and numbers the broker calls.                   *)
(*                                                                         *)
(* Register names carry a hint for the reader, which is left out.  The     *)
(* phis of one if are emitted in the order in which Python walks a set of  *)
(* names; they read registers from above the join only, so the order shows *)
(* in the IR hash and nowhere else, and one order is taken here.           *)
(***************************************************************************)
EXTENDS PyCap

CONSTANTS
    MaxBound,           \* largest loop bound: 1024
    Strings             \* the literals that are strings

Fresh(n) == <<"%", n>>
Named(x) == <<"name", x>>
NoReg    == Fresh(0)

\* A literal that is no string, or no literal at all, binds a target to "*".
Blank == [op |-> "return", dst |-> NoReg, args |-> <<>>, keywords |-> <<>>,
          prim |-> "none", static |-> "*"]

Emit(b, ins) == [b EXCEPT !.body = Append(@, ins @@ Blank)]

\* Mutant of Define: the counter stands still.
DefineSame(b, ins) ==
    LET r == Fresh(b.fresh + 1) IN
    [Emit(b, [dst |-> r] @@ ins) EXCEPT !.val = r]

\* An instruction with a fresh register for its result.
Define(b, ins) ==
    LET r == Fresh(b.fresh + 1) IN
    [Emit(b, [dst |-> r] @@ ins) EXCEPT !.fresh = @ + 1, !.val = r]

Assigned(b, x) == [b EXCEPT !.env = (x :> b.val) @@ @]

\* What a name stands for: the latest register, or itself when unbound.
Lookup(env, x) == IF x \in DOMAIN env THEN env[x] ELSE Named(x)

\* raise RuntimeError: the cell is rejected, whatever else is emitted.
Reject(b) == [b EXCEPT !.ok = FALSE]

RECURSIVE expr(_, _)

exprs(b, es) ==
    FoldLeft(LAMBDA acc, e : LET r == expr(acc, e) IN
                             [r EXCEPT !.vals = Append(acc.vals, r.val)],
             [b EXCEPT !.vals = <<>>], es)

\* Mutant of DefineCall: calls in a row share one number.
DefineCallSame(b, prim, args, keywords, site) ==
    [Define(b, [op |-> "broker_call", prim |-> prim, args |-> args,
                keywords |-> keywords])
     EXCEPT !.sites = IF @ = <<>> THEN <<site>> ELSE @]

\* A broker call gets the next origin id: its place among the sites.
DefineCall(b, prim, args, keywords, site) ==
    [Define(b, [op |-> "broker_call", prim |-> prim, args |-> args,
                keywords |-> keywords])
     EXCEPT !.sites = Append(@, site)]

expr(b, e) ==
    CASE e.node = "Constant" ->
           Define(b, [op |-> "const", static |-> IF e.value \in Strings THEN e.value ELSE "*"])
      [] e.node = "Name"     -> [b EXCEPT !.val = Lookup(b.env, e.id)]
      \* The operands of "and" and "or" are all evaluated.
      [] e.node \in {"Op", "Display", "BoolOp", "Subscript"} ->
           LET r == exprs(b, e.args) IN Define(r, [op |-> "join", args |-> r.vals])
      \* Every link of a chain compares the last result with the next operand.
      [] e.node = "Compare" ->
           FoldLeft(LAMBDA acc, arg :
                       LET r == expr(acc, arg) IN
                       Define(r, [op |-> "join", args |-> <<acc.val, r.val>>]),
                    expr(b, Head(e.args)), Tail(e.args))
      \* Both branches are evaluated, one after the other.
      [] e.node = "IfExp" ->
           LET r == exprs(b, <<e.test, e.body, e.orelse>>) IN
           Define(r, [op |-> "join", args |-> r.vals])
      [] e.node = "Call" ->
           LET r == exprs(b, e.args)
               k == exprs(r, e.keywords) IN
           Define(k, [op |-> "call", args |-> r.vals, keywords |-> k.vals])
      [] e.node = "BrokerCall" ->
           LET r == exprs(b, e.args)
               k == exprs(r, e.keywords) IN
           DefineCall(k, e.prim, r.vals, k.vals, e.site)
      \* Whatever the receiver is, this is no broker call; the keyword arguments
      \* are evaluated and dropped.
      [] e.node = "MethodCall" ->
           LET r == exprs(b, e.args)
               k == expr(exprs(r, e.keywords), e.receiver) IN
           Define(k, [op |-> "join", args |-> <<k.val>> \o r.vals])

-----------------------------------------------------------------------------

\* The names an arm of an if has bound anew.
Changed(env, before) ==
    {x \in DOMAIN env : x \notin DOMAIN before \/ env[x] # before[x]}

\* One phi for every name that either arm has changed.
Merge(b, before, first, second) ==
    FoldLeft(LAMBDA acc, x :
                Assigned(Define(acc, [op |-> "phi",
                                      args |-> <<Lookup(first, x), Lookup(second, x)>>]), x),
             [b EXCEPT !.env = before],
             SetToSeq(Changed(first, before) \cup Changed(second, before)))

RECURSIVE stmt(_, _)

Block(b, block) == FoldLeft(stmt, b, block)

stmt(b, st) ==
    CASE st.node = "Assign" ->
           LET r == expr(b, st.value) IN
           FoldLeft(LAMBDA acc, x :
                       Assigned(Define(acc, [op |-> "assign", args |-> <<r.val>>]), x),
                    r, st.targets)
      [] st.node = "AugAssign" ->
           LET r == expr(b, st.value) IN
           Assigned(Define(r, [op |-> "join",
                               args |-> <<Lookup(b.env, st.target), r.val>>]), st.target)
      [] st.node = "Store" ->
           LET r == exprs(b, <<st.value, Name(st.target), st.index>>) IN
           Emit(r, [op |-> "store", args |-> <<r.vals[2], r.vals[3], r.vals[1]>>])
      \* A tuple of targets is evaluated for and bound to nothing.
      [] st.node \in {"Unpack", "Expr"} -> expr(b, st.value)
      \* An augmented store is skipped, its value with it, and so is what stands
      \* outside the cell.
      [] st.node \in {"AugStore", "Outside"} -> b
      [] st.node = "If" ->
           LET test   == expr(b, st.test)
               first  == Block(Emit(test, [op |-> "branch_in", args |-> <<test.val>>]),
                               st.body)
               second == Block([first EXCEPT !.env = test.env], st.orelse) IN
           Merge(Emit(second, [op |-> "branch_out"]), test.env, first.env, second.env)
      \* The body once; its else is not looked at.
      [] st.node = "For" ->
           IF st.bound > MaxBound THEN Reject(b)
           ELSE Emit(Block(Emit(b, [op |-> "loop_in"]), st.body), [op |-> "loop_out"])
      [] st.node = "Return" ->
           LET r == expr(b, st.value) IN Emit(r, [op |-> "return", args |-> <<r.val>>])
      [] st.node = "Other" -> Reject(b)

\* build(): the parameters stand for themselves.
build(program) ==
    Block([fresh |-> 0, body |-> <<>>, env |-> [p \in Params |-> Named(p)],
           sites |-> <<>>, val |-> NoReg, vals |-> <<>>, ok |-> TRUE], program)
=============================================================================
