----------------------------- MODULE MCVerifier -----------------------------
(***************************************************************************)
(* Small cells for Verifier: a prelude that puts high data into x and      *)
(* something of its own into y, two statements out of a pool with every    *)
(* construct the builder knows, and mostly a last one that lets y out.     *)
(***************************************************************************)
EXTENDS Verifier

MCPrimitive == Proxied \cup {"raw_socket", "none"}
MCTarget    == {"*", "crm", "pub", "alerts"}
MCIRHash    == {}
MCVarName   == Params \cup {"x", "y", "z", "i", "broker"}
MCStrings   == {"crm", "pub", "alerts"}

Get(target, i) == BrokerCall("http_get", <<Constant(target)>>, <<>>, i)
SendBody(e, i) == Do(BrokerCall("send_http", <<Constant("alerts"), e>>, <<>>, i))
SendTo(e, i)   == Do(BrokerCall("send_http", <<e, Constant("pub")>>, <<>>, i))

\* A target that is spelled out and still unknown to the interpreter.
Either(low) == IfExp(low, Constant("crm"), Constant("pub"))

Preludes ==
    { << Assign("x", Get("crm", 1)), Assign("y", Constant("pub")) >>,
      << Assign("x", Name("state_in")), Assign("y", Display(<<>>)) >> }

\* The broker among other things, and the call of it there.
Handed(i) ==
    Do(MethodCall(Subscript(Display(<<Name("broker")>>), Constant("0")), "send_http",
                  <<Constant("alerts"), Name("y")>>, <<>>, i))

\* The send that an expression ends in.
Sending(i) == SendBody(Name("y"), i).value

\* Statements that may stand in an arm of an if or in a loop.
Arms(i) ==
    { Assign("y", Name("x")), Assign("y", Constant("alerts")),
      SendBody(Name("y"), i), SendTo(Name("y"), i), Return(Name("y")) }

Pool(i) ==
    Arms(i) \cup
    { Assign("y", Get("pub", i)),
      Assign("y", BrokerCall("http_get", <<Constant("pub"), Name("x")>>, <<>>, i)),
      Assign("x", BrokerCall("http_get", <<Name("y")>>, <<>>, i)),
      Assign("y", BrokerCall("declassify_bucket", <<Name("x")>>, <<>>, i)),
      Assign("y", BrokerCall("kv_get", <<Constant("pub")>>, <<>>, i)),
      Assign("y", BrokerCall("http_get", <<Constant("pub")>>, <<Name("x")>>, i)),
      Assign("y", BrokerCall("http_get", <<>>, <<Constant("crm")>>, i)),
      Do(BrokerCall("raw_socket", <<>>, <<>>, i)),
      Assign("x", Op(<<Name("y"), Name("uid")>>)),
      AugAssign("y", Name("x")),
      Assign("y", Call("str", <<Name("y")>>, <<Name("x")>>)),
      Assign("y", Call("max", <<Name("x"), Name("y")>>, <<>>)),
      \* The cell runs once more, with x for uid, when state_in is not empty.
      Do(BoolOp("and", <<Name("state_in"),
                         Call("cell", <<Name("x"), Display(<<>>)>>, <<>>)>>)),
      SendBody(Name("uid"), i),
      Assign("y", MethodCall(Constant("pub"), "format", <<>>, <<Name("x")>>, 0)),
      Assign("y", MethodCall(Name("x"), "get", <<Name("y")>>, <<>>, 0)),
      Assign("y", BoolOp("or", <<Name("x"), Name("y")>>)),
      Assign("y", BoolOp("and", <<Name("x"), Sending(i)>>)),
      Do(Compare(<<Name("y"), Name("y"), Sending(i)>>)),
      Do(Compare(<<Name("x"), Name("x"), Sending(i)>>)),
      \* Raises or not, as x is.
      Assign("y", Subscript(Display(<<Name("y")>>),
                            IfExp(Name("x"), Constant("0"), Constant("pub")))),
      Handed(i), Outside(SendBody(Constant("pub"), i)), Outside(Assign("z", Get("crm", i))),
      For("i", 1, <<>>, <<SendBody(Name("y"), i)>>),
      Assign("y", Either(Name("x"))),
      Assign("y", BrokerCall("http_get", <<Either(Name("uid"))>>, <<>>, i)),
      Assign("y", IfExp(Name("x"), Sending(i), Constant("pub"))),
      Assign("z", Name("y")),
      Store("z", Constant("pub"), Name("x")),
      Store("y", Constant("pub"), Name("x")),
      AugStore("y", Name("x")),
      AugStore("y", Get("crm", i)),
      Unpack("x", "y", Name("x")),
      For("i", 1025, <<>>, <<>>), Other }
    \cup {If(Name("x"), <<a>>, <<>>) : a \in Arms(i)}
    \cup {If(Name("x"), <<a>>, <<b>>) :
             a \in {Assign("y", Name("x")), SendBody(Name("y"), i)},
             b \in {Assign("y", Constant("alerts")), SendBody(Name("y"), i + 10)}}
    \cup {For("i", n, <<a>>, <<>>) :
             n \in {0, 2}, a \in {SendBody(Name("y"), i), Assign("y", Name("x"))}}
    \cup {For("i", 2, <<a, Assign("y", Name("x"))>>, <<>>) :
             a \in {SendBody(Name("y"), i), SendTo(Name("y"), i)}}

Ends(i) == { SendBody(Name("y"), i), Return(Name("y")) }

\* Objects under several names: y and z, an item of the other, changed or not.
Sharing ==
    { Assign("z", Name("y")), Assign("y", Name("z")),
      Assign("y", BoolOp("or", <<Name("z"), Name("y")>>)),
      Assign("z", Display(<<Name("y")>>)), Assign("y", Display(<<Name("z")>>)),
      Assign("y", Op(<<Name("y"), Name("z")>>)),
      Assign("z", Subscript(Name("y"), Constant("0"))),
      Assign("y", MethodCall(Name("z"), "get", <<Constant("0")>>, <<>>, 0)),
      AssignAll(<<"y", "z">>, Display(<<>>)),
      Store("z", Constant("0"), Name("x")), Store("y", Constant("0"), Name("z")),
      AugAssign("z", Name("x")), AugAssign("y", Name("z")),
      Do(MethodCall(Subscript(Name("y"), Constant("0")), "append", <<Name("x")>>, <<>>, 0)) }

SharingPrograms ==
    {<<Assign("x", Get("crm", 1)), Assign("z", Display(<<>>)), Assign("y", Display(<<>>)),
       a, b, c, e>> :
        a \in Sharing, b \in Sharing, c \in Sharing, e \in Ends(4)}

CellPrograms ==
    {p \o <<a, b>> \o c : p \in Preludes, a \in Pool(2), b \in Pool(3),
                           c \in {<<e>> : e \in Ends(4)} \cup {<<>>}}

\* A branch on high data that sets y, and y sent behind it.
BranchPrograms ==
    {p \o <<If(Name("x"), <<Assign("y", Constant("alerts"))>>, <<>>), c>> :
        p \in Preludes, c \in {SendBody(Name("y"), 4)}}

\* What the builder does not look at: the else of a loop, code next to the cell,
\* the value of an augmented store, the broker under another name.
EnvelopePrograms ==
    {p \o <<c>> : p \in Preludes,
                  c \in { Handed(2), AugStore("y", Sending(2)),
                          Outside(SendBody(Constant("pub"), 2)),
                          For("i", 1, <<>>, <<SendBody(Name("y"), 2)>>) }}

-----------------------------------------------------------------------------
(* What ast.parse makes of a cell *)

\* The node over these subtrees, which are tables of their own.
Tree(type, name, subtrees) ==
    FoldLeft(LAMBDA table, sub :
                 table \o [i \in DOMAIN sub |->
                     [sub[i] EXCEPT !.parent = IF @ = 0 THEN 1 ELSE @ + Len(table)]],
             <<[type |-> type, name |-> name, parent |-> 0]>>, subtrees)

Var(x)         == Tree("Name", x, <<>>)
Attr(e, a)     == Tree("Attribute", a, <<e>>)
CallOf(f, args) == Tree("Call", "", <<f>> \o args)

RECURSIVE TreeOf(_)

TreesOf(es) ==
    FoldLeft(LAMBDA ts, e :
                 IF e.node = "Constant" THEN ts ELSE Append(ts, TreeOf(e)), <<>>, es)

TreeOf(e) ==
    CASE e.node = "Name"  -> Var(e.id)
      [] e.node = "Constant" -> Tree("Constant", "", <<>>)
      [] e.node \in {"Op", "Display", "BoolOp", "Compare", "Subscript"} ->
             Tree(e.node, "", TreesOf(e.args))
      [] e.node = "MethodCall" ->
             CallOf(Attr(TreeOf(e.receiver), e.prim), TreesOf(e.args \o e.keywords))
      [] e.node = "IfExp" -> Tree("IfExp", "", TreesOf(<<e.test, e.body, e.orelse>>))
      [] e.node = "Call"  -> CallOf(Var(e.func), TreesOf(e.args \o e.keywords))
      [] e.node = "BrokerCall" ->
             CallOf(Attr(Var("broker"), e.prim), TreesOf(e.args \o e.keywords))
      [] e.node = "Assign" ->
             Tree("Assign", "", [i \in DOMAIN e.targets |-> Var(e.targets[i])]
                                \o TreesOf(<<e.value>>))
      [] e.node = "AugAssign" ->
             Tree("AugAssign", "", <<Var(e.target)>> \o TreesOf(<<e.value>>))
      [] e.node = "Store" ->
             Tree("Assign", "", <<Tree("Subscript", "", <<Var(e.target)>>
                                                         \o TreesOf(<<e.index>>))>>
                                \o TreesOf(<<e.value>>))
      [] e.node = "AugStore" ->
             Tree("AugAssign", "", <<Tree("Subscript", "", <<Var(e.target)>>)>>
                                   \o TreesOf(<<e.value>>))
      [] e.node = "Unpack" ->
             Tree("Assign", "", <<Tree("Tuple", "", <<Var(e.first), Var(e.second)>>)>>
                                \o TreesOf(<<e.value>>))
      [] e.node \in {"Expr", "Return"} -> Tree(e.node, "", TreesOf(<<e.value>>))
      [] e.node = "If" ->
             Tree("If", "", TreesOf(<<e.test>> \o e.body \o e.orelse))
      [] e.node = "For" ->
             Tree("For", "", <<Var(e.target), CallOf(Var("range"), <<>>)>>
                             \o TreesOf(e.body \o e.orelse))
      [] e.node = "Other"   -> Tree("Assert", "", <<>>)
      [] e.node = "Foreign" -> e.tree

Parsed(p) ==
    LET outside == SelectSeq(p, LAMBDA st : st.node = "Outside")
        inside  == SelectSeq(p, LAMBDA st : st.node # "Outside") IN
    Tree("Module", "", [i \in DOMAIN outside |-> TreeOf(Head(outside[i].body))]
                           \o <<Tree("FunctionDef", "cell", TreesOf(inside))>>)

-----------------------------------------------------------------------------
(* Cells that are not PyCap *)

Foreign(t) == <<[node |-> "Foreign", tree |-> t]>>

Unparsable == <<[node |-> "Unparsable"]>>

Fetch(args) == CallOf(Attr(Var("broker"), "http_get"), args)
Forbidden   == Tree("Import", "", <<>>)

ForeignPrograms ==
    {Foreign(t) : t \in
        { Forbidden,
          \* beneath what is refused, beneath an argument, beneath both
          Tree("While", "", <<Var("x"), Tree("Expr", "", <<Fetch(<<>>)>>)>>),
          Tree("Lambda", "", <<Var("eval")>>),
          Fetch(<<Var("os")>>),
          Fetch(<<Fetch(<<Attr(Var("x"), "__class__")>>)>>),
          \* calls: of a builtin, by another name, computed, of data, of a module
          CallOf(Var("eval"), <<Tree("Lambda", "", <<Forbidden>>)>>),
          CallOf(Var("helper"), <<>>),
          CallOf(Fetch(<<>>), <<>>),
          CallOf(Attr(Var("x"), "listdir"), <<>>),
          CallOf(Attr(Attr(Var("x"), "__init__"), "listdir"), <<Forbidden>>) }}

MCPrograms == CellPrograms \cup SharingPrograms \cup ForeignPrograms \cup {Unparsable}

MCparse(p) == IF p = Unparsable THEN <<>> ELSE Parsed(p)

MCDunder == {"__init__", "__class__"}
=============================================================================
