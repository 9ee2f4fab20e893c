------------------------------- MODULE Filter -------------------------------
(***************************************************************************)
(* The syntax filter of pycap/grammar.py: a walk over the syntax tree of a *)
(* cell that collects what PyCap does not allow.                           *)
(*                                                                         *)
(* A tree is the sequence of its nodes in the order in which generic_visit *)
(* comes to them: the module first, a node before its children, the        *)
(* children in the order of their fields.  A node has its type, the        *)
(* identifier or attribute it spells, and the place of its parent, which   *)
(* is 0 for the module.  The first child of a call is what is called, that *)
(* of an attribute is what it is taken of.  Other nodes that have neither  *)
(* children nor a visit method (literals, parameters, contexts) are left   *)
(* out.                                                                    *)
(***************************************************************************)
EXTENDS Integers, Sequences

CONSTANTS
    Programs,           \* the cells that are submitted
    parse(_),           \* ast.parse of each of them; <<>> when that fails
    Dunder              \* the attributes that start with "__"

ASSUME FilterAssumption ==
    \A p \in Programs :
        LET nodes == parse(p) IN
        /\ nodes \in Seq([type : STRING, name : STRING, parent : Nat])
        /\ \A i \in DOMAIN nodes :
              /\ nodes[i].parent < i
              /\ nodes[i].parent = 0 <=> i = 1

VARIABLES
    program,            \* the cell
    tree,               \* its syntax tree
    seen,               \* the nodes visited so far
    errors              \* _Filter.errors: the nodes complained of, in order

filterVars == <<program, tree, seen, errors>>

ALLOWED_CALL_ROOTS == {"broker"}

ALLOWED_BUILTINS ==
    {"len", "sum", "min", "max", "abs", "range", "int", "float", "str", "bool",
     "list", "dict", "tuple", "sorted", "any", "all", "round"}

FORBIDDEN_NAMES ==
    {"__import__", "eval", "exec", "compile", "globals", "locals", "vars", "dir",
     "getattr", "setattr", "hasattr", "delattr", "open", "input", "exit", "quit",
     "socket", "os", "sys", "subprocess", "ctypes", "importlib", "marshal",
     "pickle", "Thread", "Process", "__class__", "__bases__", "__mro__",
     "__subclasses__", "__globals__", "__builtins__", "__dict__"}

\* Refused as such; their visit methods do not go on to the children.
Structural == {"Import", "ImportFrom", "While", "AsyncFunctionDef", "Try", "Raise",
               "Lambda", "Global", "Nonlocal"}

Nodes == DOMAIN tree

\* A call is by a builtin's name, or of an attribute: of the broker, of an
\* expression, or one of those that data structures have.
LawfulCall(i) ==
    LET f == tree[i + 1] IN
    \/ f.type = "Name" /\ f.name \in ALLOWED_BUILTINS \cup {"cell"}
    \/ /\ f.type = "Attribute"
       /\ \/ tree[i + 2].type # "Name"
          \/ tree[i + 2].name \in ALLOWED_CALL_ROOTS
          \/ f.name \in {"get", "items", "keys", "values"}

\* What the visit method of the node's type appends to errors.
Offends(i) ==
    LET n == tree[i] IN
    \/ n.type \in Structural
    \/ n.type = "Name" /\ n.name \in FORBIDDEN_NAMES
    \/ n.type = "Attribute" /\ n.name \in Dunder \ {"__init__"}
    \/ n.type = "Call" /\ ~LawfulCall(i)

\* Mutant of Descends: visit_Call does not go on to the arguments.
DescendsNoCall(i) == tree[i].type \notin Structural \cup {"Call"}

\* Whether the visit method ends with generic_visit.
Descends(i) == tree[i].type \notin Structural

\* The nodes whose visit has been asked for and not yet made.
Due == {i \in Nodes \ seen :
           i = 1 \/ (tree[i].parent \in seen /\ Descends(tree[i].parent))}

FilterInit ==
    /\ program \in Programs /\ tree = parse(program)
    /\ seen = {} /\ errors = <<>>

\* A child is visited before the next sibling of its parent.
Visit ==
    /\ \E i \in Due :
          /\ \A j \in Due : i <= j
          /\ seen' = seen \cup {i}
          /\ errors' = IF Offends(i) THEN Append(errors, i) ELSE errors
    /\ UNCHANGED <<program, tree>>

FilterSpec == FilterInit /\ [][Visit]_filterVars

\* syntax_filter returns the tree.
Passes == Nodes # {} /\ Due = {} /\ errors = <<>>

\* syntax_filter raises: the source does not parse, or the walk found errors.
Refused == Due = {} /\ (Nodes = {} \/ errors # <<>>)

-----------------------------------------------------------------------------
(* Property *)

\* A cell passes exactly when none of its nodes is forbidden, wherever it is,
\* although the walk does not look beneath what it refuses ("Returns the AST or
\* raises PyCapSyntaxError", grammar.py:108): no visit method that forgets its
\* children hides one.
FilterIsExact ==
    /\ Passes => \A i \in Nodes : ~Offends(i)
    /\ Refused => Nodes = {} \/ \E i \in Nodes : Offends(i)
=============================================================================
