---------------------------- MODULE FilterProofs ----------------------------
(***************************************************************************)
(* Theorem about Filter, for every syntax tree that FilterAssumption       *)
(* allows: whatever cells are submitted and however deep they nest.        *)
(***************************************************************************)
EXTENDS Filter, SequenceTheorems, WellFoundedInduction, TLAPS

\* The inductive invariant: what has been visited has been judged, and nothing
\* is complained of that is not forbidden.
FilterInv ==
    /\ program \in Programs /\ tree = parse(program)
    /\ seen \subseteq Nodes
    /\ errors \in Seq(Nat)
    /\ \A i \in seen : Offends(i) => \E k \in DOMAIN errors : errors[k] = i
    /\ \A k \in DOMAIN errors : errors[k] \in Nodes /\ Offends(errors[k])

\* The parents of a tree's nodes come before them (ast.NodeVisitor).
LEMMA TreeShape ==
    ASSUME FilterInv, NEW i \in Nodes
    PROVE  /\ i \in Nat \ {0}
           /\ i # 1 => tree[i].parent \in Nodes /\ tree[i].parent < i
<1>1. tree \in Seq([type : STRING, name : STRING, parent : Nat])
  BY FilterAssumption DEF FilterInv
<1>2. tree[i].parent < i /\ (tree[i].parent = 0 <=> i = 1)
  BY FilterAssumption DEF FilterInv, Nodes
<1>3. Nodes = 1 .. Len(tree) /\ Len(tree) \in Nat
  BY <1>1 DEF Nodes
<1>4. tree[i] \in [type : STRING, name : STRING, parent : Nat]
  BY <1>1, <1>3, ElementOfSeq
<1> QED
  BY <1>2, <1>3, <1>4

\* A set of nodes has a first one.
LEMMA FirstNode ==
    ASSUME NEW S \in SUBSET Nat, S # {}
    PROVE  \E i \in S : \A j \in S : i <= j
<1>1. PICK i \in S : \A j \in S : <<j, i>> \notin OpToRel(<, Nat)
  BY NatLessThanWellFounded, WFMin, Zenon
<1>2. \A j \in S : ~(j < i)
  BY <1>1, Zenon DEF OpToRel
<1> QED
  BY <1>2

\* A walk that has come to its end without a complaint has been everywhere: only
\* what is complained of hides its children (grammar.py generic_visit).
LEMMA WalkIsThorough ==
    ASSUME FilterInv, Due = {}, errors = <<>>
    PROVE  seen = Nodes
<1> SUFFICES ASSUME Nodes \ seen # {}
             PROVE  FALSE
  BY DEF FilterInv
<1>1. Nodes \ seen \in SUBSET Nat
  BY TreeShape
<1>2. PICK i \in Nodes \ seen : \A j \in Nodes \ seen : i <= j
  BY <1>1, FirstNode
<1>3. i # 1
  BY <1>2 DEF Due
<1>4. tree[i].parent \in Nodes /\ tree[i].parent < i /\ i \in Nat
  BY <1>3, TreeShape
<1>5. tree[i].parent \in Nat
  BY <1>4, TreeShape
<1>6. tree[i].parent \in seen
  BY <1>2, <1>4, <1>5
<1>7. ~Offends(tree[i].parent)
  BY <1>6 DEF FilterInv
<1>8. Descends(tree[i].parent)
  BY <1>7 DEF Offends, Descends
<1> QED
  BY <1>2, <1>6, <1>8 DEF Due

\* A visit judges the node it makes, and no other (grammar.py _Filter).
LEMMA VisitKeeps ==
    ASSUME FilterInv, Visit
    PROVE  FilterInv'
<1> USE DEF FilterInv
<1>1. PICK i \in Due : /\ seen' = seen \cup {i}
                       /\ errors' = IF Offends(i) THEN Append(errors, i) ELSE errors
  BY DEF Visit
<1>2. program' = program /\ tree' = tree
  BY DEF Visit
<1>3. i \in Nodes /\ i \in Nat
  BY TreeShape DEF Due
<1>4. Nodes' = Nodes /\ \A j : Offends(j)' = Offends(j)
  BY <1>2 DEF Nodes, Offends, LawfulCall
<1>5. CASE Offends(i)
  <2>1. /\ errors' = Append(errors, i)
        /\ errors' \in Seq(Nat)
        /\ Len(errors') = Len(errors) + 1
        /\ errors'[Len(errors) + 1] = i
        /\ \A k \in DOMAIN errors : k \in DOMAIN errors' /\ errors'[k] = errors[k]
        /\ Len(errors) + 1 \in DOMAIN errors'
    BY <1>1, <1>3, <1>5, AppendProperties
  <2>2. ASSUME NEW k \in DOMAIN errors'
        PROVE  errors'[k] \in Nodes /\ Offends(errors'[k])
    <3>1. k \in DOMAIN errors \/ k = Len(errors) + 1
      BY <2>1
    <3> QED
      BY <2>1, <3>1, <1>3, <1>5
  <2>3. ASSUME NEW j \in seen', Offends(j)
        PROVE  \E k \in DOMAIN errors' : errors'[k] = j
    BY <1>1, <2>1, <2>3
  <2> QED
    BY <1>1, <1>2, <1>3, <1>4, <2>1, <2>2, <2>3
<1>6. CASE ~Offends(i)
  BY <1>1, <1>2, <1>3, <1>4, <1>6
<1> QED
  BY <1>5, <1>6

\* Nothing forbidden gets through the filter, wherever the tree of the cell has
\* it, and nothing is refused without a reason (grammar.py syntax_filter).
THEOREM FilterExact == FilterSpec => []FilterIsExact
<1>1. FilterInit => FilterInv
  BY DEF FilterInit, FilterInv
<1>2. FilterInv /\ [Visit]_filterVars => FilterInv'
  <2>1. CASE Visit
    BY <2>1, VisitKeeps
  <2>2. ASSUME UNCHANGED filterVars, FilterInv
        PROVE  FilterInv'
    BY <2>2 DEF filterVars, FilterInv, Nodes, Offends, LawfulCall
  <2> QED
    BY <2>1, <2>2
<1>3. FilterInv => FilterIsExact
  <2> SUFFICES ASSUME FilterInv
               PROVE  FilterIsExact
    OBVIOUS
  <2>1. Passes => \A i \in Nodes : ~Offends(i)
    BY WalkIsThorough DEF Passes, FilterInv
  <2>2. Refused => Nodes = {} \/ \E i \in Nodes : Offends(i)
    <3> SUFFICES ASSUME errors # <<>>
                 PROVE  \E i \in Nodes : Offends(i)
      BY DEF Refused
    <3>1. 1 \in DOMAIN errors
      BY DEF FilterInv
    <3> QED
      BY <3>1 DEF FilterInv
  <2> QED
    BY <2>1, <2>2 DEF FilterIsExact
<1> QED
  BY <1>1, <1>2, <1>3, PTL DEF FilterSpec
=============================================================================
