-------------------------------- MODULE Walk --------------------------------
(***************************************************************************)
(* AbstractInterpreter.verify as a machine: a walk over the instructions   *)
(* of a lowered cell, one at a time.  The walk is taken at both high-water *)
(* marks side by side, since the labels are all that differs.              *)
(***************************************************************************)
EXTENDS AbstractInterp, FiniteSets

VARIABLES
    cell,               \* SSACell: its parameters and its instructions
    at,                 \* the next instruction; 0 before verify is called
    abs,                \* the abstract state at either mark
    verdict

walkVars == <<cell, at, abs, verdict>>

\* Opening instructions among the first n, less the closing ones.
Depth(body, n, open, close) ==
    Cardinality({i \in 1 .. n : body[i].op = open})
        - Cardinality({i \in 1 .. n : body[i].op = close})

\* _match_close finds the end of every block, and every end has a beginning.
Nested(body, open, close) ==
    /\ \A n \in DOMAIN body : Depth(body, n, open, close) >= 0
    /\ Depth(body, Len(body), open, close) = 0

\* What the builder hands over, see Verifier.
LoweredCell(c) ==
    /\ c.params \subseteq VarName
    /\ c.body \in Seq(Instr)
    /\ \A i \in DOMAIN c.body : c.body[i].op = "store" => c.body[i].args # <<>>
    /\ Nested(c.body, "branch_in", "branch_out")
    /\ Nested(c.body, "loop_in", "loop_out")

NoBody == [params |-> {}, body |-> <<>>]

WalkInit ==
    /\ cell = NoBody
    /\ at = 0
    /\ abs = [lb \in Label |-> AbstractState(<<>>, {}, lb)]
    /\ verdict = "none"

\* verify(c): a new abstract state.
Enter(c) ==
    /\ at = 0 /\ verdict = "none"
    /\ cell' = c
    /\ at' = 1
    /\ abs' = [lb \in Label |-> AbstractState(<<>>, c.params, lb)]
    /\ UNCHANGED verdict

Walking == verdict = "none" /\ at \in 1 .. Len(cell.body)

Step ==
    /\ Walking /\ ~OutOfGas(abs[BOTTOM], cell.body[at])
    /\ abs' = [lb \in Label |->
                 RunInstr(Charge(abs[lb], cell.body[at]), cell.body[at])]
    /\ at' = at + 1
    /\ UNCHANGED <<cell, verdict>>

Exhaust ==
    /\ Walking /\ OutOfGas(abs[BOTTOM], cell.body[at])
    /\ verdict' = "rejected"
    /\ UNCHANGED <<cell, at, abs>>

Accept ==
    /\ verdict = "none" /\ at = Len(cell.body) + 1
    /\ verdict' = "accepted"
    /\ UNCHANGED <<cell, at, abs>>

\* The cells that the builder can hand over are the ones that Verifier enters.
WalkNext ==
    \/ \E params \in SUBSET VarName, body \in Seq(Instr) :
          LET c == [params |-> params, body |-> body] IN LoweredCell(c) /\ Enter(c)
    \/ Step \/ Exhaust \/ Accept

WalkSpec == WalkInit /\ [][WalkNext]_walkVars

-----------------------------------------------------------------------------
(* Properties *)

Accepted == verdict = "accepted"

ManifestAt(lb) == abs[lb].manifest

\* The builder hands over instructions that nest; the walk leaves every branch it
\* enters, and ends with a manifest of effects under one ceiling, as the CVM asks
\* of manifests (abstract_interp.py verify).
WalkTypeOK ==
    /\ LoweredCell(cell)
    /\ at \in 0 .. Len(cell.body) + 1
    /\ \A lb \in Label :
          /\ abs[lb].pc \in Label /\ abs[lb].hwm \in Label /\ abs[lb].gas \in 0 .. Gas
          /\ \A r \in DOMAIN abs[lb].regs : r \in Reg /\ abs[lb].regs[r] \in AbstractVal
          /\ ManifestAt(lb).effects \in Seq(Effect)
          /\ CeilingCovers(ManifestAt(lb))
          /\ Accepted => abs[lb].saved = <<>> /\ abs[lb].pc = BOTTOM

\* A manifest made at the low mark declares the calls that one made at the high
\* mark does, in the same order, and none of them higher: only a manifest cached
\* at the low mark can be too weak (cvm.py:75, abstract_interp.py verify).
MarksAreOrdered ==
    LET low  == ManifestAt(BOTTOM)
        high == ManifestAt(HIGH) IN
    /\ Len(low.effects) = Len(high.effects)
    /\ \A i \in DOMAIN low.effects :
          /\ low.effects[i] = [high.effects[i] EXCEPT !.label = low.effects[i].label]
          /\ leq(low.effects[i].label, high.effects[i].label)
    /\ leq(low.label_ceiling, high.label_ceiling)
=============================================================================
