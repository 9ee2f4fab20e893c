--------------------------- MODULE AbstractInterp ---------------------------
(***************************************************************************)
(* The abstract interpreter of verifier/abstract_interp.py: it walks the   *)
(* SSA instructions of a cell once, tracks a label for every register and  *)
(* for the control flow, and writes an effect into the manifest for every  *)
(* broker call it meets.                                                   *)
(*                                                                         *)
(* The blocks of _run_block are nested calls over slices of one flat list; *)
(* here they are the list itself and a stack of the pc labels that the     *)
(* callers keep in old_pc.                                                 *)
(*                                                                         *)
(* Instructions whose only effect is that the result is as high as the     *)
(* operands (binop, cmp, boolop, unaryop, select, subscript, slice, list,  *)
(* dict, tuple, method_call) are one op, "join".  A static value matters   *)
(* where it is a string that can be a target; every other value, known or  *)
(* not, binds a target to "*".                                             *)
(***************************************************************************)
EXTENDS Manifest

CONSTANTS
    VarName,            \* names that occur in cells
    HighSource,         \* targets that start with crm://, hr:// or med://
    Gas                 \* ResourceBudget.gas

ASSUME InterpAssumption ==
    /\ HighSource \subseteq Target /\ AnyTarget \in Target
    /\ Gas \in Nat

\* A register is a name of the cell's or the n-th fresh one.
Reg == ({"name"} \X VarName) \cup ({"%"} \X Nat)

\* What SSABuilder emits; fields an operation does not use hold a default.
Instr == [op : {"const", "assign", "join", "call", "store", "phi", "broker_call",
                "branch_in", "branch_out", "loop_in", "loop_out", "return"},
          dst : Reg, args : Seq(Reg), keywords : Seq(Reg),
          prim : Primitive, static : Target]

AbstractVal == [label : Label, static : Target]

Val(label, static) == [label |-> label, static |-> static]

\* Mutant of ValJoin: the value of the first arm is kept.
ValJoinFirst(a, b) == Val(join(a.label, b.label), a.static)

ValJoin(a, b) ==
    Val(join(a.label, b.label), IF a.static = b.static THEN a.static ELSE AnyTarget)

\* verify(): the parameters start at the session's mark.
AbstractState(ir, params, hwm_in) ==
    [regs |-> [r \in {<<"name", p>> : p \in params} |-> Val(hwm_in, AnyTarget)],
     pc |-> BOTTOM, hwm |-> hwm_in, gas |-> Gas, saved |-> <<>>,
     manifest |-> NewManifest(ir)]

\* A register that nobody has set is external and as high as the mark is now.
get(s, r) == IF r \in DOMAIN s.regs THEN s.regs[r] ELSE Val(s.hwm, AnyTarget)

set(s, r, v) ==
    [s EXCEPT !.regs = [q \in DOMAIN @ \cup {r} |-> IF q = r THEN v ELSE @[q]]]

\* Lattice.join_many over the labels of some registers.
LabelOf(s, rs) ==
    IF \E i \in DOMAIN rs : get(s, rs[i]).label = HIGH THEN HIGH ELSE BOTTOM

source_label(target) == IF target \in HighSource THEN HIGH ELSE BOTTOM

-----------------------------------------------------------------------------
(* _broker_call *)

BROKER_OBS  == {"http_get", "db_read", "fs_read", "kv_get"}
BROKER_MUT  == {"send_http", "db_write", "fs_write", "kv_put"}
BROKER_DECL == {"declassify_bucket", "declassify_hash", "declassify_redact"}

KindOf(prim) == CASE prim \in BROKER_OBS  -> "Obs"
                  [] prim \in BROKER_DECL -> "Decl"
                  [] OTHER                -> "Mut"

TargetOf(s, ins) ==
    IF ins.args = <<>> THEN AnyTarget ELSE get(s, ins.args[1]).static

\* Mutant of FlowLabel: the control flow is left out.
FlowLabelNoPc(s, ins) == LabelOf(s, ins.args \o ins.keywords)

\* Control flow and everything that is passed.
FlowLabel(s, ins) == join(s.pc, LabelOf(s, ins.args \o ins.keywords))

\* Mutant of EffectLabel: an observation is as high as what is passed to it.
EffectLabelNoSource(s, ins) ==
    CASE ins.prim \in BROKER_OBS \cup BROKER_MUT -> FlowLabel(s, ins)
      [] ins.prim \in BROKER_DECL -> BOTTOM
      [] OTHER                    -> HIGH

\* Mutant of EffectLabel: a source is left to a mark that is above it anyway.
EffectLabelBelowMark(s, ins) ==
    CASE ins.prim \in BROKER_OBS ->
             IF s.hwm = HIGH THEN FlowLabel(s, ins)
             ELSE join(FlowLabel(s, ins), source_label(TargetOf(s, ins)))
      [] ins.prim \in BROKER_MUT  -> FlowLabel(s, ins)
      [] ins.prim \in BROKER_DECL -> BOTTOM
      [] OTHER                    -> HIGH

\* The label of the effect: the session's mark takes no part in it.
EffectLabel(s, ins) ==
    CASE ins.prim \in BROKER_OBS ->
             join(FlowLabel(s, ins), source_label(TargetOf(s, ins)))
      [] ins.prim \in BROKER_MUT  -> FlowLabel(s, ins)
      [] ins.prim \in BROKER_DECL -> BOTTOM
      [] OTHER                    -> HIGH

broker_call(s, ins) ==
    LET eff == [kind |-> KindOf(ins.prim), primitive |-> ins.prim,
                target |-> TargetOf(s, ins), label |-> EffectLabel(s, ins)]
        seen == IF eff.kind = "Obs" THEN join(s.hwm, source_label(eff.target))
                ELSE s.hwm IN
    set([s EXCEPT !.hwm = seen, !.manifest = add_effect(@, eff)],
        ins.dst, Val(eff.label, AnyTarget))

-----------------------------------------------------------------------------
(* _run_block and _run_instr.  The closing instructions cost no gas. *)

Free(ins) == ins.op \in {"branch_out", "loop_out"}

OutOfGas(s, ins) == ~Free(ins) /\ s.gas <= 0

Charge(s, ins) == IF Free(ins) THEN s ELSE [s EXCEPT !.gas = @ - 1]

EnterBranch(s, ins) ==
    [s EXCEPT !.saved = Append(@, s.pc), !.pc = join(@, LabelOf(s, ins.args))]

\* Mutant of LeaveBranch: the saved pc stays on the stack.
LeaveBranchKeeps(s) == [s EXCEPT !.pc = s.saved[Len(s.saved)]]

LeaveBranch(s) ==
    [s EXCEPT !.pc = s.saved[Len(s.saved)], !.saved = SubSeq(@, 1, Len(@) - 1)]

\* The pc is the one of the code behind the branch: LeaveBranch has run.
Phi(s, ins) ==
    LET merged == ValJoin(get(s, ins.args[1]), get(s, ins.args[2])) IN
    set(s, ins.dst, [merged EXCEPT !.label = join(@, s.pc)])

RunInstr(s, ins) ==
    CASE ins.op = "const"       -> set(s, ins.dst, Val(BOTTOM, ins.static))
      [] ins.op = "assign"      -> set(s, ins.dst, get(s, ins.args[1]))
      [] ins.op = "join"        -> set(s, ins.dst, Val(LabelOf(s, ins.args), AnyTarget))
      \* A plain call: its keyword arguments are not looked at.
      [] ins.op = "call"        -> set(s, ins.dst, Val(LabelOf(s, ins.args), AnyTarget))
      \* ins.args: the container, the index and the value.
      [] ins.op = "store"       -> set(s, ins.args[1], Val(LabelOf(s, ins.args), AnyTarget))
      [] ins.op = "phi"         -> Phi(s, ins)
      [] ins.op = "broker_call" -> broker_call(s, ins)
      [] ins.op = "branch_in"   -> EnterBranch(s, ins)
      [] ins.op = "branch_out"  -> LeaveBranch(s)
      [] ins.op \in {"loop_in", "loop_out", "return"} -> s
=============================================================================
