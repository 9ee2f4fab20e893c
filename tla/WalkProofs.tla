----------------------------- MODULE WalkProofs -----------------------------
(***************************************************************************)
(* Theorems about Walk, for every lowered cell of any length: the walk is  *)
(* typed and leaves every branch, the ceiling of the manifest covers its   *)
(* effects, and the walks at the two high-water marks stay in order.       *)
(***************************************************************************)
EXTENDS Walk, SequenceTheorems, FiniteSetTheorems, TLAPS

(* The abstract state as one record *)

RegMap == UNION {[D -> AbstractVal] : D \in SUBSET Reg}

DraftManifest == [ir_hash : {<<>>}, effects : Seq(Effect), label_ceiling : Label]

AbsState == [regs : RegMap, pc : Label, hwm : Label, gas : Int, saved : Seq(Label),
             manifest : DraftManifest]

(* The two walks in order: one is nowhere higher than the other, and they  *)
(* differ in labels only.                                                  *)

ValBelow(v, w) == leq(v.label, w.label) /\ v.static = w.static

RegsBelow(f, g) ==
    /\ DOMAIN f = DOMAIN g
    /\ \A r \in DOMAIN f : ValBelow(f[r], g[r])

StackBelow(p, q) ==
    /\ Len(p) = Len(q)
    /\ \A i \in 1 .. Len(p) : leq(p[i], q[i])

EffectBelow(d, e) ==
    /\ d.kind = e.kind /\ d.primitive = e.primitive /\ d.target = e.target
    /\ leq(d.label, e.label)

ManifestBelow(m, n) ==
    /\ Len(m.effects) = Len(n.effects)
    /\ \A i \in 1 .. Len(m.effects) : EffectBelow(m.effects[i], n.effects[i])
    /\ leq(m.label_ceiling, n.label_ceiling)

Below(s, t) ==
    /\ RegsBelow(s.regs, t.regs)
    /\ leq(s.pc, t.pc) /\ leq(s.hwm, t.hwm) /\ s.gas = t.gas
    /\ StackBelow(s.saved, t.saved)
    /\ ManifestBelow(s.manifest, t.manifest)

\* What is known of an instruction when the walk comes to it.
Runnable(s, ins) ==
    /\ ins.op = "store" => ins.args # <<>>
    /\ ins.op = "branch_out" => s.saved # <<>>

\* At the foot of the stack is the pc of the cell's own code, which is low.
Grounded(s) == IF s.saved = <<>> THEN s.pc = BOTTOM ELSE s.saved[1] = BOTTOM

-----------------------------------------------------------------------------
(* Labels and registers *)

\* Joins are labels, and rise with what is joined (lattice.py join).
LEMMA JoinRises ==
    ASSUME NEW a \in Label, NEW b \in Label
    PROVE  /\ join(a, b) \in Label /\ leq(a, join(a, b)) /\ leq(b, join(a, b))
           /\ \A c, d \in Label : leq(a, c) /\ leq(b, d) => leq(join(a, b), join(c, d))
  BY DEF Label, join, leq, BOTTOM, HIGH

\* A map of registers has registers in its domain and values in its range.
LEMMA RegMapDef ==
    ASSUME NEW f
    PROVE  f \in RegMap <=> /\ f \in [DOMAIN f -> AbstractVal]
                            /\ DOMAIN f \subseteq Reg
<1>1. ASSUME f \in RegMap
      PROVE  f \in [DOMAIN f -> AbstractVal] /\ DOMAIN f \subseteq Reg
  <2>1. PICK D \in SUBSET Reg : f \in [D -> AbstractVal]
    BY <1>1, Zenon DEF RegMap
  <2> QED
    BY <2>1
<1>2. ASSUME f \in [DOMAIN f -> AbstractVal], DOMAIN f \subseteq Reg
      PROVE  f \in RegMap
  BY <1>2, Zenon DEF RegMap
<1> QED
  BY <1>1, <1>2

\* Reading a register gives a value, whether it has been set or not
\* (abstract_interp.py AbstractState.get).
LEMMA GetType ==
    ASSUME NEW s \in AbsState, NEW r
    PROVE  get(s, r) \in AbstractVal
<1>1. s.regs \in [DOMAIN s.regs -> AbstractVal]
  BY RegMapDef DEF AbsState
<1>2. s.hwm \in Label /\ AnyTarget \in Target
  BY InterpAssumption DEF AbsState
<1> QED
  BY <1>1, <1>2 DEF get, Val, AbstractVal

\* Setting a register changes that register and nothing else
\* (abstract_interp.py AbstractState.set).
LEMMA SetType ==
    ASSUME NEW s \in AbsState, NEW r \in Reg, NEW v \in AbstractVal
    PROVE  /\ set(s, r, v) \in AbsState
           /\ DOMAIN set(s, r, v).regs = DOMAIN s.regs \cup {r}
           /\ set(s, r, v).regs[r] = v
           /\ \A q \in DOMAIN s.regs \ {r} : set(s, r, v).regs[q] = s.regs[q]
           /\ set(s, r, v).pc = s.pc /\ set(s, r, v).hwm = s.hwm
           /\ set(s, r, v).gas = s.gas /\ set(s, r, v).saved = s.saved
           /\ set(s, r, v).manifest = s.manifest
<1> DEFINE g == [q \in DOMAIN s.regs \cup {r} |-> IF q = r THEN v ELSE s.regs[q]]
<1>1. s.regs \in [DOMAIN s.regs -> AbstractVal] /\ DOMAIN s.regs \subseteq Reg
  BY RegMapDef DEF AbsState
<1>2. /\ DOMAIN g = DOMAIN s.regs \cup {r}
      /\ g \in [DOMAIN g -> AbstractVal]
      /\ g[r] = v
      /\ \A q \in DOMAIN s.regs \ {r} : g[q] = s.regs[q]
  BY <1>1
<1>3. g \in RegMap
  BY <1>1, <1>2, RegMapDef
<1>4. set(s, r, v) = [s EXCEPT !.regs = g]
  BY DEF set
<1> HIDE DEF g
<1> QED
  BY <1>2, <1>3, <1>4 DEF AbsState

\* The label of several registers is a label (lattice.py join_many).
LEMMA LabelOfType ==
    ASSUME NEW s, NEW rs
    PROVE  LabelOf(s, rs) \in Label
  BY DEF LabelOf, Label

-----------------------------------------------------------------------------
(* The order of the two walks *)

\* What is read is in order (abstract_interp.py AbstractState.get).
LEMMA GetRises ==
    ASSUME NEW s \in AbsState, NEW t \in AbsState, Below(s, t), NEW r
    PROVE  ValBelow(get(s, r), get(t, r))
<1>1. CASE r \in DOMAIN s.regs
  BY <1>1 DEF Below, RegsBelow, get
<1>2. CASE r \notin DOMAIN s.regs
  BY <1>2 DEF Below, RegsBelow, get, ValBelow, Val
<1> QED
  BY <1>1, <1>2

\* So is the label of several registers (lattice.py join_many).
LEMMA LabelOfRises ==
    ASSUME NEW s \in AbsState, NEW t \in AbsState, Below(s, t), NEW rs
    PROVE  leq(LabelOf(s, rs), LabelOf(t, rs))
<1>1. CASE \E i \in DOMAIN rs : get(s, rs[i]).label = HIGH
  <2>1. PICK i \in DOMAIN rs : get(s, rs[i]).label = HIGH
    BY <1>1
  <2>2. leq(HIGH, get(t, rs[i]).label)
    BY <2>1, GetRises DEF ValBelow
  <2>3. get(t, rs[i]).label \in Label
    BY GetType DEF AbstractVal
  <2>4. get(t, rs[i]).label = HIGH
    BY <2>2, <2>3 DEF leq, Label, HIGH, BOTTOM
  <2>5. LabelOf(t, rs) = HIGH
    BY <2>4 DEF LabelOf
  <2> QED
    BY <2>5 DEF LabelOf, leq, HIGH, BOTTOM
<1>2. CASE ~\E i \in DOMAIN rs : get(s, rs[i]).label = HIGH
  BY <1>2 DEF LabelOf, leq, HIGH, BOTTOM
<1> QED
  BY <1>1, <1>2

\* Setting a register to values in order keeps the order.
LEMMA SetRises ==
    ASSUME NEW s \in AbsState, NEW t \in AbsState, Below(s, t),
           NEW r \in Reg, NEW v \in AbstractVal, NEW w \in AbstractVal, ValBelow(v, w)
    PROVE  Below(set(s, r, v), set(t, r, w))
<1> DEFINE a == set(s, r, v)
           b == set(t, r, w)
<1>1. /\ DOMAIN a.regs = DOMAIN s.regs \cup {r} /\ a.regs[r] = v
      /\ \A q \in DOMAIN s.regs \ {r} : a.regs[q] = s.regs[q]
      /\ a.pc = s.pc /\ a.hwm = s.hwm /\ a.gas = s.gas
      /\ a.saved = s.saved /\ a.manifest = s.manifest
  BY SetType
<1>2. /\ DOMAIN b.regs = DOMAIN t.regs \cup {r} /\ b.regs[r] = w
      /\ \A q \in DOMAIN t.regs \ {r} : b.regs[q] = t.regs[q]
      /\ b.pc = t.pc /\ b.hwm = t.hwm /\ b.gas = t.gas
      /\ b.saved = t.saved /\ b.manifest = t.manifest
  BY SetType
<1> HIDE DEF a, b
<1>3. RegsBelow(a.regs, b.regs)
  <2>1. DOMAIN s.regs = DOMAIN t.regs
    BY DEF Below, RegsBelow
  <2>2. ASSUME NEW q \in DOMAIN a.regs
        PROVE  ValBelow(a.regs[q], b.regs[q])
    <3>1. CASE q = r
      BY <1>1, <1>2, <3>1
    <3>2. CASE q # r
      <4>1. q \in DOMAIN s.regs \ {r} /\ q \in DOMAIN t.regs \ {r}
        BY <1>1, <2>1, <2>2, <3>2
      <4> QED
        BY <1>1, <1>2, <4>1 DEF Below, RegsBelow
    <3> QED
      BY <3>1, <3>2
  <2> QED
    BY <1>1, <1>2, <2>1, <2>2 DEF RegsBelow
<1>4. Below(a, b)
  BY <1>1, <1>2, <1>3 DEF Below
<1> QED
  BY <1>4 DEF a, b

-----------------------------------------------------------------------------
(* Broker calls *)

\* The effect a broker call declares.
DeclaredEffect(s, ins) ==
    [kind |-> KindOf(ins.prim), primitive |-> ins.prim,
     target |-> TargetOf(s, ins), label |-> EffectLabel(s, ins)]

SeenMark(s, ins) ==
    IF KindOf(ins.prim) = "Obs" THEN join(s.hwm, source_label(TargetOf(s, ins))) ELSE s.hwm

\* A broker call adds one effect to the manifest, raises the mark, and sets the
\* register of its result (abstract_interp.py _broker_call).
LEMMA BrokerCallDef ==
    ASSUME NEW s, NEW ins
    PROVE  broker_call(s, ins) =
             set([s EXCEPT !.hwm = SeenMark(s, ins),
                           !.manifest = add_effect(s.manifest, DeclaredEffect(s, ins))],
                 ins.dst, Val(EffectLabel(s, ins), AnyTarget))
  BY DEF broker_call, DeclaredEffect, SeenMark

\* Targets are targets, labels are labels.
LEMMA EffectType ==
    ASSUME NEW s \in AbsState, NEW ins \in Instr
    PROVE  /\ TargetOf(s, ins) \in Target
           /\ FlowLabel(s, ins) \in Label
           /\ EffectLabel(s, ins) \in Label
           /\ SeenMark(s, ins) \in Label
           /\ DeclaredEffect(s, ins) \in Effect
<1>1. TargetOf(s, ins) \in Target
  BY GetType, InterpAssumption DEF TargetOf, AbstractVal
<1>2. FlowLabel(s, ins) \in Label
  BY LabelOfType, JoinRises DEF FlowLabel, AbsState
<1>3. source_label(TargetOf(s, ins)) \in Label
  BY DEF source_label, Label
<1>4. EffectLabel(s, ins) \in Label
  <2>1. join(FlowLabel(s, ins), source_label(TargetOf(s, ins))) \in Label
    BY <1>2, <1>3, JoinRises
  <2>2. BOTTOM \in Label /\ HIGH \in Label
    BY DEF Label
  <2> QED
    BY <1>2, <2>1, <2>2 DEF EffectLabel
<1>5. SeenMark(s, ins) \in Label
  BY <1>3, JoinRises DEF SeenMark, AbsState
<1>6. KindOf(ins.prim) \in EffectKind /\ ins.prim \in Primitive
  BY DEF KindOf, EffectKind, Instr
<1>7. DeclaredEffect(s, ins) \in Effect
  BY <1>1, <1>4, <1>6 DEF DeclaredEffect, Effect
<1> QED
  BY <1>1, <1>2, <1>4, <1>5, <1>7

\* An effect more, under a ceiling that is raised over it (manifest.py
\* add_effect).
LEMMA AddEffectType ==
    ASSUME NEW m \in DraftManifest, NEW e \in Effect
    PROVE  /\ add_effect(m, e) \in DraftManifest
           /\ add_effect(m, e).effects = Append(m.effects, e)
           /\ add_effect(m, e).label_ceiling = join(m.label_ceiling, e.label)
           /\ CeilingCovers(m) => CeilingCovers(add_effect(m, e))
<1> DEFINE n == add_effect(m, e)
<1>1. /\ n.effects = Append(m.effects, e)
      /\ n.label_ceiling = join(m.label_ceiling, e.label)
  BY DEF add_effect, DraftManifest
<1>2. /\ Append(m.effects, e) \in Seq(Effect)
      /\ Len(Append(m.effects, e)) = Len(m.effects) + 1
      /\ DOMAIN Append(m.effects, e) = 1 .. Len(m.effects) + 1
      /\ Append(m.effects, e)[Len(m.effects) + 1] = e
      /\ \A i \in 1 .. Len(m.effects) : Append(m.effects, e)[i] = m.effects[i]
  BY AppendProperties DEF DraftManifest
<1>3. m.label_ceiling \in Label /\ e.label \in Label
  BY DEF DraftManifest, Effect
<1>4. /\ join(m.label_ceiling, e.label) \in Label
      /\ leq(m.label_ceiling, join(m.label_ceiling, e.label))
      /\ leq(e.label, join(m.label_ceiling, e.label))
  BY <1>3, JoinRises
<1>5. n \in DraftManifest
  BY <1>2, <1>4 DEF add_effect, DraftManifest
<1>6. ASSUME CeilingCovers(m), NEW i \in DOMAIN n.effects
      PROVE  leq(n.effects[i].label, n.label_ceiling)
  <2>1. i \in 1 .. Len(m.effects) \/ i = Len(m.effects) + 1
    BY <1>1, <1>2, <1>6 DEF DraftManifest
  <2>2. CASE i \in 1 .. Len(m.effects)
    <3>1. m.effects[i] \in Effect /\ i \in DOMAIN m.effects
      BY <2>2 DEF DraftManifest
    <3>2. m.effects[i].label \in Label
      BY <3>1 DEF Effect
    <3>3. leq(m.effects[i].label, m.label_ceiling)
      BY <1>6, <3>1 DEF CeilingCovers
    <3>4. leq(m.effects[i].label, n.label_ceiling)
      BY <1>1, <1>3, <1>4, <3>2, <3>3 DEF leq, Label, BOTTOM, HIGH
    <3> QED
      BY <1>1, <1>2, <2>2, <3>4
  <2>3. CASE i = Len(m.effects) + 1
    BY <1>1, <1>2, <1>4, <2>3
  <2> QED
    BY <2>1, <2>2, <2>3
<1> QED
  BY <1>1, <1>5, <1>6 DEF CeilingCovers

\* What a broker call leaves: a typed state under a ceiling, on the same stack
\* (abstract_interp.py _broker_call).
LEMMA BrokerCallType ==
    ASSUME NEW s \in AbsState, NEW ins \in Instr
    PROVE  LET u == broker_call(s, ins) IN
           /\ u \in AbsState
           /\ u.pc = s.pc /\ u.gas = s.gas /\ u.saved = s.saved
           /\ CeilingCovers(s.manifest) => CeilingCovers(u.manifest)
<1> DEFINE e == DeclaredEffect(s, ins)
           m == [s EXCEPT !.hwm = SeenMark(s, ins),
                          !.manifest = add_effect(s.manifest, e)]
<1>1. e \in Effect /\ SeenMark(s, ins) \in Label /\ EffectLabel(s, ins) \in Label
  BY EffectType
<1>2. /\ add_effect(s.manifest, e) \in DraftManifest
      /\ CeilingCovers(s.manifest) => CeilingCovers(add_effect(s.manifest, e))
  BY <1>1, AddEffectType DEF AbsState
<1> HIDE DEF e
<1>3. /\ m \in AbsState /\ m.pc = s.pc /\ m.gas = s.gas /\ m.saved = s.saved
      /\ m.manifest = add_effect(s.manifest, e)
  BY <1>1, <1>2 DEF AbsState
<1>4. Val(EffectLabel(s, ins), AnyTarget) \in AbstractVal
  BY <1>1, InterpAssumption DEF Val, AbstractVal
<1>5. ins.dst \in Reg
  BY DEF Instr
<1>6. broker_call(s, ins) = set(m, ins.dst, Val(EffectLabel(s, ins), AnyTarget))
  BY BrokerCallDef DEF e
<1> HIDE DEF m
<1> QED
  BY <1>2, <1>3, <1>4, <1>5, <1>6, SetType

\* Effects are declared in order: the same call, nowhere lower at the higher mark.
LEMMA EffectRises ==
    ASSUME NEW s \in AbsState, NEW t \in AbsState, Below(s, t), NEW ins \in Instr
    PROVE  /\ EffectBelow(DeclaredEffect(s, ins), DeclaredEffect(t, ins))
           /\ leq(EffectLabel(s, ins), EffectLabel(t, ins))
           /\ leq(SeenMark(s, ins), SeenMark(t, ins))
<1>1. TargetOf(s, ins) = TargetOf(t, ins)
  BY GetRises DEF TargetOf, ValBelow
<1>2. leq(FlowLabel(s, ins), FlowLabel(t, ins))
  <2>1. s.pc \in Label /\ t.pc \in Label /\ leq(s.pc, t.pc)
    BY DEF AbsState, Below
  <2> QED
    BY <2>1, LabelOfType, LabelOfRises, JoinRises DEF FlowLabel
<1>3. /\ FlowLabel(s, ins) \in Label /\ FlowLabel(t, ins) \in Label
      /\ source_label(TargetOf(s, ins)) \in Label
  BY EffectType DEF source_label, Label
<1>4. leq(source_label(TargetOf(s, ins)), source_label(TargetOf(s, ins)))
  BY <1>3 DEF leq, Label, BOTTOM, HIGH
<1>5. leq(join(FlowLabel(s, ins), source_label(TargetOf(s, ins))),
          join(FlowLabel(t, ins), source_label(TargetOf(s, ins))))
  BY <1>2, <1>3, <1>4, JoinRises
<1>6. leq(EffectLabel(s, ins), EffectLabel(t, ins))
  <2>1. leq(BOTTOM, BOTTOM) /\ leq(HIGH, HIGH)
    BY DEF leq, BOTTOM, HIGH
  <2> QED
    BY <1>1, <1>2, <1>5, <2>1 DEF EffectLabel
<1>7. leq(SeenMark(s, ins), SeenMark(t, ins))
  <2>1. s.hwm \in Label /\ t.hwm \in Label /\ leq(s.hwm, t.hwm)
    BY DEF AbsState, Below
  <2>2. leq(join(s.hwm, source_label(TargetOf(s, ins))),
            join(t.hwm, source_label(TargetOf(s, ins))))
    BY <1>3, <1>4, <2>1, JoinRises
  <2> QED
    BY <1>1, <2>1, <2>2 DEF SeenMark
<1> QED
  BY <1>1, <1>6, <1>7 DEF EffectBelow, DeclaredEffect

\* And the manifests they are added to stay in order (manifest.py add_effect).
LEMMA AddEffectRises ==
    ASSUME NEW m \in DraftManifest, NEW n \in DraftManifest, ManifestBelow(m, n),
           NEW d \in Effect, NEW e \in Effect, EffectBelow(d, e)
    PROVE  ManifestBelow(add_effect(m, d), add_effect(n, e))
<1> DEFINE a == add_effect(m, d)
           b == add_effect(n, e)
<1>1. /\ a.effects = Append(m.effects, d) /\ b.effects = Append(n.effects, e)
      /\ a.label_ceiling = join(m.label_ceiling, d.label)
      /\ b.label_ceiling = join(n.label_ceiling, e.label)
  BY AddEffectType
<1>2. /\ Len(m.effects) = Len(n.effects) /\ Len(m.effects) \in Nat
      /\ m.effects \in Seq(Effect) /\ n.effects \in Seq(Effect)
  BY DEF ManifestBelow, DraftManifest
<1>3. /\ Len(a.effects) = Len(m.effects) + 1 /\ Len(b.effects) = Len(n.effects) + 1
      /\ a.effects[Len(m.effects) + 1] = d /\ b.effects[Len(n.effects) + 1] = e
      /\ \A i \in 1 .. Len(m.effects) : a.effects[i] = m.effects[i]
      /\ \A i \in 1 .. Len(n.effects) : b.effects[i] = n.effects[i]
  BY <1>1, <1>2, AppendProperties
<1>4. leq(a.label_ceiling, b.label_ceiling)
  <2>1. /\ m.label_ceiling \in Label /\ n.label_ceiling \in Label
        /\ d.label \in Label /\ e.label \in Label
    BY DEF DraftManifest, Effect
  <2>2. leq(m.label_ceiling, n.label_ceiling) /\ leq(d.label, e.label)
    BY DEF ManifestBelow, EffectBelow
  <2>3. leq(join(m.label_ceiling, d.label), join(n.label_ceiling, e.label))
    BY <2>1, <2>2, JoinRises
  <2> QED
    BY <1>1, <2>3
<1> HIDE DEF a, b
<1>5. ASSUME NEW i \in 1 .. Len(a.effects)
      PROVE  EffectBelow(a.effects[i], b.effects[i])
  <2>1. CASE i \in 1 .. Len(m.effects)
    BY <1>2, <1>3, <2>1 DEF ManifestBelow
  <2>2. CASE i = Len(m.effects) + 1
    BY <1>2, <1>3, <2>2
  <2> QED
    BY <1>2, <1>3, <2>1, <2>2
<1>6. ManifestBelow(a, b)
  BY <1>2, <1>3, <1>4, <1>5 DEF ManifestBelow
<1> QED
  BY <1>6 DEF a, b

\* A broker call keeps the walks in order (abstract_interp.py _broker_call).
LEMMA BrokerCallRises ==
    ASSUME NEW s \in AbsState, NEW t \in AbsState, Below(s, t), NEW ins \in Instr
    PROVE  Below(broker_call(s, ins), broker_call(t, ins))
<1> DEFINE Before(u) == [u EXCEPT !.hwm = SeenMark(u, ins),
                                  !.manifest = add_effect(u.manifest, DeclaredEffect(u, ins))]
           Result(u) == Val(EffectLabel(u, ins), AnyTarget)
<1>1. ASSUME NEW u \in AbsState
      PROVE  /\ Before(u) \in AbsState /\ Result(u) \in AbstractVal
             /\ Before(u).regs = u.regs /\ Before(u).pc = u.pc /\ Before(u).gas = u.gas
             /\ Before(u).saved = u.saved /\ Before(u).hwm = SeenMark(u, ins)
             /\ Before(u).manifest = add_effect(u.manifest, DeclaredEffect(u, ins))
             /\ broker_call(u, ins) = set(Before(u), ins.dst, Result(u))
  <2>1. /\ SeenMark(u, ins) \in Label /\ EffectLabel(u, ins) \in Label
        /\ add_effect(u.manifest, DeclaredEffect(u, ins)) \in DraftManifest
    BY EffectType, AddEffectType DEF AbsState
  <2>2. Result(u) \in AbstractVal
    BY <2>1, InterpAssumption DEF Val, AbstractVal
  <2> QED
    BY <2>1, <2>2, BrokerCallDef DEF AbsState
<1>2. ValBelow(Result(s), Result(t))
  BY EffectRises DEF ValBelow, Val
<1>3. ManifestBelow(Before(s).manifest, Before(t).manifest)
  <2>1. s.manifest \in DraftManifest /\ t.manifest \in DraftManifest
    BY DEF AbsState
  <2>2. ManifestBelow(s.manifest, t.manifest)
    BY DEF Below
  <2>3. ManifestBelow(add_effect(s.manifest, DeclaredEffect(s, ins)),
                      add_effect(t.manifest, DeclaredEffect(t, ins)))
    BY <2>1, <2>2, EffectType, EffectRises, AddEffectRises
  <2> QED
    BY <1>1, <2>3
<1>4. ins.dst \in Reg
  BY DEF Instr
<1> HIDE DEF Before, Result
<1>5. Below(Before(s), Before(t))
  BY <1>1, <1>3, EffectRises DEF Below
<1>6. Below(set(Before(s), ins.dst, Result(s)), set(Before(t), ins.dst, Result(t)))
  BY <1>1, <1>2, <1>4, <1>5, SetRises
<1> QED
  BY <1>1, <1>6

-----------------------------------------------------------------------------
(* Instructions *)

Setting == {"const", "assign", "join", "call", "store", "phi"}

\* The register that an instruction sets, and the value it sets it to.
Set(ins) == IF ins.op = "store" THEN ins.args[1] ELSE ins.dst

Merged(s, ins) == ValJoin(get(s, ins.args[1]), get(s, ins.args[2]))

SetTo(s, ins) ==
    CASE ins.op = "const"  -> Val(BOTTOM, ins.static)
      [] ins.op = "assign" -> get(s, ins.args[1])
      [] ins.op \in {"join", "call", "store"} -> Val(LabelOf(s, ins.args), AnyTarget)
      [] ins.op = "phi"    -> Val(join(Merged(s, ins).label, s.pc), Merged(s, ins).static)

\* The instructions fall into those that set a register, broker calls, the two
\* ends of a branch, and those without an effect (abstract_interp.py _run_instr).
LEMMA RunDef ==
    ASSUME NEW s, NEW ins \in Instr
    PROVE  \/ ins.op \in Setting /\ RunInstr(s, ins) = set(s, Set(ins), SetTo(s, ins))
           \/ ins.op = "broker_call" /\ RunInstr(s, ins) = broker_call(s, ins)
           \/ ins.op = "branch_in" /\ RunInstr(s, ins) = EnterBranch(s, ins)
           \/ ins.op = "branch_out" /\ RunInstr(s, ins) = LeaveBranch(s)
           \/ ins.op \in {"loop_in", "loop_out", "return"} /\ RunInstr(s, ins) = s
<1>1. ins.op \in {"const", "assign", "join", "call", "store", "phi", "broker_call",
                  "branch_in", "branch_out", "loop_in", "loop_out", "return"}
  BY DEF Instr
<1>2. CASE ins.op = "phi"
  <2>1. RunInstr(s, ins) = Phi(s, ins)
    BY <1>2 DEF RunInstr
  <2>2. [Merged(s, ins) EXCEPT !.label = join(@, s.pc)]
          = Val(join(Merged(s, ins).label, s.pc), Merged(s, ins).static)
    BY DEF Merged, ValJoin, Val
  <2>3. Phi(s, ins) = set(s, ins.dst, [Merged(s, ins) EXCEPT !.label = join(@, s.pc)])
    BY DEF Phi, Merged
  <2>4. Set(ins) = ins.dst
           /\ SetTo(s, ins) = Val(join(Merged(s, ins).label, s.pc), Merged(s, ins).static)
    BY <1>2 DEF Set, SetTo
  <2> QED
    BY <1>2, <2>1, <2>2, <2>3, <2>4 DEF Setting
<1>3. CASE ins.op # "phi"
  BY <1>1, <1>3 DEF RunInstr, Setting, Set, SetTo
<1> QED
  BY <1>2, <1>3

\* What is set is a register, to a value, in order at the two marks.
LEMMA SettingType ==
    ASSUME NEW s \in AbsState, NEW ins \in Instr, ins.op \in Setting, Runnable(s, ins)
    PROVE  Set(ins) \in Reg /\ SetTo(s, ins) \in AbstractVal
<1>1. Set(ins) \in Reg
  BY ElementOfSeq DEF Set, Instr, Runnable
<1>2. BOTTOM \in Label /\ AnyTarget \in Target /\ ins.static \in Target
  BY InterpAssumption DEF Label, Instr
<1>3. Val(join(Merged(s, ins).label, s.pc), Merged(s, ins).static) \in AbstractVal
  <2>1. get(s, ins.args[1]) \in AbstractVal /\ get(s, ins.args[2]) \in AbstractVal
    BY GetType
  <2>2. Merged(s, ins) \in AbstractVal
    BY <1>2, <2>1, JoinRises DEF Merged, ValJoin, Val, AbstractVal
  <2> QED
    BY <2>2, JoinRises DEF Val, AbstractVal, AbsState
<1>4. SetTo(s, ins) \in AbstractVal
  BY <1>2, <1>3, GetType, LabelOfType DEF SetTo, Setting, Val, AbstractVal
<1> QED
  BY <1>1, <1>4

\* What is set at the high mark is what is set at the low one, or higher
\* (abstract_interp.py _run_instr).
LEMMA SettingRises ==
    ASSUME NEW s \in AbsState, NEW t \in AbsState, Below(s, t),
           NEW ins \in Instr, ins.op \in Setting
    PROVE  ValBelow(SetTo(s, ins), SetTo(t, ins))
<1>1. CASE ins.op = "phi"
  <2>1. /\ get(s, ins.args[1]) \in AbstractVal /\ get(s, ins.args[2]) \in AbstractVal
        /\ get(t, ins.args[1]) \in AbstractVal /\ get(t, ins.args[2]) \in AbstractVal
        /\ s.pc \in Label /\ t.pc \in Label /\ leq(s.pc, t.pc)
    BY GetType DEF AbsState, Below
  <2>2. /\ ValBelow(get(s, ins.args[1]), get(t, ins.args[1]))
        /\ ValBelow(get(s, ins.args[2]), get(t, ins.args[2]))
    BY GetRises
  <2>3. /\ Merged(s, ins).static = Merged(t, ins).static
        /\ Merged(s, ins).label
             = join(get(s, ins.args[1]).label, get(s, ins.args[2]).label)
        /\ Merged(t, ins).label
             = join(get(t, ins.args[1]).label, get(t, ins.args[2]).label)
    BY <2>2 DEF Merged, ValJoin, Val, ValBelow
  <2>4. /\ Merged(s, ins).label \in Label /\ Merged(t, ins).label \in Label
        /\ leq(Merged(s, ins).label, Merged(t, ins).label)
    BY <2>1, <2>2, <2>3, JoinRises DEF AbstractVal, ValBelow
  <2>5. leq(join(Merged(s, ins).label, s.pc), join(Merged(t, ins).label, t.pc))
    BY <2>1, <2>4, JoinRises
  <2> QED
    BY <1>1, <2>3, <2>5 DEF SetTo, ValBelow, Val
<1>2. CASE ins.op = "const"
  BY <1>2 DEF SetTo, ValBelow, Val, leq, BOTTOM
<1>3. CASE ins.op = "assign"
  BY <1>3, GetRises DEF SetTo
<1>4. CASE ins.op \in {"join", "call", "store"}
  BY <1>4, LabelOfRises DEF SetTo, ValBelow, Val
<1> QED
  BY <1>1, <1>2, <1>3, <1>4 DEF Setting

\* How the stack of saved pcs moves.
Pushed(s, ins) == IF ins.op = "branch_in" THEN 1 ELSE IF ins.op = "branch_out" THEN -1 ELSE 0

\* The state stays typed and under its ceiling, and one stack ends where the
\* branches do, with the low pc of the cell at its foot (_run_block).
LEMMA RunKeeps ==
    ASSUME NEW s \in AbsState, NEW ins \in Instr, Runnable(s, ins)
    PROVE  LET u == RunInstr(s, ins) IN
           /\ u \in AbsState
           /\ u.gas = s.gas
           /\ Len(u.saved) = Len(s.saved) + Pushed(s, ins)
           /\ CeilingCovers(s.manifest) => CeilingCovers(u.manifest)
           /\ Grounded(s) => Grounded(u)
<1> DEFINE u == RunInstr(s, ins)
<1>0. s.saved \in Seq(Label) /\ Len(s.saved) \in Nat /\ s.pc \in Label
  BY DEF AbsState
<1>1. CASE ins.op \in Setting
  <2>1. u = set(s, Set(ins), SetTo(s, ins))
    BY <1>1, RunDef DEF Setting
  <2>2. /\ u \in AbsState /\ u.gas = s.gas /\ u.pc = s.pc /\ u.saved = s.saved
        /\ u.manifest = s.manifest
    BY <1>1, <2>1, SettingType, SetType
  <2>3. Pushed(s, ins) = 0
    BY <1>1 DEF Pushed, Setting
  <2> HIDE DEF u
  <2> QED
    BY <1>0, <2>2, <2>3 DEF Grounded, u
<1>2. CASE ins.op = "broker_call"
  <2>1. u = broker_call(s, ins) /\ Pushed(s, ins) = 0
    BY <1>2, RunDef DEF Setting, Pushed
  <2> QED
    BY <1>0, <2>1, BrokerCallType DEF Grounded
<1>3. CASE ins.op = "branch_in"
  <2>1. u = EnterBranch(s, ins) /\ Pushed(s, ins) = 1
    BY <1>3, RunDef DEF Setting, Pushed
  <2>2. join(s.pc, LabelOf(s, ins.args)) \in Label
    BY <1>0, LabelOfType, JoinRises
  <2>3. /\ Append(s.saved, s.pc) \in Seq(Label)
        /\ Len(Append(s.saved, s.pc)) = Len(s.saved) + 1
        /\ Append(s.saved, s.pc)[Len(s.saved) + 1] = s.pc
        /\ \A i \in 1 .. Len(s.saved) : Append(s.saved, s.pc)[i] = s.saved[i]
    BY <1>0, AppendProperties
  <2>4. /\ u \in AbsState /\ u.gas = s.gas /\ u.manifest = s.manifest
        /\ u.saved = Append(s.saved, s.pc)
    BY <2>1, <2>2, <2>3 DEF EnterBranch, AbsState
  <2> HIDE DEF u
  <2>5. ASSUME Grounded(s)
        PROVE  u.saved # <<>> /\ u.saved[1] = BOTTOM
    <3>1. Len(u.saved) # 0
      BY <1>0, <2>3, <2>4
    <3>2. CASE s.saved = <<>>
      <4>1. Len(s.saved) = 0 /\ s.pc = BOTTOM
        BY <2>5, <3>2, EmptySeq DEF Grounded
      <4> QED
        BY <2>3, <2>4, <3>1, <4>1, EmptySeq
    <3>3. CASE s.saved # <<>>
      <4>1. 1 \in 1 .. Len(s.saved) /\ s.saved[1] = BOTTOM
        BY <1>0, <2>5, <3>3, EmptySeq DEF Grounded
      <4> QED
        BY <2>3, <2>4, <3>1, <4>1, EmptySeq
    <3> QED
      BY <3>2, <3>3
  <2> QED
    BY <2>1, <2>3, <2>4, <2>5 DEF Grounded, u
<1>4. CASE ins.op = "branch_out"
  <2>1. u = LeaveBranch(s) /\ Pushed(s, ins) = -1 /\ s.saved # <<>>
    BY <1>4, RunDef DEF Setting, Pushed, Runnable
  <2>2. Len(s.saved) \in Nat \ {0} /\ s.saved[Len(s.saved)] \in Label
    BY <1>0, <2>1, EmptySeq, ElementOfSeq
  <2>3. /\ SubSeq(s.saved, 1, Len(s.saved) - 1) \in Seq(Label)
        /\ Len(SubSeq(s.saved, 1, Len(s.saved) - 1)) = Len(s.saved) - 1
        /\ \A i \in 1 .. Len(s.saved) - 1 :
              SubSeq(s.saved, 1, Len(s.saved) - 1)[i] = s.saved[i]
    BY <1>0, <2>2, SubSeqProperties
  <2>4. /\ u \in AbsState /\ u.gas = s.gas /\ u.manifest = s.manifest
        /\ u.saved = SubSeq(s.saved, 1, Len(s.saved) - 1)
        /\ u.pc = s.saved[Len(s.saved)]
    BY <2>1, <2>2, <2>3 DEF LeaveBranch, AbsState
  <2> HIDE DEF u
  <2>5. ASSUME Grounded(s)
        PROVE  Grounded(u)
    <3>1. s.saved[1] = BOTTOM
      BY <2>1, <2>5 DEF Grounded
    <3>2. CASE Len(s.saved) = 1
      <4>1. u.pc = BOTTOM /\ Len(u.saved) = 0
        BY <2>3, <2>4, <3>1, <3>2
      <4> QED
        BY <2>3, <2>4, <4>1, EmptySeq DEF Grounded
    <3>3. CASE Len(s.saved) # 1
      <4> DEFINE n == Len(s.saved)
      <4>0. n \in Nat /\ n # 0 /\ n # 1
        BY <2>2, <3>3
      <4> HIDE DEF n
      <4>1. 1 \in 1 .. n - 1 /\ n - 1 # 0
        BY <4>0
      <4>2. SubSeq(s.saved, 1, Len(s.saved) - 1)[1] = BOTTOM
        BY <2>3, <3>1, <4>1 DEF n
      <4>3. Len(SubSeq(s.saved, 1, Len(s.saved) - 1)) # 0
        BY <2>3, <4>1 DEF n
      <4> QED
        BY <2>4, <4>2, <4>3, EmptySeq DEF Grounded
    <3> QED
      BY <3>2, <3>3
  <2> QED
    BY <1>0, <2>1, <2>3, <2>4, <2>5 DEF u
<1>5. CASE ins.op \in {"loop_in", "loop_out", "return"}
  <2>1. u = s /\ Pushed(s, ins) = 0
    BY <1>5, RunDef DEF Setting, Pushed
  <2> QED
    BY <1>0, <2>1
<1> QED
  BY <1>1, <1>2, <1>3, <1>4, <1>5, RunDef

\* An instruction keeps the walks in order (abstract_interp.py _run_instr).
LEMMA RunRises ==
    ASSUME NEW s \in AbsState, NEW t \in AbsState, Below(s, t),
           NEW ins \in Instr, Runnable(s, ins), Runnable(t, ins)
    PROVE  Below(RunInstr(s, ins), RunInstr(t, ins))
<1>0. /\ s.saved \in Seq(Label) /\ Len(s.saved) \in Nat /\ s.pc \in Label
      /\ t.saved \in Seq(Label) /\ Len(t.saved) \in Nat /\ t.pc \in Label
      /\ leq(s.pc, t.pc) /\ Len(s.saved) = Len(t.saved)
      /\ \A i \in 1 .. Len(s.saved) : leq(s.saved[i], t.saved[i])
  BY DEF AbsState, Below, StackBelow
<1>1. CASE ins.op \in Setting
  <2>1. /\ RunInstr(s, ins) = set(s, Set(ins), SetTo(s, ins))
        /\ RunInstr(t, ins) = set(t, Set(ins), SetTo(t, ins))
    BY <1>1, RunDef DEF Setting
  <2> QED
    BY <1>1, <2>1, SettingType, SettingRises, SetRises
<1>2. CASE ins.op = "broker_call"
  <2>1. /\ RunInstr(s, ins) = broker_call(s, ins)
        /\ RunInstr(t, ins) = broker_call(t, ins)
    BY <1>2, RunDef DEF Setting
  <2> QED
    BY <2>1, BrokerCallRises
<1>3. CASE ins.op = "branch_in"
  <2>1. /\ RunInstr(s, ins) = EnterBranch(s, ins)
        /\ RunInstr(t, ins) = EnterBranch(t, ins)
    BY <1>3, RunDef DEF Setting
  <2>2. leq(join(s.pc, LabelOf(s, ins.args)), join(t.pc, LabelOf(t, ins.args)))
    BY <1>0, LabelOfType, LabelOfRises, JoinRises
  <2>3. StackBelow(Append(s.saved, s.pc), Append(t.saved, t.pc))
    BY <1>0, AppendProperties DEF StackBelow
  <2> QED
    BY <2>1, <2>2, <2>3 DEF EnterBranch, Below, AbsState
<1>4. CASE ins.op = "branch_out"
  <2>1. /\ RunInstr(s, ins) = LeaveBranch(s) /\ RunInstr(t, ins) = LeaveBranch(t)
        /\ s.saved # <<>>
    BY <1>4, RunDef DEF Setting, Runnable
  <2>2. Len(s.saved) \in Nat \ {0}
    BY <1>0, <2>1, EmptySeq
  <2>3. leq(s.saved[Len(s.saved)], t.saved[Len(t.saved)])
    BY <1>0, <2>2
  <2>4. StackBelow(SubSeq(s.saved, 1, Len(s.saved) - 1),
                   SubSeq(t.saved, 1, Len(t.saved) - 1))
    BY <1>0, <2>2, SubSeqProperties DEF StackBelow
  <2> QED
    BY <2>1, <2>3, <2>4 DEF LeaveBranch, Below, AbsState
<1>5. CASE ins.op \in {"loop_in", "loop_out", "return"}
  <2>1. RunInstr(s, ins) = s /\ RunInstr(t, ins) = t
    BY <1>5, RunDef DEF Setting
  <2> QED
    BY <2>1
<1> QED
  BY <1>1, <1>2, <1>3, <1>4, <1>5, RunDef

-----------------------------------------------------------------------------
(* Nesting *)

Count(body, n, op) == Cardinality({j \in 1 .. n : body[j].op = op})

\* An instruction counts for its own operation and for no other.
LEMMA CountStep ==
    ASSUME NEW body, NEW i \in Nat \ {0}, NEW op
    PROVE  /\ Count(body, i - 1, op) \in Nat
           /\ Count(body, i, op)
                = Count(body, i - 1, op) + (IF body[i].op = op THEN 1 ELSE 0)
<1> DEFINE Those(n) == {j \in 1 .. n : body[j].op = op}
<1>1. i \in Nat /\ i - 1 \in Nat
  OBVIOUS
<1>2. IsFiniteSet(1 .. i - 1)
  BY <1>1, FS_Interval
<1>3. IsFiniteSet(Those(i - 1))
  BY <1>2, FS_Subset
<1>4. Cardinality(Those(i - 1)) \in Nat
  BY <1>3, FS_CardinalityType
<1>5. i \notin Those(i - 1)
  BY <1>1
<1>6. CASE body[i].op = op
  <2>1. Those(i) = Those(i - 1) \cup {i}
    BY <1>1, <1>6
  <2> QED
    BY <1>3, <1>4, <1>5, <1>6, <2>1, FS_AddElement DEF Count
<1>7. CASE body[i].op # op
  <2>1. Those(i) = Those(i - 1)
    BY <1>1, <1>7
  <2>2. Count(body, i, op) = Count(body, i - 1, op) /\ Count(body, i - 1, op) \in Nat
    BY <1>4, <2>1, Zenon DEF Count
  <2> QED
    BY <1>7, <2>2
<1> QED
  BY <1>6, <1>7

\* An opening instruction adds one to the depth, a closing one takes one
\* (abstract_interp.py _match_close).
LEMMA DepthStep ==
    ASSUME NEW body \in Seq(Instr), NEW i \in 1 .. Len(body),
           NEW open, NEW close, open # close
    PROVE  /\ Depth(body, i - 1, open, close) \in Int
           /\ Depth(body, i, open, close) = Depth(body, i - 1, open, close)
                + (IF body[i].op = open THEN 1 ELSE IF body[i].op = close THEN -1 ELSE 0)
<1>1. ASSUME NEW n
      PROVE  Depth(body, n, open, close) = Count(body, n, open) - Count(body, n, close)
  BY DEF Depth, Count
<1> QED
  BY <1>1, CountStep

\* No instruction is at no depth.
LEMMA DepthZero ==
    ASSUME NEW body, NEW n \in {-1, 0}, NEW open, NEW close
    PROVE  Depth(body, n, open, close) = 0
<1>1. 1 .. n = {}
  OBVIOUS
<1>2. {i \in 1 .. n : body[i].op = open} = {} /\ {i \in 1 .. n : body[i].op = close} = {}
  BY <1>1
<1> QED
  BY <1>2, FS_EmptySet DEF Depth

-----------------------------------------------------------------------------
(* The inductive invariant *)

BranchDepth(n) == Depth(cell.body, n, "branch_in", "branch_out")

\* The invariant of one walk: its stack is as deep as the branches it is in.
Walked(s) ==
    /\ CeilingCovers(s.manifest)
    /\ Grounded(s)
    /\ Len(s.saved) = BranchDepth(at - 1)

WalkInv ==
    /\ LoweredCell(cell)
    /\ at \in 0 .. Len(cell.body) + 1
    /\ abs \in [Label -> AbsState]
    /\ abs[BOTTOM].gas \in 0 .. Gas
    /\ Below(abs[BOTTOM], abs[HIGH])
    /\ \A lb \in Label : Walked(abs[lb])
    /\ Accepted => at = Len(cell.body) + 1

\* A new state is typed, and higher at the higher mark (abstract_interp.py
\* verify).
LEMMA NewState ==
    ASSUME NEW params, params \subseteq VarName
    PROVE  /\ \A lb \in Label :
                LET s == AbstractState(<<>>, params, lb) IN
                /\ s \in AbsState /\ s.gas = Gas
                /\ CeilingCovers(s.manifest) /\ Grounded(s) /\ Len(s.saved) = 0
           /\ Below(AbstractState(<<>>, params, BOTTOM), AbstractState(<<>>, params, HIGH))
<1> DEFINE regs(lb) == [r \in {<<"name", p>> : p \in params} |-> Val(lb, AnyTarget)]
           s(lb) == AbstractState(<<>>, params, lb)
<1>1. ASSUME NEW lb \in Label
      PROVE  /\ s(lb) \in AbsState /\ s(lb).gas = Gas
             /\ CeilingCovers(s(lb).manifest) /\ Grounded(s(lb)) /\ Len(s(lb).saved) = 0
  <2>1. \A r \in DOMAIN regs(lb) : r \in Reg /\ regs(lb)[r] \in AbstractVal
    BY InterpAssumption DEF Reg, Val, AbstractVal
  <2>2. regs(lb) \in RegMap
    BY <2>1, RegMapDef
  <2>3. /\ s(lb).regs = regs(lb) /\ s(lb).pc = BOTTOM /\ s(lb).hwm = lb
        /\ s(lb).gas = Gas /\ s(lb).saved = <<>>
        /\ s(lb).manifest = NewManifest(<<>>)
    BY DEF AbstractState
  <2>4. NewManifest(<<>>) \in DraftManifest /\ CeilingCovers(NewManifest(<<>>))
    BY DEF NewManifest, DraftManifest, CeilingCovers, Label
  <2>5. s(lb) \in AbsState
    BY <2>2, <2>4, InterpAssumption DEF AbstractState, AbsState, Label
  <2> QED
    BY <2>3, <2>4, <2>5, EmptySeq DEF Grounded
<1>2. Below(s(BOTTOM), s(HIGH))
  BY DEF Below, RegsBelow, StackBelow, ManifestBelow, ValBelow, AbstractState, NewManifest,
         Val, leq, BOTTOM, HIGH
<1> QED
  BY <1>1, <1>2

\* The instruction the walk comes to can be run, at either mark.
LEMMA NextRunnable ==
    ASSUME WalkInv, at \in 1 .. Len(cell.body), NEW lb \in Label
    PROVE  /\ cell.body[at] \in Instr
           /\ Runnable(abs[lb], cell.body[at])
           /\ BranchDepth(at - 1) \in Int
           /\ BranchDepth(at) = BranchDepth(at - 1) + Pushed(abs[lb], cell.body[at])
<1> DEFINE ins == cell.body[at]
<1>1. cell.body \in Seq(Instr) /\ ins \in Instr
  BY ElementOfSeq DEF WalkInv, LoweredCell
<1>2. /\ BranchDepth(at - 1) \in Int
      /\ BranchDepth(at) = BranchDepth(at - 1) + Pushed(abs[lb], ins)
  BY <1>1, DepthStep DEF BranchDepth, Pushed
<1>3. BranchDepth(at) >= 0
  BY <1>1 DEF WalkInv, LoweredCell, Nested, BranchDepth
<1>4. ins.op = "store" => ins.args # <<>>
  BY <1>1 DEF WalkInv, LoweredCell
<1>5. ASSUME ins.op = "branch_out"
      PROVE  abs[lb].saved # <<>>
  <2>1. Len(abs[lb].saved) = BranchDepth(at - 1)
    BY DEF WalkInv, Walked
  <2>2. BranchDepth(at) = BranchDepth(at - 1) - 1
    BY <1>2, <1>5 DEF Pushed
  <2>3. Len(abs[lb].saved) # 0
    BY <1>2, <1>3, <2>1, <2>2
  <2> QED
    BY <2>3, EmptySeq
<1> QED
  BY <1>1, <1>2, <1>4, <1>5 DEF Runnable

\* A step of the walk keeps the invariant (abstract_interp.py _run_block).
LEMMA StepKeeps ==
    ASSUME WalkInv, Step
    PROVE  WalkInv'
<1> DEFINE ins == cell.body[at]
           from(lb) == Charge(abs[lb], ins)
<1>1. /\ at \in 1 .. Len(cell.body) /\ ~OutOfGas(abs[BOTTOM], ins)
      /\ abs' = [lb \in Label |-> RunInstr(from(lb), ins)]
      /\ at' = at + 1 /\ cell' = cell /\ verdict' = verdict /\ verdict = "none"
  BY DEF Step, Walking
<1>2. ins \in Instr
  BY <1>1, NextRunnable DEF Label
<1>3. ASSUME NEW lb \in Label
      PROVE  /\ from(lb) \in AbsState
             /\ from(lb).gas = IF Free(ins) THEN abs[lb].gas ELSE abs[lb].gas - 1
             /\ from(lb).regs = abs[lb].regs /\ from(lb).pc = abs[lb].pc
             /\ from(lb).hwm = abs[lb].hwm /\ from(lb).saved = abs[lb].saved
             /\ from(lb).manifest = abs[lb].manifest
             /\ Runnable(from(lb), ins)
  <2>1. abs[lb] \in AbsState
    BY DEF WalkInv
  <2>2. /\ from(lb) \in AbsState
        /\ from(lb).gas = IF Free(ins) THEN abs[lb].gas ELSE abs[lb].gas - 1
        /\ from(lb).regs = abs[lb].regs /\ from(lb).pc = abs[lb].pc
        /\ from(lb).hwm = abs[lb].hwm /\ from(lb).saved = abs[lb].saved
        /\ from(lb).manifest = abs[lb].manifest
    BY <2>1 DEF Charge, AbsState
  <2> QED
    BY <1>1, <2>2, NextRunnable DEF Runnable
<1> HIDE DEF from, ins
<1>4. BOTTOM \in Label /\ HIGH \in Label
  BY DEF Label
<1>5. Below(from(BOTTOM), from(HIGH))
  <2>1. Below(abs[BOTTOM], abs[HIGH])
    BY DEF WalkInv
  <2> QED
    BY <1>3, <1>4, <2>1 DEF Below
<1>6. ASSUME NEW lb \in Label
      PROVE  /\ abs'[lb] \in AbsState /\ abs'[lb].gas = from(lb).gas
             /\ Walked(abs[lb])'
  <2>1. abs'[lb] = RunInstr(from(lb), ins)
    BY <1>1
  <2>2. Walked(abs[lb])
    BY DEF WalkInv
  <2>3. CeilingCovers(from(lb).manifest) /\ Grounded(from(lb))
    BY <1>3, <2>2 DEF Walked, Grounded
  <2>4. /\ abs'[lb] \in AbsState /\ abs'[lb].gas = from(lb).gas
        /\ CeilingCovers(abs'[lb].manifest) /\ Grounded(abs'[lb])
        /\ Len(abs'[lb].saved) = Len(from(lb).saved) + Pushed(from(lb), ins)
    BY <1>2, <1>3, <2>1, <2>3, RunKeeps
  <2>5. Len(abs'[lb].saved) = BranchDepth(at)
    <3>1. Pushed(from(lb), ins) = Pushed(abs[lb], ins)
      BY DEF Pushed
    <3>2. BranchDepth(at) = BranchDepth(at - 1) + Pushed(abs[lb], ins)
      BY <1>1, NextRunnable DEF ins
    <3> QED
      BY <1>3, <2>2, <2>4, <3>1, <3>2 DEF Walked
  <2>6. at' - 1 = at
    BY <1>1
  <2>7. BranchDepth(at - 1)' = BranchDepth(at)
    BY <1>1, <2>6 DEF BranchDepth
  <2> QED
    BY <2>4, <2>5, <2>7 DEF Walked
<1>7. abs' \in [Label -> AbsState]
  BY <1>1, <1>6
<1>8. Below(abs'[BOTTOM], abs'[HIGH])
  <2>1. abs'[BOTTOM] = RunInstr(from(BOTTOM), ins) /\ abs'[HIGH] = RunInstr(from(HIGH), ins)
    BY <1>1, <1>4
  <2> QED
    BY <1>2, <1>3, <1>4, <1>5, <2>1, RunRises
<1>9. abs'[BOTTOM].gas \in 0 .. Gas
  <2>1. abs[BOTTOM].gas \in 0 .. Gas /\ Gas \in Nat
    BY InterpAssumption DEF WalkInv
  <2>2. Free(ins) \/ ~(abs[BOTTOM].gas <= 0)
    BY <1>1 DEF OutOfGas
  <2> QED
    BY <1>3, <1>4, <1>6, <2>1, <2>2
<1>10. at' \in 0 .. Len(cell'.body) + 1 /\ ~Accepted' /\ LoweredCell(cell')
  BY <1>1 DEF WalkInv, Accepted
<1> QED
  BY <1>6, <1>7, <1>8, <1>9, <1>10 DEF WalkInv

\* A cell that is handed over is walked from its beginning (verify).
LEMMA EnterKeeps ==
    ASSUME WalkInv, NEW params \in SUBSET VarName, NEW body \in Seq(Instr),
           LoweredCell([params |-> params, body |-> body]),
           Enter([params |-> params, body |-> body])
    PROVE  WalkInv'
<1>1. /\ cell' = [params |-> params, body |-> body] /\ at' = 1
      /\ abs' = [lb \in Label |-> AbstractState(<<>>, params, lb)]
      /\ verdict' = "none"
  BY DEF Enter
<1>2. BOTTOM \in Label /\ HIGH \in Label
  BY DEF Label
<1>3. ASSUME NEW lb \in Label
      PROVE  abs'[lb] \in AbsState /\ abs'[lb].gas = Gas /\ Walked(abs[lb])'
  <2>1. abs'[lb] = AbstractState(<<>>, params, lb)
    BY <1>1
  <2>2. BranchDepth(at - 1)' = 0
    BY <1>1, DepthZero DEF BranchDepth
  <2> QED
    BY <2>1, <2>2, NewState DEF Walked
<1>4. Below(abs'[BOTTOM], abs'[HIGH])
  BY <1>1, <1>2, NewState
<1>5. at' \in 0 .. Len(cell'.body) + 1 /\ LoweredCell(cell') /\ ~Accepted'
  BY <1>1 DEF Accepted
<1> QED
  BY <1>1, <1>2, <1>3, <1>4, <1>5, InterpAssumption DEF WalkInv

\* The walks at the two marks are typed, nest as the instructions do, and stay in
\* order (abstract_interp.py verify, _run_block).
THEOREM WalkInvariant == WalkSpec => []WalkInv
<1>1. WalkInit => WalkInv
  <2> SUFFICES ASSUME WalkInit
               PROVE  WalkInv
    OBVIOUS
  <2>1. /\ cell = NoBody /\ at = 0 /\ verdict = "none"
        /\ abs = [lb \in Label |-> AbstractState(<<>>, {}, lb)]
    BY DEF WalkInit
  <2>2. BOTTOM \in Label /\ HIGH \in Label
    BY DEF Label
  <2>3. LoweredCell(NoBody) /\ NoBody.body = <<>>
    BY DepthZero, EmptySeq DEF LoweredCell, NoBody, Nested
  <2>4. ASSUME NEW lb \in Label
        PROVE  abs[lb] \in AbsState /\ abs[lb].gas = Gas /\ Walked(abs[lb])
    <3>1. abs[lb] = AbstractState(<<>>, {}, lb)
      BY <2>1
    <3>2. BranchDepth(at - 1) = 0
      BY <2>1, DepthZero DEF BranchDepth
    <3>3. {} \subseteq VarName
      OBVIOUS
    <3> DEFINE fresh == AbstractState(<<>>, {}, lb)
    <3>4. fresh \in AbsState /\ fresh.gas = Gas
      BY <3>3, NewState
    <3>5. Walked(fresh)
      BY <3>2, <3>3, NewState DEF Walked
    <3> HIDE DEF fresh
    <3> QED
      BY <3>1, <3>4, <3>5 DEF fresh
  <2>5. Below(abs[BOTTOM], abs[HIGH])
    BY <2>1, <2>2, NewState
  <2> QED
    BY <2>1, <2>2, <2>3, <2>4, <2>5, InterpAssumption, EmptySeq DEF WalkInv, Accepted
<1>2. WalkInv /\ [WalkNext]_walkVars => WalkInv'
  <2> SUFFICES ASSUME WalkInv, [WalkNext]_walkVars
               PROVE  WalkInv'
    OBVIOUS
  <2>1. ASSUME NEW params \in SUBSET VarName, NEW body \in Seq(Instr),
               LoweredCell([params |-> params, body |-> body]),
               Enter([params |-> params, body |-> body])
        PROVE  WalkInv'
    BY <2>1, EnterKeeps
  <2>2. CASE Step
    BY <2>2, StepKeeps
  <2>3. CASE Exhaust
    BY <2>3 DEF Exhaust, WalkInv, Walked, BranchDepth, Accepted
  <2>4. CASE Accept
    BY <2>4 DEF Accept, WalkInv, Walked, BranchDepth, Accepted
  <2>5. CASE UNCHANGED walkVars
    BY <2>5 DEF walkVars, WalkInv, Walked, BranchDepth, Accepted
  <2> QED
    BY <2>1, <2>2, <2>3, <2>4, <2>5 DEF WalkNext
<1> QED
  BY <1>1, <1>2, PTL DEF WalkSpec

-----------------------------------------------------------------------------
(* What holds of every walk *)

\* Every walk is typed, leaves the branches it entered, and makes a manifest whose
\* ceiling covers its effects (abstract_interp.py verify).
THEOREM WalkTyped == WalkSpec => []WalkTypeOK
<1>1. WalkInv => WalkTypeOK
  <2> SUFFICES ASSUME WalkInv
               PROVE  WalkTypeOK
    OBVIOUS
  <2>1. BOTTOM \in Label /\ HIGH \in Label /\ Label = {BOTTOM, HIGH}
    BY DEF Label
  <2>2. abs[HIGH].gas = abs[BOTTOM].gas
    BY DEF WalkInv, Below
  <2>3. ASSUME NEW lb \in Label
        PROVE  /\ abs[lb].pc \in Label /\ abs[lb].hwm \in Label /\ abs[lb].gas \in 0 .. Gas
               /\ \A r \in DOMAIN abs[lb].regs : r \in Reg /\ abs[lb].regs[r] \in AbstractVal
               /\ ManifestAt(lb).effects \in Seq(Effect)
               /\ CeilingCovers(ManifestAt(lb))
               /\ Accepted => abs[lb].saved = <<>> /\ abs[lb].pc = BOTTOM
    <3>1. abs[lb] \in AbsState /\ Walked(abs[lb])
      BY DEF WalkInv
    <3>2. abs[lb].gas \in 0 .. Gas
      BY <2>1, <2>2 DEF WalkInv
    <3>3. abs[lb].regs \in RegMap
      BY <3>1 DEF AbsState
    <3>4. \A r \in DOMAIN abs[lb].regs : r \in Reg /\ abs[lb].regs[r] \in AbstractVal
      BY <3>3, RegMapDef
    <3>5. ASSUME Accepted
          PROVE  abs[lb].saved = <<>> /\ abs[lb].pc = BOTTOM
      <4>1. at = Len(cell.body) + 1 /\ cell.body \in Seq(Instr)
        BY <3>5 DEF WalkInv, LoweredCell
      <4>2. at - 1 = Len(cell.body)
        BY <4>1, LenProperties
      <4>3. BranchDepth(at - 1) = 0
        BY <4>2, Zenon DEF WalkInv, LoweredCell, Nested, BranchDepth
      <4>4. Len(abs[lb].saved) = 0
        BY <3>1, <4>3 DEF Walked
      <4>5. abs[lb].saved = <<>>
        BY <3>1, <4>4, EmptySeq DEF AbsState
      <4> QED
        BY <3>1, <4>5 DEF Walked, Grounded
    <3> QED
      BY <3>1, <3>2, <3>4, <3>5 DEF AbsState, DraftManifest, ManifestAt, Walked
  <2> QED
    BY <2>3 DEF WalkTypeOK, WalkInv
<1> QED
  BY <1>1, WalkInvariant, PTL

\* Raising the high-water mark adds no call to a manifest, drops none, and lowers
\* none (abstract_interp.py verify, cvm.py _verifier_cached).
THEOREM MarksOrdered == WalkSpec => []MarksAreOrdered
<1>1. WalkInv => MarksAreOrdered
  <2> SUFFICES ASSUME WalkInv
               PROVE  MarksAreOrdered
    OBVIOUS
  <2> DEFINE low  == ManifestAt(BOTTOM)
             high == ManifestAt(HIGH)
  <2>1. BOTTOM \in Label /\ HIGH \in Label
    BY DEF Label
  <2>2. abs[BOTTOM] \in AbsState /\ abs[HIGH] \in AbsState
    BY <2>1 DEF WalkInv
  <2>3. low \in DraftManifest /\ high \in DraftManifest
    BY <2>2 DEF AbsState, ManifestAt
  <2>4. ManifestBelow(low, high)
    BY DEF WalkInv, Below, ManifestAt
  <2> HIDE DEF low, high
  <2>5. low.effects \in Seq(Effect) /\ high.effects \in Seq(Effect)
    BY <2>3 DEF DraftManifest
  <2>6. ASSUME NEW i \in DOMAIN low.effects
        PROVE  /\ low.effects[i] = [high.effects[i] EXCEPT !.label = low.effects[i].label]
               /\ leq(low.effects[i].label, high.effects[i].label)
    <3>1. i \in 1 .. Len(low.effects) /\ i \in 1 .. Len(high.effects)
      BY <2>4, <2>5, LenProperties DEF ManifestBelow
    <3>2. low.effects[i] \in Effect /\ high.effects[i] \in Effect
      BY <2>5, <3>1, ElementOfSeq
    <3>3. EffectBelow(low.effects[i], high.effects[i])
      BY <2>4, <3>1 DEF ManifestBelow
    <3> QED
      BY <3>2, <3>3 DEF EffectBelow, Effect
  <2> QED
    BY <2>4, <2>6 DEF MarksAreOrdered, ManifestBelow, low, high
<1> QED
  BY <1>1, WalkInvariant, PTL

\* What the envelope of the low manifest admits, that of the high one admits: a
\* manifest cached at the low mark can refuse a call, never let one more through
\* (cvm.py:75, broker.py effect_in_envelope).
THEOREM LowEnvelopeIsInside ==
    WalkSpec => [](\A eff \in Effect : effect_in_envelope(eff, ManifestAt(BOTTOM))
                                          => effect_in_envelope(eff, ManifestAt(HIGH)))
<1> DEFINE Inside == \A eff \in Effect : effect_in_envelope(eff, ManifestAt(BOTTOM))
                                            => effect_in_envelope(eff, ManifestAt(HIGH))
<1>1. WalkInv => Inside
  <2> SUFFICES ASSUME WalkInv, NEW eff \in Effect,
                      effect_in_envelope(eff, ManifestAt(BOTTOM))
               PROVE  effect_in_envelope(eff, ManifestAt(HIGH))
    OBVIOUS
  <2> DEFINE low  == ManifestAt(BOTTOM)
             high == ManifestAt(HIGH)
  <2>1. BOTTOM \in Label /\ HIGH \in Label
    BY DEF Label
  <2>2. low.effects \in Seq(Effect) /\ high.effects \in Seq(Effect)
    BY <2>1 DEF WalkInv, AbsState, DraftManifest, ManifestAt
  <2>3. ManifestBelow(low, high)
    BY DEF WalkInv, Below, ManifestAt
  <2>4. effect_in_envelope(eff, low)
    OBVIOUS
  <2> HIDE DEF low, high
  <2>5. PICK i \in DOMAIN low.effects :
           /\ low.effects[i].kind = eff.kind /\ low.effects[i].primitive = eff.primitive
           /\ low.effects[i].target \in {AnyTarget, eff.target}
           /\ leq(eff.label, low.effects[i].label)
    BY <2>4 DEF effect_in_envelope
  <2>6. i \in 1 .. Len(low.effects) /\ i \in DOMAIN high.effects
    BY <2>2, <2>3, LenProperties DEF ManifestBelow
  <2>7. EffectBelow(low.effects[i], high.effects[i])
    BY <2>3, <2>6 DEF ManifestBelow
  <2>8. low.effects[i] \in Effect /\ high.effects[i] \in Effect
    BY <2>2, <2>6, LenProperties, ElementOfSeq
  <2>9. leq(eff.label, high.effects[i].label)
    BY <2>5, <2>7, <2>8 DEF EffectBelow, Effect, Label, leq, BOTTOM, HIGH
  <2>10. effect_in_envelope(eff, high)
    BY <2>5, <2>6, <2>7, <2>9 DEF EffectBelow, effect_in_envelope
  <2> QED
    BY <2>10 DEF high
<1> QED
  BY <1>1, WalkInvariant, PTL

-----------------------------------------------------------------------------
(* The effects of a manifest and the calls of a body *)

\* What an instruction does to the manifest: a broker call declares one effect,
\* and nothing else declares any (abstract_interp.py _run_instr).
LEMMA ManifestGrows ==
    ASSUME NEW s \in AbsState, NEW ins \in Instr, Runnable(s, ins)
    PROVE  IF ins.op = "broker_call"
           THEN /\ DeclaredEffect(s, ins) \in Effect
                /\ RunInstr(s, ins).manifest.effects
                     = Append(s.manifest.effects, DeclaredEffect(s, ins))
           ELSE RunInstr(s, ins).manifest = s.manifest
<1>1. CASE ins.op \in Setting
  <2>1. RunInstr(s, ins) = set(s, Set(ins), SetTo(s, ins)) /\ ins.op # "broker_call"
    BY <1>1, RunDef DEF Setting
  <2> QED
    BY <1>1, <2>1, SettingType, SetType
<1>2. CASE ins.op = "broker_call"
  <2> DEFINE e == DeclaredEffect(s, ins)
             m == [s EXCEPT !.hwm = SeenMark(s, ins),
                            !.manifest = add_effect(s.manifest, e)]
  <2>1. e \in Effect
    BY EffectType
  <2>2. RunInstr(s, ins) = set(m, ins.dst, Val(EffectLabel(s, ins), AnyTarget))
    BY <1>2, RunDef, BrokerCallDef DEF Setting
  <2>3. m.manifest = add_effect(s.manifest, e)
    BY DEF AbsState
  <2>4. set(m, ins.dst, Val(EffectLabel(s, ins), AnyTarget)).manifest = m.manifest
    BY DEF set, AbsState
  <2>5. add_effect(s.manifest, e).effects = Append(s.manifest.effects, e)
    BY <2>1, AddEffectType DEF AbsState
  <2> HIDE DEF e, m
  <2> QED
    BY <1>2, <2>1, <2>2, <2>3, <2>4, <2>5 DEF e
<1>3. CASE ins.op \in {"branch_in", "branch_out"}
  <2>1. RunInstr(s, ins) \in {EnterBranch(s, ins), LeaveBranch(s)}
    BY <1>3, RunDef DEF Setting
  <2> QED
    BY <1>3, <2>1 DEF EnterBranch, LeaveBranch, AbsState
<1>4. CASE ins.op \in {"loop_in", "loop_out", "return"}
  BY <1>4, RunDef DEF Setting
<1> QED
  BY <1>1, <1>2, <1>3, <1>4, RunDef

\* The broker calls among the first n instructions.
Calls(n) == Count(cell.body, n, "broker_call")

\* The n-th effect of the manifest is the n-th broker call of the body, for every
\* call among the first instructions.
DeclaredUpTo(last) ==
    \A lb \in Label :
        LET effects == ManifestAt(lb).effects IN
        /\ Len(effects) = Calls(last)
        /\ \A i \in 1 .. last :
              cell.body[i].op = "broker_call" =>
                  /\ Calls(i) \in DOMAIN effects
                  /\ effects[Calls(i)].primitive = cell.body[i].prim
                  /\ effects[Calls(i)].kind = KindOf(cell.body[i].prim)

CallsAreDeclared == DeclaredUpTo(at - 1)

\* Another instruction keeps what is declared, and declares itself.
LEMMA StepDeclares ==
    ASSUME WalkInv, CallsAreDeclared, Step
    PROVE  CallsAreDeclared'
<1> DEFINE ins == cell.body[at]
           from(lb) == Charge(abs[lb], ins)
<1>1. /\ at \in 1 .. Len(cell.body)
      /\ abs' = [lb \in Label |-> RunInstr(from(lb), ins)]
      /\ at' = at + 1 /\ cell' = cell /\ verdict' = verdict /\ verdict = "none"
  BY DEF Step, Walking
<1>2. ins \in Instr /\ at \in Nat \ {0}
  BY <1>1, NextRunnable DEF Label
<1>3. /\ Calls(at - 1) \in Nat
      /\ Calls(at) = Calls(at - 1) + (IF ins.op = "broker_call" THEN 1 ELSE 0)
  BY <1>2, CountStep DEF Calls
<1>4. /\ \A n : Calls(n)' = Calls(n)
      /\ at' - 1 = at /\ 1 .. at' - 1 = (1 .. at - 1) \cup {at}
  BY <1>1 DEF Calls
<1> SUFFICES ASSUME NEW lb \in Label
             PROVE  LET effects == ManifestAt(lb)'.effects IN
                    /\ Len(effects) = Calls(at)
                    /\ \A i \in (1 .. at - 1) \cup {at} :
                          cell.body[i].op = "broker_call" =>
                              /\ Calls(i) \in DOMAIN effects
                              /\ effects[Calls(i)].primitive = cell.body[i].prim
                              /\ effects[Calls(i)].kind = KindOf(cell.body[i].prim)
  BY <1>1, <1>4 DEF CallsAreDeclared, DeclaredUpTo
<1> DEFINE old == ManifestAt(lb).effects
           new == ManifestAt(lb)'.effects
           eff == DeclaredEffect(from(lb), ins)
<1>5. /\ from(lb) \in AbsState /\ from(lb).manifest.effects = old
      /\ Runnable(from(lb), ins)
  <2>1. abs[lb] \in AbsState
    BY DEF WalkInv
  <2>2. from(lb) \in AbsState /\ from(lb).manifest = abs[lb].manifest
           /\ from(lb).saved = abs[lb].saved
    BY <2>1 DEF Charge, AbsState
  <2> QED
    BY <1>1, <2>2, NextRunnable DEF Runnable, ManifestAt
<1>6. old \in Seq(Effect)
  BY DEF WalkInv, AbsState, DraftManifest, ManifestAt
<1>7. new = RunInstr(from(lb), ins).manifest.effects
  BY <1>1 DEF ManifestAt
<1>8. /\ Len(old) = Calls(at - 1)
      /\ \A i \in 1 .. at - 1 :
            cell.body[i].op = "broker_call" =>
                /\ Calls(i) \in DOMAIN old
                /\ old[Calls(i)].primitive = cell.body[i].prim
                /\ old[Calls(i)].kind = KindOf(cell.body[i].prim)
  BY DEF CallsAreDeclared, DeclaredUpTo
<1>9. CASE ins.op = "broker_call"
  <2>1. eff \in Effect /\ new = Append(old, eff)
    BY <1>2, <1>5, <1>7, <1>9, ManifestGrows
  <2>2. eff.primitive = ins.prim /\ eff.kind = KindOf(ins.prim)
    BY DEF DeclaredEffect
  <2> HIDE DEF old, new, eff
  <2>3. /\ Len(new) = Len(old) + 1 /\ new[Len(old) + 1] = eff
        /\ DOMAIN new = 1 .. Len(old) + 1
        /\ \A k \in DOMAIN old : k \in DOMAIN new /\ new[k] = old[k]
    BY <1>6, <2>1, AppendProperties
  <2>4. Len(new) = Calls(at) /\ Calls(at) = Len(old) + 1 /\ Calls(at) \in DOMAIN new
    BY <1>3, <1>8, <1>9, <2>3
  <2> HIDE DEF ins
  <2>5. /\ Calls(at) \in DOMAIN new
        /\ new[Calls(at)].primitive = ins.prim
        /\ new[Calls(at)].kind = KindOf(ins.prim)
    BY <2>2, <2>3, <2>4
  <2>6. ASSUME NEW i \in 1 .. at - 1, cell.body[i].op = "broker_call"
        PROVE  /\ Calls(i) \in DOMAIN new
               /\ new[Calls(i)].primitive = cell.body[i].prim
               /\ new[Calls(i)].kind = KindOf(cell.body[i].prim)
    BY <1>8, <2>3, <2>6
  <2> QED
    BY <2>4, <2>5, <2>6 DEF new, ins
<1>10. CASE ins.op # "broker_call"
  <2>1. new = old
    BY <1>2, <1>5, <1>7, <1>10, ManifestGrows
  <2>2. Calls(at) = Calls(at - 1)
    BY <1>3, <1>10
  <2> HIDE DEF old, new
  <2> QED
    BY <1>8, <1>10, <2>1, <2>2 DEF new
<1> QED
  BY <1>9, <1>10

\* The manifest of an accepted cell declares every broker call of the body, each
\* once and in the body's order, whichever branch or loop it is in, and nothing
\* else (abstract_interp.py:98-99, _broker_call).
THEOREM CallsDeclared == WalkSpec => [](Accepted => DeclaredUpTo(Len(cell.body)))
<1>1. WalkInit => CallsAreDeclared
  <2> SUFFICES ASSUME WalkInit
               PROVE  CallsAreDeclared
    OBVIOUS
  <2>1. at = 0 /\ \A lb \in Label : ManifestAt(lb).effects = <<>>
    BY DEF WalkInit, ManifestAt, AbstractState, NewManifest
  <2>2. Calls(at - 1) = 0 /\ 1 .. at - 1 = {}
    <3>1. {j \in 1 .. at - 1 : cell.body[j].op = "broker_call"} = {}
      BY <2>1
    <3> QED
      BY <2>1, <3>1, FS_EmptySet DEF Calls, Count
  <2> QED
    BY <2>1, <2>2, EmptySeq DEF CallsAreDeclared, DeclaredUpTo
<1>2. WalkInv /\ CallsAreDeclared /\ [WalkNext]_walkVars => CallsAreDeclared'
  <2> SUFFICES ASSUME WalkInv, CallsAreDeclared, [WalkNext]_walkVars
               PROVE  CallsAreDeclared'
    OBVIOUS
  <2>1. ASSUME NEW params \in SUBSET VarName, NEW body \in Seq(Instr),
               Enter([params |-> params, body |-> body])
        PROVE  CallsAreDeclared'
    <3>1. at' = 1 /\ \A lb \in Label : ManifestAt(lb)'.effects = <<>>
      BY <2>1 DEF Enter, ManifestAt, AbstractState, NewManifest
    <3>2. Calls(at - 1)' = 0 /\ 1 .. at' - 1 = {}
      <4>1. {j \in 1 .. at' - 1 : cell'.body[j].op = "broker_call"} = {}
        BY <3>1
      <4> QED
        BY <3>1, <4>1, FS_EmptySet DEF Calls, Count
    <3> QED
      BY <3>1, <3>2, EmptySeq DEF CallsAreDeclared, DeclaredUpTo
  <2>2. CASE Step
    BY <2>2, StepDeclares
  <2>3. CASE Exhaust \/ Accept \/ UNCHANGED walkVars
    BY <2>3 DEF Exhaust, Accept, walkVars, CallsAreDeclared, DeclaredUpTo, Calls, ManifestAt
  <2> QED
    BY <2>1, <2>2, <2>3 DEF WalkNext
<1>3. WalkInv /\ CallsAreDeclared => (Accepted => DeclaredUpTo(Len(cell.body)))
  <2> SUFFICES ASSUME WalkInv, CallsAreDeclared, Accepted
               PROVE  DeclaredUpTo(Len(cell.body))
    OBVIOUS
  <2>1. at = Len(cell.body) + 1 /\ cell.body \in Seq(Instr)
    BY DEF WalkInv, LoweredCell
  <2>2. at - 1 = Len(cell.body) /\ DOMAIN cell.body = 1 .. at - 1
    BY <2>1, LenProperties
  <2> QED
    BY <2>2 DEF CallsAreDeclared, DeclaredUpTo
<1> QED
  BY <1>1, <1>2, <1>3, WalkInvariant, PTL DEF WalkSpec
=============================================================================
