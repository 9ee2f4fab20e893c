------------------------------ MODULE Manifest ------------------------------
(***************************************************************************)
(* Effects and the manifest that declares them (verifier/manifest.py), with*)
(* the two questions the runtime asks of a manifest: is a submitted effect *)
(* inside the envelope (broker/broker.py), and which label did the static  *)
(* analysis give a primitive on a target (runtime/worker.py).              *)
(*                                                                         *)
(* An effect keeps the four fields those questions read.  The argument     *)
(* summary, the verb, the origin and the per-effect budget take part in no *)
(* decision and are left out.                                              *)
(***************************************************************************)
EXTENDS Lattice, Sequences

CONSTANTS Primitive,    \* names of broker primitives ("send_http", ...)
          Target,       \* destinations, keys and purposes, "*" included
          IRHash        \* hashes of lowered cells

AnyTarget == "*"

EffectKind == {"Pure", "Obs", "Mut", "Decl"}

Effect == [kind : EffectKind, primitive : Primitive, target : Target,
           label : Label]

ManifestType == [ir_hash : IRHash, effects : Seq(Effect), label_ceiling : Label]

\* A manifest as the verifier starts it.
NewManifest(ir) == [ir_hash |-> ir, effects |-> <<>>, label_ceiling |-> BOTTOM]

\* VerifyResult(ok=False), where a manifest would be.
Rejected == [ir_hash |-> "rejected"]

\* The manifest the CVM makes up when IFC or static analysis is off: everything
\* is declared, as low.
PermissiveManifest ==
    LET Low(kind, prim) == [kind |-> kind, primitive |-> prim,
                            target |-> AnyTarget, label |-> BOTTOM] IN
    [ir_hash |-> "permissive",
     effects |-> << Low("Obs", "http_get"), Low("Mut", "send_http"),
                    Low("Obs", "kv_get"), Low("Decl", "declassify_bucket"),
                    Low("Decl", "declassify_hash"), Low("Decl", "declassify_redact"),
                    Low("Obs", "db_read"), Low("Mut", "db_write") >>,
     label_ceiling |-> BOTTOM]

add_effect(m, eff) ==
    [m EXCEPT !.effects       = Append(@, eff),
              !.label_ceiling = join(@, eff.label)]

\* A manifest is made by add_effect: the ceiling is over every effect.
CeilingCovers(m) == \A i \in DOMAIN m.effects : leq(m.effects[i].label, m.label_ceiling)

\* SHA-256 of the canonical JSON of to_dict(): two manifests have one digest
\* exactly when every serialised field, ir_hash included, is the same.
manifest_digest(m) == m

effect_in_envelope(eff, m) ==
    \E i \in DOMAIN m.effects :
        LET declared == m.effects[i] IN
        /\ declared.kind = eff.kind
        /\ declared.primitive = eff.primitive
        /\ declared.target \in {AnyTarget, eff.target}
        /\ leq(eff.label, declared.label)

\* Mutant of lookup_label: every call gets the label of the last declaration.
LookupLast(m, prim, target, kind) ==
    IF m.effects = <<>> THEN BOTTOM ELSE m.effects[Len(m.effects)].label

\* The label a worker puts on a call: the first declaration of that primitive
\* on that target, else the last wildcard declaration, else BOTTOM.  The call
\* site the declaration came from plays no part.
lookup_label(m, prim, target, kind) ==
    LET Sites(tgt) == {i \in DOMAIN m.effects : /\ m.effects[i].primitive = prim
                                                /\ m.effects[i].kind = kind
                                                /\ m.effects[i].target = tgt} IN
    CASE Sites(target) # {} ->
           m.effects[CHOOSE i \in Sites(target) : \A j \in Sites(target) : i <= j].label
      [] Sites(target) = {} /\ Sites(AnyTarget) # {} ->
           m.effects[CHOOSE i \in Sites(AnyTarget) : \A j \in Sites(AnyTarget) : i >= j].label
      [] OTHER -> BOTTOM
=============================================================================
