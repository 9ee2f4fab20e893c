----------------------------- MODULE AuditStudy -----------------------------
(***************************************************************************)
(* The tampering study of experiments/audit_tamper.py, and the part of     *)
(* experiments/mechanism_layer.py that repeats it: a log is written by     *)
(* append, perturbed in one of five ways, given to a verifier and          *)
(* restored.                                                               *)
(***************************************************************************)
EXTENDS Audit

CONSTANT Entries        \* what may be appended: the arguments of append

VARIABLES log,          \* audit.receipts
          snapshot,     \* the copy the study takes before it changes the log
          kind          \* the perturbation that is in place, or none

studyVars == <<log, snapshot, kind>>

EntryType == [ir : IRHash, digest : ManifestType, effect : Effect,
              decision : Decision, note : Reason \cup {NoNote},
              ts : Nat, stamp : Nat]

ASSUME EntriesAssumption == Entries \subseteq EntryType

StudyInit == log = <<>> /\ snapshot = <<>> /\ kind = "none"

\* The CVM at work.
Write ==
    /\ kind = "none"
    /\ \E e \in Entries :
          log' = append(log, e.ir, e.digest, e.effect, e.decision, e.note, e.ts, e.stamp)
    /\ UNCHANGED <<snapshot, kind>>

\* Mutant of BodyOf: the note of the receipt is not hashed again.
BodyWithoutNote(r) ==
    Body(r.seq, r.ir_hash, r.manifest_digest, r.effect, r.decision, NoNote, r.timestamp)

\* The body the stricter verifier derives from a receipt.
BodyOf(r) ==
    Body(r.seq, r.ir_hash, r.manifest_digest, r.effect, r.decision, r.note, r.timestamp)

\* Mutant of _verify: the time is taken out of the link it is to be compared with.
VerifyAnyTime(rs) ==
    \A i \in DOMAIN rs :
        /\ rs[i].prev_chain = IF i = 1 THEN GENESIS ELSE rs[i - 1].chain
        /\ rs[i].chain # GENESIS
        /\ rs[i].chain = sha256(rs[i].prev_chain,
                                [BodyOf(rs[i]) EXCEPT !.ts = rs[i].chain[Len(rs[i].chain)].ts])

\* _verify: every link is derived again, from the time stamp of the receipt.
_verify(rs) ==
    \A i \in DOMAIN rs :
        /\ rs[i].prev_chain = IF i = 1 THEN GENESIS ELSE rs[i - 1].chain
        /\ rs[i].chain = sha256(rs[i].prev_chain, BodyOf(rs[i]))

-----------------------------------------------------------------------------
(* The perturbations *)

Perturb(name, changed) ==
    /\ kind = "none" /\ log # <<>>
    /\ snapshot' = log /\ log' = changed /\ kind' = name

\* A note no receipt has.
TAMPERED == "X"

WithNote(rs, i) == [rs EXCEPT ![i] = [@ EXCEPT !.note = TAMPERED]]

_tamper == \E i \in DOMAIN log : Perturb("tamper", WithNote(log, i))

_replay == Perturb("replay", Append(log, log[Len(log)]))

Fake(chain) ==
    [seq |-> Len(log), ir_hash |-> "forged",
     manifest_digest |-> [NewManifest("forged") EXCEPT !.label_ceiling = HIGH],
     effect |-> [kind |-> "Mut", primitive |-> "x", target |-> "evil", label |-> BOTTOM],
     decision |-> "ADMIT", note |-> NoNote, prev_chain |-> head(log),
     chain |-> chain, timestamp |-> 0]

\* Sixty-four zeros, which is also what GENESIS is.
_splice == Perturb("splice", Append(log, Fake(GENESIS)))

Dropped(rs, i) == [j \in 1 .. Len(rs) - 1 |-> IF j < i THEN rs[j] ELSE rs[j + 1]]

\* Any receipt but the last.
_visible_gap == \E i \in 1 .. Len(log) - 1 : Perturb("visible_gap", Dropped(log, i))

\* _p4_audit_detect: a receipt with a link of its own making, which covers
\* another effect than the receipt shows, and a note changed in front of it.
ForgedLink ==
    sha256(head(log), [BodyOf(Fake(GENESIS)) EXCEPT !.effect = [kind |-> "Mut"]])

_p4_forge ==
    Perturb("forge", Append(WithNote(log, Len(log)), Fake(ForgedLink)))

\* Every trial puts the copy back and drops it.
Restore ==
    /\ kind # "none"
    /\ log' = snapshot /\ snapshot' = <<>> /\ kind' = "none"

Trial == _tamper \/ _replay \/ _splice \/ _visible_gap \/ _p4_forge

StudyNext == Write \/ Trial \/ Restore

StudySpec == StudyInit /\ [][StudyNext]_studyVars

-----------------------------------------------------------------------------
(* Properties *)

\* The stricter verifier is right to report a perturbation: a log it accepts
\* is not accepted any more once it is perturbed, whichever way
\* (audit_tamper.py: "the auditor detects every perturbation it can see").
PerturbationsAreSeen == kind # "none" /\ _verify(snapshot) => ~_verify(log)

\* It accepts a log that nobody touched exactly when the two clock readings of
\* every append agree: otherwise it reports a log as perturbed that is not,
\* and a trial counts as detected whatever it did.
HonestLogsVerify ==
    kind = "none" =>
        (_verify(log) <=> \A i \in DOMAIN log : log[i].timestamp = log[i].chain[i].ts)

\* AuditLog.verify_integrity accepts a log that nobody touched, and reports one
\* whose links do not meet any more: a receipt that is there twice, or one that is
\* missing in the middle (audit.py verify_integrity).
IntegritySeesLinks ==
    /\ kind = "none" => verify_integrity(log)
    /\ kind \in {"replay", "visible_gap"} => ~verify_integrity(log)

\* "The auditor must detect every perturbation" (mechanism_layer.py:177-178, of
\* verify_integrity).
IntegrityDetects == kind # "none" => ~verify_integrity(log)
=============================================================================
