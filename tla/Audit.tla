------------------------------- MODULE Audit -------------------------------
(***************************************************************************)
(* The hash-chained audit log of broker/audit.py, as operators on the list *)
(* of receipts.                                                            *)
(*                                                                         *)
(* SHA-256 is taken to be collision free.  h_t = SHA256(h_{t-1} || body)   *)
(* is then a one-to-one function of the list of bodies hashed so far, and  *)
(* is modelled by that list: GENESIS is the empty list and hashing appends *)
(* the new body to the list that h_{t-1} stands for.                       *)
(***************************************************************************)
EXTENDS Manifest

GENESIS == <<>>

sha256(prev, body) == Append(prev, body)

Decision == {"ADMIT", "DENY"}

\* The refusals of Broker.submit, as they appear in a receipt's note.
Reason == {"envelope_violation", "missing_capability", "invalid_token",
           "stale_token_prev_chain", "policy_block",
           "unregistered_declassifier"}

\* The empty note of a receipt that refuses nothing.
NoNote == "none"

\* Mutant of head: links every receipt to the first one.
HeadFirst(log) == IF log = <<>> THEN GENESIS ELSE log[1].chain

head(log) == IF log = <<>> THEN GENESIS ELSE log[Len(log)].chain

\* The hashed fields.  The previous link is hashed twice in the code, as the
\* prefix and as a field of the body; the prefix is enough.
Body(seq, ir, md, eff, decision, note, ts) ==
    [seq |-> seq, ir_hash |-> ir, manifest_digest |-> md, effect |-> eff,
     decision |-> decision, note |-> note, ts |-> ts]

\* The clock is read twice: ts goes into the hash, stamp into the receipt.
MakeReceipt(seq, prev, ir, md, eff, decision, note, ts, stamp) ==
    [seq |-> seq, ir_hash |-> ir, manifest_digest |-> md, effect |-> eff,
     decision |-> decision, note |-> note, prev_chain |-> prev,
     chain |-> sha256(prev, Body(seq, ir, md, eff, decision, note, ts)),
     timestamp |-> stamp]

append(log, ir, md, eff, decision, note, ts, stamp) ==
    Append(log, MakeReceipt(Len(log), head(log), ir, md, eff, decision, note,
                            ts, stamp))

\* A refusal is recorded as a synthetic PURE effect named ERROR whose target
\* is the refused primitive.
ErrorEffect(refused) ==
    [kind |-> "Pure", primitive |-> "ERROR", target |-> refused.primitive,
     label |-> BOTTOM]

append_error(log, ir, md, refused, reason, ts, stamp) ==
    append(log, ir, md, ErrorEffect(refused), "DENY", reason, ts, stamp)

\* AuditLog.verify_integrity: the hash is recomputed but never compared, so
\* what is checked is that every receipt names its predecessor's link.
verify_integrity(log) ==
    \A i \in DOMAIN log :
        log[i].prev_chain = IF i = 1 THEN GENESIS ELSE log[i - 1].chain
=============================================================================
