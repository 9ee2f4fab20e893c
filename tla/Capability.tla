----------------------------- MODULE Capability -----------------------------
(***************************************************************************)
(* Capability tokens (broker/capability.py).  A token is a frozen record   *)
(* whose MAC covers all of its other fields, so the MAC of a token fails   *)
(* to verify only when another key made it: it is modelled by that key.    *)
(***************************************************************************)
EXTENDS Manifest

CONSTANT TTL            \* DEFAULT_TOKEN_TTL_S, in clock ticks

\* The absent token: Optional[CapabilityToken] = None.
NoToken == [nonce |-> 0]

sign_token(m, prev_chain, key, nonce, now) ==
    [ir_hash         |-> m.ir_hash,
     manifest_digest |-> manifest_digest(m),
     prev_chain      |-> prev_chain,
     nonce           |-> nonce,
     issued_at       |-> now,
     expiry          |-> now + TTL,
     mac             |-> key]

\* Mutant of verify_token: the manifest digest is not compared.
VerifyNoDigest(token, m, expected_prev_chain, key, now) ==
    /\ token.prev_chain = expected_prev_chain
    /\ now <= token.expiry
    /\ token.mac = key

\* Mutant of verify_token: the deadline is not compared.
VerifyNoExpiry(token, m, expected_prev_chain, key, now) ==
    /\ token.manifest_digest = manifest_digest(m)
    /\ token.prev_chain = expected_prev_chain
    /\ token.mac = key

verify_token(token, m, expected_prev_chain, key, now) ==
    /\ token.manifest_digest = manifest_digest(m)
    /\ token.prev_chain = expected_prev_chain
    /\ now <= token.expiry
    /\ token.mac = key
=============================================================================
