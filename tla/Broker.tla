------------------------------- MODULE Broker -------------------------------
(***************************************************************************)
(* The trusted broker of broker/broker.py: it issues capability tokens,    *)
(* decides effect submissions and owns the audit log and the state of the  *)
(* policy automaton.  Calls are taken one at a time here; ConcurrentBroker *)
(* interleaves them.                                                       *)
(***************************************************************************)
EXTENDS Audit, PolicyAutomaton, Capability

CONSTANTS
    Manifests,          \* the manifests callers present
    Effects,            \* the effects callers submit
    Policy,             \* the automaton given to the constructor
    Registered,         \* names in the (frozen) declassifier registry
    SignKey,            \* this broker's HMAC key
    ForeignTokens,      \* tokens other brokers signed with their own keys
    EnableEnvelope, EnableAutomaton, EnableCapability,  \* ablation knobs
    MaxReceipts, MaxTokens, MaxTime,                    \* model bounds
    MaxCallTime         \* bound: ticks that can pass inside one submit

ASSUME BrokerAssumption ==
    /\ Manifests \subseteq ManifestType
    /\ Effects \subseteq Effect
    /\ TTL \in Nat
    /\ \A t \in ForeignTokens : t.mac # SignKey
    /\ NoState \notin StatesOf(Policy)
    /\ Len(Policy.transitions) \in Nat
    /\ DOMAIN Policy.transitions = 1 .. Len(Policy.transitions)
    /\ {EnableEnvelope, EnableAutomaton, EnableCapability} \subseteq BOOLEAN
    /\ {MaxReceipts, MaxTokens, MaxTime, MaxCallTime} \subseteq Nat

VARIABLES
    receipts,           \* self.audit.receipts
    state,              \* self.state
    issued,             \* self._issued_tokens, as the set of its values
    now,                \* the wall clock
    granted,            \* history: the token each ADMIT receipt was given for
    resetAt             \* history: length of the log at the last reset

vars == <<receipts, state, issued, now, granted, resetAt>>

Init ==
    /\ receipts = <<>>
    /\ state = Policy.initial
    /\ issued = {}
    /\ now = 0
    /\ granted = <<>>
    /\ resetAt = 0

Tick ==
    /\ now < MaxTime
    /\ now' = now + 1
    /\ UNCHANGED <<receipts, state, issued, granted, resetAt>>

\* A token for m, bound to the head.  The nonce is fresh (os.urandom).
FreshToken(m) ==
    sign_token(m, head(receipts), SignKey, Cardinality(issued) + 1, now)

\* Tokens are never removed from the table.
issue_token(m) ==
    /\ Cardinality(issued) < MaxTokens
    /\ issued' = issued \cup {FreshToken(m)}
    /\ UNCHANGED <<receipts, state, now, granted, resetAt>>

-----------------------------------------------------------------------------
(* submit(manifest, effect, token): the checks in the order of the code.   *)
(* Each refusal below is reached when the checks above it have passed.     *)

\* Mutant of InEnvelope: the envelope check is skipped.
InEnvelopeSkipped(m, e) == TRUE

InEnvelope(m, e) == EnableEnvelope => effect_in_envelope(e, m)

TokenVerified(m, tok) ==
    /\ tok # NoToken
    /\ verify_token(tok, m, tok.prev_chain, SignKey, now)

\* Mutant of TokenCurrent: the link to the chain head is not compared.
TokenCurrentAnyHead(m, tok) == EnableCapability => TokenVerified(m, tok)

TokenCurrent(m, tok) ==
    EnableCapability => TokenVerified(m, tok) /\ tok.prev_chain = head(receipts)

Successor(e) == step(Policy, state, e)

\* Mutant of Permitted: step() returning None is not treated as a refusal.
PermittedNone(e) ==
    EnableAutomaton => Successor(e) = NoState \/ accepts(Policy, Successor(e))

Permitted(e) ==
    EnableAutomaton => Successor(e) # NoState /\ accepts(Policy, Successor(e))

\* The state once step 3 is over.  It moves before step 4 can still refuse.
StateAfterPolicy(e) == IF EnableAutomaton THEN Successor(e) ELSE state

DeclRouted(e) == e.kind = "Decl" => e.primitive \in Registered

\* What a later reading of the clock inside the same call can return.
ClockReadings == {t \in now .. now + MaxCallTime : t <= MaxTime}

\* A call reads the clock up to three times, and time may pass in between:
\* to check the token (now), to hash the receipt (ts) and to stamp it.
Deny(m, e, reason) ==
    /\ Len(receipts) < MaxReceipts
    /\ \E ts, stamp \in ClockReadings :
          /\ ts <= stamp
          /\ receipts' = append_error(receipts, m.ir_hash, manifest_digest(m),
                                      e, reason, ts, stamp)
          /\ now' = stamp
    /\ granted' = Append(granted, NoToken)
    /\ UNCHANGED <<issued, resetAt>>

DenyEnvelope(m, e, tok) ==
    /\ ~InEnvelope(m, e)
    /\ Deny(m, e, "envelope_violation")
    /\ UNCHANGED state

DenyMissing(m, e, tok) ==
    /\ InEnvelope(m, e)
    /\ EnableCapability /\ tok = NoToken
    /\ Deny(m, e, "missing_capability")
    /\ UNCHANGED state

DenyInvalid(m, e, tok) ==
    /\ InEnvelope(m, e)
    /\ EnableCapability /\ tok # NoToken /\ ~TokenVerified(m, tok)
    /\ Deny(m, e, "invalid_token")
    /\ UNCHANGED state

DenyStale(m, e, tok) ==
    /\ InEnvelope(m, e)
    /\ EnableCapability /\ TokenVerified(m, tok) /\ ~TokenCurrent(m, tok)
    /\ Deny(m, e, "stale_token_prev_chain")
    /\ UNCHANGED state

\* Mutant of DenyPolicy: a blocked effect sends the automaton back to q0.
DenyPolicyRestart(m, e, tok) ==
    /\ InEnvelope(m, e) /\ TokenCurrent(m, tok)
    /\ ~Permitted(e)
    /\ Deny(m, e, "policy_block")
    /\ state' = Policy.initial

DenyPolicy(m, e, tok) ==
    /\ InEnvelope(m, e) /\ TokenCurrent(m, tok)
    /\ ~Permitted(e)
    /\ Deny(m, e, "policy_block")
    /\ UNCHANGED state

DenyUnregistered(m, e, tok) ==
    /\ InEnvelope(m, e) /\ TokenCurrent(m, tok) /\ Permitted(e)
    /\ ~DeclRouted(e)
    /\ state' = StateAfterPolicy(e)
    /\ Deny(m, e, "unregistered_declassifier")

Admit(m, e, tok) ==
    /\ InEnvelope(m, e) /\ TokenCurrent(m, tok) /\ Permitted(e) /\ DeclRouted(e)
    /\ Len(receipts) < MaxReceipts
    /\ state' = StateAfterPolicy(e)
    /\ \E ts, stamp \in ClockReadings :
          /\ ts <= stamp
          /\ receipts' = append(receipts, m.ir_hash, manifest_digest(m), e,
                                "ADMIT", NoNote, ts, stamp)
          /\ now' = stamp
    /\ granted' = Append(granted, tok)
    /\ UNCHANGED <<issued, resetAt>>

submit(m, e, tok) ==
    \/ DenyEnvelope(m, e, tok)
    \/ DenyMissing(m, e, tok)
    \/ DenyInvalid(m, e, tok)
    \/ DenyStale(m, e, tok)
    \/ DenyPolicy(m, e, tok)
    \/ DenyUnregistered(m, e, tok)
    \/ Admit(m, e, tok)

\* Mutant of reset_session: the automaton's state survives the reset.
ResetKeepsState ==
    /\ resetAt' = Len(receipts)
    /\ UNCHANGED <<receipts, state, issued, now, granted>>

\* The automaton restarts, the audit chain goes on.
reset_session ==
    /\ state' = Policy.initial
    /\ resetAt' = Len(receipts)
    /\ UNCHANGED <<receipts, issued, now, granted>>

Tokens == issued \cup ForeignTokens \cup {NoToken}

Next ==
    \/ Tick
    \/ \E m \in Manifests : issue_token(m)
    \/ \E m \in Manifests, e \in Effects, tok \in Tokens : submit(m, e, tok)
    \/ reset_session

Spec == Init /\ [][Next]_vars

-----------------------------------------------------------------------------
(* Properties *)

ReceiptEffect == [kind : EffectKind, primitive : Primitive \cup {"ERROR"},
                  target : Target \cup Primitive, label : Label]

BodyType == [seq : Nat, ir_hash : IRHash, manifest_digest : Manifests,
             effect : ReceiptEffect, decision : Decision,
             note : Reason \cup {NoNote}, ts : Nat]

Chain == Seq(BodyType)

ReceiptType == [seq : Nat, ir_hash : IRHash, manifest_digest : Manifests,
                effect : ReceiptEffect, decision : Decision,
                note : Reason \cup {NoNote}, prev_chain : Chain, chain : Chain,
                timestamp : Nat]

TokenType == [ir_hash : IRHash, manifest_digest : Manifests,
              prev_chain : Chain, nonce : Nat \ {0}, issued_at : Nat,
              expiry : Nat, mac : {SignKey}]

\* The variables hold what the attributes of a Broker and its AuditLog hold.
TypeOK ==
    /\ receipts \in Seq(ReceiptType)
    /\ state \in StatesOf(Policy)
    /\ issued \subseteq TokenType
    /\ IsFiniteSet(issued)
    /\ now \in Nat
    /\ granted \in Seq(TokenType \cup ForeignTokens \cup {NoToken})
    /\ resetAt \in Nat

\* What of a receipt its link must commit to.  The time stamp is not among it:
\* the hash covers another reading of the clock.
Committed(r) == [f \in {"seq", "ir_hash", "manifest_digest", "effect",
                        "decision", "note"} |-> r[f]]

\* Every link commits to the whole log up to its receipt, in order, so no
\* two positions of the log ever share a link (audit.py append, head).
AuditCommitsToHistory ==
    \A i \in DOMAIN receipts :
        /\ receipts[i].seq = i - 1
        /\ receipts[i].prev_chain = IF i = 1 THEN GENESIS
                                             ELSE receipts[i - 1].chain
        /\ Len(receipts[i].chain) = i
        /\ \A j \in 1 .. i : Committed(receipts[i].chain[j])
                                 = Committed(receipts[j])

AdmittedAt == {i \in DOMAIN receipts : receipts[i].decision = "ADMIT"}

\* One token authorises at most one effect, although nothing ever removes it
\* from the table of issued tokens and submit never looks it up there: the
\* link to the chain head has to do it (capability.py: anti-replay).
TokenSingleUse ==
    EnableCapability =>
        \A i, j \in AdmittedAt : granted[i].nonce = granted[j].nonce => i = j

\* An admission is covered by a token of this broker for the very cell and
\* manifest the receipt names, issued after the receipt before it was
\* written (broker.py: the token is bound to (IR hash, manifest, h_{t-1})).
\* The token was alive when it was checked; the time in the link is read
\* later (capability.py:63, audit.py:62), so it may name a moment after the
\* token's expiry, by no more than one call takes.
AuthorityBound ==
    EnableCapability =>
        \A i \in AdmittedAt :
            LET tok == granted[i] IN
            /\ tok \in issued
            /\ tok.ir_hash = receipts[i].ir_hash
            /\ tok.manifest_digest = receipts[i].manifest_digest
            /\ tok.prev_chain = receipts[i].prev_chain
            /\ LET ts == receipts[i].chain[i].ts IN
               tok.issued_at <= ts /\ ts <= tok.expiry + MaxCallTime
            /\ i > 1 => receipts[i - 1].chain[i - 1].ts <= tok.issued_at

\* A run of the policy over the receipts since the last reset: one transition
\* for every ADMIT, none for a DENY.
Explains(run) ==
    /\ run[resetAt] = Policy.initial
    /\ run[Len(receipts)] = state
    /\ \A i \in resetAt + 1 .. Len(receipts) :
          run[i] = IF receipts[i].decision = "ADMIT"
                   THEN step(Policy, run[i - 1], receipts[i].effect)
                   ELSE run[i - 1]

\* The automaton's state can be recomputed from the audit log alone: a run of
\* the policy from the last reset explains the state held now.
StateMatchesAudit ==
    EnableAutomaton =>
        \E run \in [resetAt .. Len(receipts) -> StatesOf(Policy)] : Explains(run)

\* What keeps step 4 from refusing after step 3 has moved the automaton: a
\* declassification that is not registered has no transition to another state.
RefusedDeclLoops ==
    EnableAutomaton =>
        \A s \in StatesOf(Policy), e \in Effects :
            e.kind = "Decl" /\ e.primitive \notin Registered =>
                step(Policy, s, e) \in {s, NoState}

\* A refusal leaves the automaton where it was: "On admit: ... advances the
\* automaton" (broker.py:8-9), "the automaton stays in its current state"
\* (automaton.py:89-91).
DenyIsInert ==
    [][\A i \in DOMAIN receipts' \ DOMAIN receipts :
          receipts'[i].decision = "DENY" => state' = state]_vars

\* The broker implements the reference monitor.  A token is a live grant
\* while it names the chain head and has not expired.
LiveNonces == {t.nonce : t \in {u \in issued : /\ u.prev_chain = head(receipts)
                                               /\ now <= u.expiry}}

DecisionOf(i) ==
    IF receipts[i].decision = "ADMIT"
    THEN [admitted |-> TRUE, manifest |-> receipts[i].manifest_digest,
          effect |-> receipts[i].effect,
          grant |-> IF EnableCapability THEN granted[i].nonce ELSE 0]
    ELSE [admitted |-> FALSE]

Answers == [i \in DOMAIN receipts |-> DecisionOf(i)]

Monitor == INSTANCE ReferenceMonitor WITH
    decisions    <- Answers,
    phase        <- state,
    handed       <- Cardinality(issued),
    live         <- LiveNonces,
    UsesEnvelope <- EnableEnvelope,
    UsesPolicy   <- EnableAutomaton,
    UsesGrants   <- EnableCapability

\* Every step of the broker is an answer, a grant, a lapse or a new session
\* of the reference monitor.
ImplementsMonitor == Monitor!MonitorSpec
=============================================================================
