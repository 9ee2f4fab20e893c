-------------------------- MODULE ConcurrentBroker --------------------------
(***************************************************************************)
(* One Broker shared by several threads, as experiments/rq4_performance.py *)
(* shares the broker of one CVM among its workers.  Nothing in broker/     *)
(* takes a lock, so a call is the sequence of its reads and writes of      *)
(* shared attributes: each is one action here, and what a call does to its *)
(* own locals in between belongs to the action before or after.            *)
(*                                                                         *)
(* A call is RuntimeBrokerProxy._submit: a token is issued for it and then *)
(* submitted.  Checks and history are those of Broker.                     *)
(***************************************************************************)
EXTENDS Broker

CONSTANT Thread

VARIABLES
    call,               \* the call each thread is in: where it is, its locals
    started,            \* history: length of the log when the call of each
                        \* receipt was made
    moves,              \* history: what was written to the automaton's state
    moveOf              \* history: the move behind each receipt, 0 if none

brokerVars == <<receipts, state, issued, now, granted, resetAt>>
histories == <<started, moves, moveOf>>
concurrentVars == <<brokerVars, call, histories>>

NoCall == [at |-> "idle"]

ConcurrentInit ==
    /\ Init
    /\ call = [t \in Thread |-> NoCall]
    /\ started = <<>> /\ moves = <<>> /\ moveOf = <<>>

InFlight == {t \in Thread : call[t] # NoCall}

\* The frame c with the locals in upd set.
Updated(c, upd) ==
    [f \in DOMAIN c \cup DOMAIN upd |-> IF f \in DOMAIN upd THEN upd[f] ELSE c[f]]

\* Thread t goes on at `where', with the locals in upd set.
Goto(t, where, upd) ==
    call' = [call EXCEPT ![t] = Updated([@ EXCEPT !.at = where], upd)]

Refuse(t, reason) == Goto(t, "link", [decision |-> "DENY", note |-> reason])

-----------------------------------------------------------------------------
\* _submit and issue_token: the head is read into a token.  No token is issued
\* when capabilities are off.
Request(t, m, e) ==
    /\ call[t] = NoCall
    /\ Len(receipts) + Cardinality(InFlight) < MaxReceipts
    /\ IF EnableCapability THEN issue_token(m) ELSE UNCHANGED brokerVars
    /\ call' = [call EXCEPT ![t] =
         [at |-> "check", manifest |-> m, effect |-> e,
          token |-> IF EnableCapability THEN FreshToken(m) ELSE NoToken,
          started |-> Len(receipts), since |-> Len(moves)]]
    /\ UNCHANGED histories

\* Steps 1 and 2 of submit: the head is read again and compared.
CheckToken(t) ==
    /\ call[t].at = "check"
    /\ LET m == call[t].manifest
           e == call[t].effect
           tok == call[t].token IN
       \/ /\ ~InEnvelope(m, e)
          /\ Refuse(t, "envelope_violation")
       \/ /\ InEnvelope(m, e)
          /\ EnableCapability /\ ~TokenVerified(m, tok)
          /\ Refuse(t, "invalid_token")
       \/ /\ InEnvelope(m, e)
          /\ EnableCapability /\ TokenVerified(m, tok) /\ ~TokenCurrent(m, tok)
          /\ Refuse(t, "stale_token_prev_chain")
       \/ /\ InEnvelope(m, e) /\ TokenCurrent(m, tok)
          /\ Goto(t, "policy", <<>>)
    /\ UNCHANGED <<brokerVars, histories>>

\* Step 3 reads the state of the automaton ...
ReadState(t) ==
    /\ call[t].at = "policy"
    /\ LET e == call[t].effect IN
       \/ /\ ~Permitted(e)
          /\ Refuse(t, "policy_block")
       \/ /\ Permitted(e)
          /\ Goto(t, "advance", [next |-> StateAfterPolicy(e)])
    /\ UNCHANGED <<brokerVars, histories>>

\* Mutant of WriteState: the step is taken from q0, not from the state read.
WriteStateFromStart(t) ==
    /\ call[t].at = "advance"
    /\ state' = IF EnableAutomaton THEN step(Policy, Policy.initial, call[t].effect) ELSE state
    /\ moves' = Append(moves, [since |-> call[t].since, effect |-> call[t].effect,
                               to |-> state'])
    /\ IF DeclRouted(call[t].effect)
       THEN Goto(t, "link", [decision |-> "ADMIT", note |-> NoNote,
                             move |-> Len(moves) + 1])
       ELSE Refuse(t, "unregistered_declassifier")
    /\ UNCHANGED <<receipts, issued, now, granted, resetAt, started, moveOf>>

\* ... and writes it; step 4 reads nothing that changes.
WriteState(t) ==
    /\ call[t].at = "advance"
    /\ state' = IF EnableAutomaton THEN call[t].next ELSE state
    /\ moves' = Append(moves, [since |-> call[t].since, effect |-> call[t].effect,
                               to |-> state'])
    /\ IF DeclRouted(call[t].effect)
       THEN Goto(t, "link", [decision |-> "ADMIT", note |-> NoNote,
                             move |-> Len(moves) + 1])
       ELSE Refuse(t, "unregistered_declassifier")
    /\ UNCHANGED <<receipts, issued, now, granted, resetAt, started, moveOf>>

\* AuditLog.append reads the head ...
ReadHead(t) ==
    /\ call[t].at = "link"
    /\ Goto(t, "hash", [prev |-> head(receipts)])
    /\ UNCHANGED <<brokerVars, histories>>

ReceiptEffectOf(c) ==
    IF c.decision = "ADMIT" THEN c.effect ELSE ErrorEffect(c.effect)

BodyAt(seq, c) ==
    Body(seq, c.manifest.ir_hash, manifest_digest(c.manifest),
         ReceiptEffectOf(c), c.decision, c.note, now)

\* Mutant of HashBody: the head is read once more for the hash.
HashBodyRereads(t) ==
    /\ call[t].at = "hash"
    /\ Goto(t, "number",
            [chain |-> sha256(head(receipts), BodyAt(Len(receipts), call[t]))])
    /\ UNCHANGED <<brokerVars, histories>>

\* ... then the length and the clock, and hashes ...
HashBody(t) ==
    /\ call[t].at = "hash"
    /\ Goto(t, "number",
            [chain |-> sha256(call[t].prev, BodyAt(Len(receipts), call[t]))])
    /\ UNCHANGED <<brokerVars, histories>>

\* ... then the length and the clock again ...
Stamp(t) ==
    /\ call[t].at = "number"
    /\ LET c == call[t] IN
       Goto(t, "push",
            [receipt |->
               [MakeReceipt(Len(receipts), c.prev, c.manifest.ir_hash,
                            manifest_digest(c.manifest), ReceiptEffectOf(c),
                            c.decision, c.note, now, now)
                EXCEPT !.chain = c.chain]])
    /\ UNCHANGED <<brokerVars, histories>>

\* ... and appends to the list.  The call returns.
Push(t) ==
    /\ call[t].at = "push"
    /\ receipts' = Append(receipts, call[t].receipt)
    /\ granted' = Append(granted, IF call[t].decision = "ADMIT"
                                  THEN call[t].token ELSE NoToken)
    /\ started' = Append(started, call[t].started)
    /\ moveOf' = Append(moveOf, IF call[t].decision = "ADMIT" THEN call[t].move ELSE 0)
    /\ call' = [call EXCEPT ![t] = NoCall]
    /\ UNCHANGED <<state, issued, now, resetAt, moves>>

\* A step of a call that t is in.
Advance(t) ==
    \/ CheckToken(t) \/ ReadState(t) \/ WriteState(t)
    \/ ReadHead(t) \/ HashBody(t) \/ Stamp(t) \/ Push(t)

ConcurrentNext ==
    \/ \E t \in Thread : Advance(t)
    \/ \E t \in Thread, m \in Manifests, e \in Effects : Request(t, m, e)
    \/ Tick /\ UNCHANGED <<call, histories>>

ConcurrentSpec == ConcurrentInit /\ [][ConcurrentNext]_concurrentVars

-----------------------------------------------------------------------------
(* Properties *)

Where == {"check", "policy", "advance", "link", "hash", "number", "push"}

\* A thread is idle or in a call it was asked to make, holding a token the
\* broker issued for that manifest; what is stored is typed as in Broker.
ConcurrentTypeOK ==
    /\ TypeOK
    /\ Len(started) = Len(receipts) /\ Len(granted) = Len(receipts)
    /\ Len(moveOf) = Len(receipts)
    /\ \A t \in InFlight :
          /\ call[t].at \in Where
          /\ call[t].manifest \in Manifests /\ call[t].effect \in Effects
          /\ IF EnableCapability
             THEN /\ call[t].token \in issued
                  /\ call[t].token.manifest_digest = call[t].manifest
             ELSE call[t].token = NoToken
          /\ call[t].at = "push" => call[t].receipt \in ReceiptType

\* The link after the first k receipts.
LinkAt(k) == IF k = 0 THEN GENESIS ELSE receipts[k].chain

\* The log forks only where calls overlap: a receipt extends, with its own
\* content, the link of a receipt that was written before it and no earlier
\* than the head its call started from.  Calls made one after the other
\* always chain, whatever other threads do (audit.py head, append).
LinksAreFresh ==
    \A i \in DOMAIN receipts :
        /\ \E k \in started[i] .. i - 1 : receipts[i].prev_chain = LinkAt(k)
        /\ Len(receipts[i].chain) = Len(receipts[i].prev_chain) + 1
        /\ SubSeq(receipts[i].chain, 1, Len(receipts[i].prev_chain))
             = receipts[i].prev_chain
        /\ receipts[i].chain[Len(receipts[i].chain)].effect = receipts[i].effect

\* The state after the first k moves.
StateAt(k) == IF k = 0 THEN Policy.initial ELSE moves[k].to

\* Calls that race may lose a step of the automaton but never invent one: it is
\* where the last call to write it put it, every call stepped it from a state it
\* was in while that call was under way and only into an accepting state, and
\* an effect is admitted only after a step for that effect (broker.py:127-140).
StepsAreFresh ==
    EnableAutomaton =>
        /\ state = StateAt(Len(moves))
        /\ \A k \in DOMAIN moves :
              /\ \E j \in moves[k].since .. k - 1 :
                    step(Policy, StateAt(j), moves[k].effect) = moves[k].to
              /\ accepts(Policy, moves[k].to)
        /\ \A i \in AdmittedAt :
              /\ moveOf[i] \in DOMAIN moves
              /\ moves[moveOf[i]].effect = receipts[i].effect

\* The effects can be stepped through in this order, and end in state.
Leads(order) ==
    \E run \in [0 .. Len(moves) -> StatesOf(Policy)] :
        /\ run[0] = Policy.initial /\ run[Len(moves)] = state
        /\ \A i \in DOMAIN moves :
              run[i] = step(Policy, run[i - 1], moves[order[i]].effect)

Orders == {f \in [DOMAIN moves -> DOMAIN moves] :
              \A i, j \in DOMAIN moves : f[i] = f[j] => i = j}

\* "multi-cell workflows cannot race the automaton" (automaton.py:4-5): when no
\* call is under way, some order of the steps that were made explains the state.
AutomatonIsNotRaced ==
    EnableAutomaton /\ InFlight = {} =>
        \E order \in Orders : Leads(order)

\* "token must reference the *current* head" (broker.py:115): the token of an
\* admission names the link that the admission extends.
TokenNamesHead ==
    EnableCapability =>
        \A i \in AdmittedAt : granted[i].prev_chain = receipts[i].prev_chain

\* "audit chain integrity (sequential prev_chain link) must hold"
\* (tests/test_smoke.py:96-100).
ChainIsSequential == verify_integrity(receipts)
=============================================================================
