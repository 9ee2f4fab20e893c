---------------------------- MODULE BrokerProofs ----------------------------
(***************************************************************************)
(* Theorems about Broker, for every policy, registry, set of cells and     *)
(* setting of the ablation knobs that BrokerAssumption allows; among them, *)
(* that Broker implements ReferenceMonitor.                                *)
(***************************************************************************)
EXTENDS Broker, SequenceTheorems, FiniteSetTheorems, WellFoundedInduction, TLAPS

\* A non-empty set of naturals has a least element.
LEMMA LeastNat ==
    ASSUME NEW S \in SUBSET Nat, S # {}
    PROVE  \E i \in S : \A j \in S : i <= j
<1>1. PICK i \in S : \A j \in S : <<j, i>> \notin OpToRel(<, Nat)
  BY NatLessThanWellFounded, WFMin, Zenon
<1>2. \A j \in S : ~(j < i)
  BY <1>1, Zenon DEF OpToRel
<1> QED
  BY <1>2

\* A step of the policy ends in one of its states, or there is none
\* (automaton.py step).
LEMMA StepType ==
    ASSUME NEW s, NEW e
    PROVE  step(Policy, s, e) \in StatesOf(Policy) \cup {NoState}
<1> DEFINE hits == Enabled(Policy, s, e)
<1>1. hits \in SUBSET Nat /\ hits \subseteq DOMAIN Policy.transitions
  BY BrokerAssumption DEF Enabled
<1>2. CASE hits = {}
  BY <1>2 DEF step
<1>3. CASE hits # {}
  <2> DEFINE first == CHOOSE i \in hits : \A j \in hits : i <= j
  <2>1. first \in hits
    BY <1>1, <1>3, LeastNat
  <2>2. step(Policy, s, e) = Policy.transitions[first].dst
    BY <1>3 DEF step
  <2> QED
    BY <1>1, <2>1, <2>2 DEF StatesOf
<1> QED
  BY <1>2, <1>3

\* The head of a log of receipts is a link (audit.py head).
LEMMA HeadType ==
    ASSUME receipts \in Seq(ReceiptType)
    PROVE  head(receipts) \in Chain
<1>1. CASE receipts = <<>>
  BY <1>1, EmptySeq DEF head, GENESIS, Chain
<1>2. CASE receipts # <<>>
  <2>1. receipts[Len(receipts)] \in ReceiptType
    BY <1>2, EmptySeq, ElementOfSeq
  <2> QED
    BY <1>2, <2>1 DEF head, ReceiptType
<1> QED
  BY <1>1, <1>2

-----------------------------------------------------------------------------
(* Every branch of submit appends exactly one receipt. *)

\* The receipt a submit of m at time ts writes.
Written(m, eff, decision, note, ts, stamp) ==
    MakeReceipt(Len(receipts), head(receipts), m.ir_hash, manifest_digest(m),
                eff, decision, note, ts, stamp)

\* What a call writes is a receipt, whatever its decision (audit.py append).
LEMMA WrittenType ==
    ASSUME TypeOK, NEW m \in Manifests, NEW eff \in ReceiptEffect,
           NEW decision \in Decision, NEW note \in Reason \cup {NoNote},
           NEW ts \in Nat, NEW stamp \in Nat
    PROVE  Written(m, eff, decision, note, ts, stamp) \in ReceiptType
<1> DEFINE body == Body(Len(receipts), m.ir_hash, manifest_digest(m), eff,
                        decision, note, ts)
<1>1. Len(receipts) \in Nat
  BY LenProperties DEF TypeOK
<1>2. m.ir_hash \in IRHash
  BY BrokerAssumption DEF ManifestType
<1>3. body \in BodyType
  BY <1>1, <1>2 DEF Body, BodyType, manifest_digest, TypeOK
<1>4. head(receipts) \in Chain
  BY HeadType DEF TypeOK
<1>5. sha256(head(receipts), body) \in Chain
  BY <1>3, <1>4, AppendProperties DEF sha256, Chain
<1> QED
  BY <1>1, <1>2, <1>4, <1>5
  DEF Written, MakeReceipt, ReceiptType, manifest_digest

\* A refusal appends one DENY receipt and hands out no authority.
LEMMA DenyShape ==
    ASSUME TypeOK, NEW m \in Manifests, NEW e \in Effects, NEW reason \in Reason,
           Deny(m, e, reason)
    PROVE  \E eff \in ReceiptEffect, ts \in Nat, stamp \in Nat :
              /\ now <= ts /\ ts <= now + MaxCallTime /\ ts <= stamp
              /\ receipts' = Append(receipts, Written(m, eff, "DENY", reason, ts, stamp))
              /\ now' = stamp
              /\ granted' = Append(granted, NoToken)
              /\ issued' = issued /\ resetAt' = resetAt
<1>1. PICK ts \in ClockReadings, stamp \in ClockReadings :
          /\ ts <= stamp
          /\ receipts' = append_error(receipts, m.ir_hash, manifest_digest(m),
                                      e, reason, ts, stamp)
          /\ now' = stamp
  BY DEF Deny
<1>2. /\ ts \in Nat /\ stamp \in Nat
      /\ now <= ts /\ ts <= now + MaxCallTime
  BY BrokerAssumption DEF ClockReadings, TypeOK
<1>3. ErrorEffect(e) \in ReceiptEffect
  BY BrokerAssumption DEF Effect, ErrorEffect, ReceiptEffect, EffectKind, Label
<1>4. receipts' = Append(receipts, Written(m, ErrorEffect(e), "DENY", reason, ts, stamp))
  BY <1>1 DEF append_error, append, Written
<1> QED
  BY <1>1, <1>2, <1>3, <1>4 DEF Deny

\* An admission appends one ADMIT receipt for the submitted effect.
LEMMA AdmitShape ==
    ASSUME TypeOK, NEW m \in Manifests, NEW e \in Effects, NEW tok \in Tokens,
           Admit(m, e, tok)
    PROVE  /\ e \in ReceiptEffect
           /\ \E ts \in Nat, stamp \in Nat :
                 /\ now <= ts /\ ts <= now + MaxCallTime /\ ts <= stamp
                 /\ receipts' = Append(receipts, Written(m, e, "ADMIT", NoNote, ts, stamp))
                 /\ now' = stamp
                 /\ granted' = Append(granted, tok)
                 /\ issued' = issued /\ resetAt' = resetAt
<1>1. PICK ts \in ClockReadings, stamp \in ClockReadings :
          /\ ts <= stamp
          /\ receipts' = append(receipts, m.ir_hash, manifest_digest(m), e,
                                "ADMIT", NoNote, ts, stamp)
          /\ now' = stamp
  BY DEF Admit
<1>2. /\ ts \in Nat /\ stamp \in Nat
      /\ now <= ts /\ ts <= now + MaxCallTime
  BY BrokerAssumption DEF ClockReadings, TypeOK
<1>3. e \in ReceiptEffect
  BY BrokerAssumption DEF Effect, ReceiptEffect
<1>4. receipts' = Append(receipts, Written(m, e, "ADMIT", NoNote, ts, stamp))
  BY <1>1 DEF append, Written
<1> QED
  BY <1>1, <1>2, <1>3, <1>4 DEF Admit

\* submit is a refusal for one of the coded reasons or an admission, and the
\* state it leaves is a state of the policy (broker.py submit).
LEMMA SubmitCases ==
    ASSUME TypeOK, NEW m \in Manifests, NEW e \in Effects, NEW tok \in Tokens,
           submit(m, e, tok)
    PROVE  /\ state' \in StatesOf(Policy)
           /\ \/ \E reason \in Reason : Deny(m, e, reason)
              \/ Admit(m, e, tok)
<1>1. Permitted(e) => StateAfterPolicy(e) \in StatesOf(Policy)
  <2>1. CASE EnableAutomaton
    BY <2>1, StepType DEF Permitted, StateAfterPolicy, Successor
  <2>2. CASE ~EnableAutomaton
    BY <2>2 DEF StateAfterPolicy, TypeOK
  <2> QED
    BY <2>1, <2>2
<1>2. CASE DenyEnvelope(m, e, tok)
  BY <1>2 DEF DenyEnvelope, Reason, TypeOK
<1>3. CASE DenyMissing(m, e, tok)
  BY <1>3 DEF DenyMissing, Reason, TypeOK
<1>4. CASE DenyInvalid(m, e, tok)
  BY <1>4 DEF DenyInvalid, Reason, TypeOK
<1>5. CASE DenyStale(m, e, tok)
  BY <1>5 DEF DenyStale, Reason, TypeOK
<1>6. CASE DenyPolicy(m, e, tok)
  BY <1>6 DEF DenyPolicy, Reason, TypeOK
<1>7. CASE DenyUnregistered(m, e, tok)
  BY <1>7, <1>1 DEF DenyUnregistered, Reason
<1>8. CASE Admit(m, e, tok)
  BY <1>8, <1>1 DEF Admit
<1> QED
  BY <1>2, <1>3, <1>4, <1>5, <1>6, <1>7, <1>8 DEF submit

\* One call recorded: a receipt for eff, and g noted as its authority.
Records(m, e, tok, eff, decision, note, ts, stamp, g) ==
    /\ now <= ts /\ ts <= now + MaxCallTime /\ ts <= stamp
    /\ receipts' = Append(receipts, Written(m, eff, decision, note, ts, stamp))
    /\ now' = stamp
    /\ granted' = Append(granted, g)
    /\ issued' = issued /\ resetAt' = resetAt
    /\ decision = "ADMIT" => Admit(m, e, tok) /\ g = tok /\ eff = e

\* Whatever branch it takes, a submit appends exactly one receipt and one
\* entry of granted, and issues nothing.
LEMMA SubmitShape ==
    ASSUME TypeOK, NEW m \in Manifests, NEW e \in Effects, NEW tok \in Tokens,
           submit(m, e, tok)
    PROVE  \E eff \in ReceiptEffect, decision \in Decision,
              note \in Reason \cup {NoNote}, ts \in Nat, stamp \in Nat, g \in Tokens :
              Records(m, e, tok, eff, decision, note, ts, stamp, g)
<1>1. CASE Admit(m, e, tok)
  BY <1>1, AdmitShape DEF Decision, Records
<1>2. CASE \E reason \in Reason : Deny(m, e, reason)
  BY <1>2, DenyShape DEF Decision, Tokens, Records
<1> QED
  BY <1>1, <1>2, SubmitCases

-----------------------------------------------------------------------------
(* Type correctness *)

\* A token signed by this broker has the type of a token (capability.py
\* sign_token).
LEMMA IssuedType ==
    ASSUME TypeOK, NEW m \in Manifests, issue_token(m)
    PROVE  \E t \in TokenType :
              /\ t = sign_token(m, head(receipts), SignKey,
                                Cardinality(issued) + 1, now)
              /\ issued' = issued \cup {t}
<1> DEFINE t == sign_token(m, head(receipts), SignKey, Cardinality(issued) + 1, now)
<1>1. Cardinality(issued) + 1 \in Nat \ {0}
  BY FS_CardinalityType DEF TypeOK
<1>2. head(receipts) \in Chain
  BY HeadType DEF TypeOK
<1>3. m.ir_hash \in IRHash /\ now \in Nat /\ now + TTL \in Nat
  BY BrokerAssumption DEF ManifestType, TypeOK
<1>4. t \in TokenType
  BY <1>1, <1>2, <1>3 DEF sign_token, TokenType, manifest_digest
<1> QED
  BY <1>4 DEF issue_token, FreshToken

\* Every step of the broker keeps its variables typed.
LEMMA TypeStep ==
    ASSUME TypeOK, [Next]_vars
    PROVE  TypeOK'
<1>1. CASE Tick
  BY <1>1 DEF Tick, TypeOK
<1>2. ASSUME NEW m \in Manifests, issue_token(m) PROVE TypeOK'
  <2>1. PICK t \in TokenType : issued' = issued \cup {t}
    BY <1>2, IssuedType
  <2>2. IsFiniteSet(issued')
    BY <2>1, FS_AddElement DEF TypeOK
  <2> QED
    BY <1>2, <2>1, <2>2 DEF issue_token, TypeOK
<1>3. ASSUME NEW m \in Manifests, NEW e \in Effects, NEW tok \in Tokens,
             submit(m, e, tok)
      PROVE  TypeOK'
  <2>1. PICK eff \in ReceiptEffect, decision \in Decision,
             note \in Reason \cup {NoNote}, ts \in Nat, stamp \in Nat, g \in Tokens :
             Records(m, e, tok, eff, decision, note, ts, stamp, g)
    BY <1>3, SubmitShape
  <2>2. receipts' \in Seq(ReceiptType)
    BY <2>1, WrittenType, AppendProperties DEF TypeOK, Records
  <2>3. granted' \in Seq(TokenType \cup ForeignTokens \cup {NoToken})
    BY <2>1, AppendProperties DEF TypeOK, Tokens, Records
  <2>4. state' \in StatesOf(Policy)
    BY <1>3, SubmitCases
  <2> QED
    BY <2>1, <2>2, <2>3, <2>4 DEF TypeOK, Records
<1>4. CASE reset_session
  <2>1. Len(receipts) \in Nat
    BY LenProperties DEF TypeOK
  <2> QED
    BY <1>4, <2>1 DEF reset_session, TypeOK, StatesOf
<1>5. CASE UNCHANGED vars
  BY <1>5 DEF vars, TypeOK
<1> QED
  BY <1>1, <1>2, <1>3, <1>4, <1>5 DEF Next

\* The variables hold what the attributes of the Broker hold.
THEOREM TypeCorrect == Spec => []TypeOK
<1>1. Init => TypeOK
  <2> SUFFICES ASSUME Init PROVE TypeOK
    OBVIOUS
  <2>1. <<>> \in Seq(ReceiptType)
        /\ <<>> \in Seq(TokenType \cup ForeignTokens \cup {NoToken})
    BY EmptySeq
  <2>2. IsFiniteSet({})
    BY FS_EmptySet
  <2> QED
    BY <2>1, <2>2 DEF Init, TypeOK, StatesOf
<1>2. TypeOK /\ [Next]_vars => TypeOK'
  BY TypeStep
<1> QED
  BY <1>1, <1>2, PTL DEF Spec

-----------------------------------------------------------------------------
(* The audit chain *)

\* Receipt w goes behind the n receipts of the log: the old receipts stay, w is
\* numbered and linked behind them, and its own link extends the head with a
\* body hashed at ts.
GrowsBy(n, w, ts) ==
    /\ n \in Nat /\ DOMAIN receipts = 1 .. n
    /\ DOMAIN receipts' = 1 .. n + 1
    /\ Len(receipts') = n + 1
    /\ \A i \in 1 .. n : receipts'[i] = receipts[i]
    /\ receipts'[n + 1] = w
    /\ head(receipts) = IF n = 0 THEN GENESIS ELSE receipts[n].chain
    /\ w.seq = n /\ w.prev_chain = head(receipts)
    /\ Len(w.chain) = n + 1
    /\ \A j \in 1 .. n : w.chain[j] = head(receipts)[j]
    /\ w.chain[n + 1].ts = ts
    /\ Committed(w.chain[n + 1]) = Committed(w)

\* Appending a receipt grows the log by it (audit.py append).
LEMMA AppendedReceipt ==
    ASSUME TypeOK, AuditCommitsToHistory,
           NEW m \in Manifests, NEW eff \in ReceiptEffect,
           NEW decision \in Decision, NEW note \in Reason \cup {NoNote},
           NEW ts \in Nat, NEW stamp \in Nat,
           receipts' = Append(receipts, Written(m, eff, decision, note, ts, stamp))
    PROVE  GrowsBy(Len(receipts), Written(m, eff, decision, note, ts, stamp), ts)
<1> DEFINE n == Len(receipts)
           w == Written(m, eff, decision, note, ts, stamp)
           body == Body(n, m.ir_hash, manifest_digest(m), eff, decision, note, ts)
<1>1. n \in Nat /\ DOMAIN receipts = 1 .. n
  BY LenProperties DEF TypeOK
<1>2. w \in ReceiptType
  BY WrittenType
<1>3. /\ DOMAIN receipts' = 1 .. n + 1
      /\ Len(receipts') = n + 1
      /\ \A i \in 1 .. n : receipts'[i] = receipts[i]
      /\ receipts'[n + 1] = w
  <2>1. receipts' \in Seq(ReceiptType) /\ Len(receipts') = n + 1
    BY <1>2, AppendProperties DEF TypeOK
  <2> QED
    BY <1>1, <1>2, <2>1, AppendProperties, LenProperties DEF TypeOK
<1>4. head(receipts) \in Chain
  BY HeadType DEF TypeOK
<1>5. /\ head(receipts) = IF n = 0 THEN GENESIS ELSE receipts[n].chain
      /\ Len(head(receipts)) = n
  <2>1. CASE receipts = <<>>
    BY <2>1, EmptySeq DEF head, GENESIS
  <2>2. CASE receipts # <<>>
    BY <2>2, <1>1, EmptySeq DEF head, AuditCommitsToHistory, TypeOK
  <2> QED
    BY <2>1, <2>2
<1>6. body \in BodyType
  BY <1>1, BrokerAssumption
  DEF Body, BodyType, manifest_digest, TypeOK, ManifestType
<1>7. /\ w.chain = Append(head(receipts), body)
      /\ Len(w.chain) = n + 1
      /\ \A j \in 1 .. n : w.chain[j] = head(receipts)[j]
      /\ w.chain[n + 1] = body
  <2>1. w.chain = Append(head(receipts), body)
    BY DEF Written, MakeReceipt, sha256
  <2> QED
    BY <2>1, <1>4, <1>5, <1>6, AppendProperties DEF Chain
<1>8. w.seq = n /\ w.prev_chain = head(receipts)
  BY DEF Written, MakeReceipt
<1>9. Committed(body) = Committed(w)
  BY DEF Committed, Body, Written, MakeReceipt
<1>10. body.ts = ts
  BY DEF Body
<1> HIDE DEF n, w, body
<1>11. GrowsBy(n, w, ts)
  BY <1>1, <1>3, <1>5, <1>7, <1>8, <1>9, <1>10 DEF GrowsBy
<1> QED
  BY <1>11 DEF n, w

\* Appending a receipt keeps every link a commitment to the log before it: the
\* new link extends the head, which by hypothesis commits to all of the log.
LEMMA AppendCommits ==
    ASSUME TypeOK, AuditCommitsToHistory,
           NEW m \in Manifests, NEW eff \in ReceiptEffect,
           NEW decision \in Decision, NEW note \in Reason \cup {NoNote},
           NEW ts \in Nat, NEW stamp \in Nat,
           receipts' = Append(receipts, Written(m, eff, decision, note, ts, stamp))
    PROVE  AuditCommitsToHistory'
<1> DEFINE n == Len(receipts)
           w == Written(m, eff, decision, note, ts, stamp)
<1>0. GrowsBy(n, w, ts)
  BY AppendedReceipt
<1> HIDE DEF n, w
<1>1. n \in Nat /\ DOMAIN receipts = 1 .. n
  BY <1>0 DEF GrowsBy
<1>2. /\ DOMAIN receipts' = 1 .. n + 1
      /\ \A i \in 1 .. n : receipts'[i] = receipts[i]
      /\ receipts'[n + 1] = w
  BY <1>0 DEF GrowsBy
<1>3. head(receipts) = IF n = 0 THEN GENESIS ELSE receipts[n].chain
  BY <1>0 DEF GrowsBy
<1>4. /\ Len(w.chain) = n + 1
      /\ \A j \in 1 .. n : w.chain[j] = head(receipts)[j]
  BY <1>0 DEF GrowsBy
<1>5. w.seq = n /\ w.prev_chain = head(receipts)
  BY <1>0 DEF GrowsBy
<1>6. Committed(w.chain[n + 1]) = Committed(w)
  BY <1>0 DEF GrowsBy
<1>7. \A j \in 1 .. n + 1 : Committed(w.chain[j]) = Committed(receipts'[j])
  <2> TAKE j \in 1 .. n + 1
  <2>1. CASE j = n + 1
    BY <2>1, <1>2, <1>4, <1>6
  <2>2. CASE j # n + 1
    <3>1. j \in 1 .. n /\ n # 0
      BY <2>2, <1>1
    <3>2. w.chain[j] = receipts[n].chain[j]
      BY <3>1, <1>3, <1>4
    <3>3. Committed(receipts[n].chain[j]) = Committed(receipts[j])
      BY <3>1, <1>1 DEF AuditCommitsToHistory
    <3> QED
      BY <3>1, <3>2, <3>3, <1>2
  <2> QED
    BY <2>1, <2>2
<1>8. ASSUME NEW i \in 1 .. n + 1
       PROVE  /\ receipts'[i].seq = i - 1
              /\ receipts'[i].prev_chain = IF i = 1 THEN GENESIS
                                           ELSE receipts'[i - 1].chain
              /\ Len(receipts'[i].chain) = i
              /\ \A j \in 1 .. i : Committed(receipts'[i].chain[j])
                                     = Committed(receipts'[j])
  <2>1. CASE i = n + 1
    <3>1. receipts'[i] = w /\ i - 1 = n
      BY <2>1, <1>1, <1>2
    <3>2. w.prev_chain = IF i = 1 THEN GENESIS ELSE receipts'[i - 1].chain
      <4>1. CASE n = 0
        BY <4>1, <2>1, <1>3, <1>5
      <4>2. CASE n # 0
        <5>1. n \in 1 .. n /\ i # 1
          BY <4>2, <2>1, <1>1
        <5>2. receipts'[n] = receipts[n]
          BY <5>1, <1>2
        <5>3. w.prev_chain = receipts[n].chain
          BY <4>2, <1>3, <1>5
        <5> QED
          BY <5>1, <5>2, <5>3, <3>1
      <4> QED
        BY <4>1, <4>2
    <3>3. \A j \in 1 .. i : Committed(w.chain[j]) = Committed(receipts'[j])
      BY <2>1, <1>7
    <3>4. w.seq = i - 1 /\ Len(w.chain) = i
      BY <2>1, <3>1, <1>4, <1>5
    <3> QED
      BY <3>1, <3>2, <3>3, <3>4
  <2>2. CASE i # n + 1
    <3>1. i \in 1 .. n /\ (i # 1 => i - 1 \in 1 .. n) /\ 1 .. i \subseteq 1 .. n
      BY <2>2, <1>1
    <3>2. /\ receipts'[i] = receipts[i]
          /\ i # 1 => receipts'[i - 1] = receipts[i - 1]
          /\ \A j \in 1 .. i : receipts'[j] = receipts[j]
      BY <3>1, <1>2
    <3>3. /\ receipts[i].seq = i - 1
          /\ receipts[i].prev_chain = IF i = 1 THEN GENESIS
                                      ELSE receipts[i - 1].chain
          /\ Len(receipts[i].chain) = i
          /\ \A j \in 1 .. i : Committed(receipts[i].chain[j])
                                 = Committed(receipts[j])
      BY <3>1, <1>1 DEF AuditCommitsToHistory
    <3>4. \A j \in 1 .. i : Committed(receipts'[i].chain[j])
                             = Committed(receipts'[j])
      BY <3>2, <3>3
    <3> QED
      BY <3>2, <3>3, <3>4, Zenon
  <2> QED
    BY <2>1, <2>2
<1> QED
  BY <1>2, <1>8 DEF AuditCommitsToHistory

\* No link of the log commits to anything but the log before it.
THEOREM HistoryCommitted == Spec => []AuditCommitsToHistory
<1>1. Init => AuditCommitsToHistory
  BY DEF Init, AuditCommitsToHistory
<1>2. TypeOK /\ AuditCommitsToHistory /\ [Next]_vars => AuditCommitsToHistory'
  <2> SUFFICES ASSUME TypeOK, AuditCommitsToHistory, [Next]_vars
               PROVE  AuditCommitsToHistory'
    OBVIOUS
  <2>1. ASSUME NEW m \in Manifests, NEW e \in Effects, NEW tok \in Tokens,
               submit(m, e, tok)
        PROVE  AuditCommitsToHistory'
    <3>1. PICK eff \in ReceiptEffect, decision \in Decision,
               note \in Reason \cup {NoNote}, ts \in Nat, stamp \in Nat, g \in Tokens :
               Records(m, e, tok, eff, decision, note, ts, stamp, g)
      BY <2>1, SubmitShape
    <3>2. receipts' = Append(receipts, Written(m, eff, decision, note, ts, stamp))
      BY <3>1 DEF Records
    <3> QED
      BY <3>2, AppendCommits
  <2>2. CASE UNCHANGED receipts
    BY <2>2 DEF AuditCommitsToHistory
  <2> QED
    BY <2>1, <2>2 DEF Next, vars, Tick, issue_token, reset_session
<1> QED
  BY <1>1, <1>2, TypeCorrect, PTL DEF Spec

-----------------------------------------------------------------------------
(* Tokens and the authority they carry *)

\* What is true of every token in the table: its nonce is its own, it belongs
\* to the cell its digest names, and it was issued no earlier than the last
\* receipt its link commits to.
TokenTable ==
    /\ \A t \in issued : t.nonce \in 1 .. Cardinality(issued)
    /\ \A t, u \in issued : t.nonce = u.nonce => t = u
    /\ \A t \in issued :
          /\ t.issued_at <= now
          /\ t.ir_hash = t.manifest_digest.ir_hash
          /\ t.prev_chain # <<>> =>
                t.prev_chain[Len(t.prev_chain)].ts <= t.issued_at

\* Receipts are about past calls, one entry of granted each.
LogTimed ==
    /\ Len(granted) = Len(receipts)
    /\ \A i \in DOMAIN receipts :
          /\ receipts[i].chain[i].ts \in Nat
          /\ receipts[i].chain[i].ts <= now

\* The strengthening of AuthorityBound that a step preserves.
AuthorityInv == TokenTable /\ LogTimed /\ AuthorityBound

\* An admission with capabilities on is given to a token of this broker, for
\* the cell submitted, that names the head and has not expired (broker.py
\* submit, step 2: foreign tokens fail the MAC).
LEMMA AdmitToken ==
    ASSUME TypeOK, EnableCapability, NEW m \in Manifests, NEW e \in Effects,
           NEW tok \in Tokens, Admit(m, e, tok)
    PROVE  /\ tok \in issued
           /\ tok.manifest_digest = m
           /\ tok.prev_chain = head(receipts)
           /\ now <= tok.expiry
<1>1. TokenVerified(m, tok) /\ tok.prev_chain = head(receipts)
  BY DEF Admit, TokenCurrent
<1>2. tok # NoToken /\ tok.mac = SignKey
  BY <1>1 DEF TokenVerified, verify_token
<1>3. tok \in issued
  BY <1>2, BrokerAssumption DEF Tokens
<1> QED
  BY <1>1, <1>3 DEF TokenVerified, verify_token, manifest_digest

\* The last body the head commits to was hashed at or before now.
LEMMA HeadTimed ==
    ASSUME TypeOK, AuditCommitsToHistory, LogTimed, receipts # <<>>
    PROVE  /\ Len(receipts) \in DOMAIN receipts
           /\ head(receipts) = receipts[Len(receipts)].chain
           /\ Len(head(receipts)) = Len(receipts)
           /\ head(receipts)[Len(head(receipts))].ts <= now
<1>1. Len(receipts) \in DOMAIN receipts
  BY EmptySeq, LenProperties DEF TypeOK
<1>2. head(receipts) = receipts[Len(receipts)].chain
  BY DEF head
<1>3. Len(head(receipts)) = Len(receipts)
  BY <1>1, <1>2 DEF AuditCommitsToHistory
<1> QED
  BY <1>1, <1>2, <1>3 DEF LogTimed

\* Issuing a token keeps the table: the nonce is new and the link is the head.
LEMMA IssueKeepsTable ==
    ASSUME TypeOK, AuditCommitsToHistory, TokenTable, LogTimed,
           NEW m \in Manifests, issue_token(m)
    PROVE  TokenTable'
<1>1. PICK t \in TokenType :
         /\ t = sign_token(m, head(receipts), SignKey, Cardinality(issued) + 1, now)
         /\ issued' = issued \cup {t}
  BY IssuedType
<1>2. /\ t.nonce = Cardinality(issued) + 1
      /\ t.issued_at = now
      /\ t.ir_hash = m.ir_hash /\ t.manifest_digest = m
      /\ t.prev_chain = head(receipts)
  BY <1>1 DEF sign_token, manifest_digest
<1>3. Cardinality(issued) \in Nat
  BY FS_CardinalityType DEF TypeOK
<1>4. t \notin issued
  BY <1>2, <1>3 DEF TokenTable
<1>5. Cardinality(issued') = Cardinality(issued) + 1
  BY <1>1, <1>4, FS_AddElement DEF TypeOK
<1>6. \A u \in issued' : u.nonce \in 1 .. Cardinality(issued')
  BY <1>1, <1>2, <1>3, <1>5 DEF TokenTable
<1>7. \A u, v \in issued' : u.nonce = v.nonce => u = v
  <2> TAKE u, v \in issued'
  <2>1. \A x \in issued : x.nonce # t.nonce
    BY <1>2, <1>3 DEF TokenTable
  <2> QED
    BY <1>1, <2>1 DEF TokenTable
<1>8. t.prev_chain # <<>> => t.prev_chain[Len(t.prev_chain)].ts <= t.issued_at
  BY <1>2, HeadTimed DEF head, GENESIS
<1>9. now' = now
  BY DEF issue_token
<1>10. \A u \in issued' :
          /\ u.issued_at <= now'
          /\ u.ir_hash = u.manifest_digest.ir_hash
          /\ u.prev_chain # <<>> =>
                u.prev_chain[Len(u.prev_chain)].ts <= u.issued_at
  BY <1>1, <1>2, <1>8, <1>9 DEF TokenTable, TypeOK
<1> QED
  BY <1>6, <1>7, <1>10 DEF TokenTable

\* A submit keeps the authority invariant: it issues nothing, its receipt is
\* written now, and if it admits, AdmitToken says what covers it.
LEMMA SubmitKeepsAuthority ==
    ASSUME TypeOK, AuditCommitsToHistory, AuthorityInv,
           NEW m \in Manifests, NEW e \in Effects, NEW tok \in Tokens,
           submit(m, e, tok)
    PROVE  AuthorityInv'
<1>1. PICK eff \in ReceiptEffect, decision \in Decision,
           note \in Reason \cup {NoNote}, ts \in Nat, stamp \in Nat, g \in Tokens :
           Records(m, e, tok, eff, decision, note, ts, stamp, g)
  BY SubmitShape
<1>2. PICK n : n = Len(receipts)
  OBVIOUS
<1>3. PICK w : w = Written(m, eff, decision, note, ts, stamp) /\ GrowsBy(n, w, ts)
  BY <1>1, <1>2, AppendedReceipt DEF Records
<1>4. /\ n \in Nat /\ DOMAIN receipts = 1 .. n
      /\ DOMAIN receipts' = 1 .. n + 1
      /\ Len(receipts') = n + 1
      /\ \A i \in 1 .. n : receipts'[i] = receipts[i]
      /\ receipts'[n + 1] = w
      /\ w.prev_chain = head(receipts)
      /\ w.chain[n + 1].ts = ts
  BY <1>3 DEF GrowsBy
<1>5. /\ now \in Nat /\ now' \in Nat /\ now <= now' /\ issued' = issued
      /\ now <= ts /\ ts <= now + MaxCallTime /\ ts <= now'
  BY <1>1 DEF Records, TypeOK
<1>6. TokenTable'
  <2>1. \A t \in issued : t.issued_at \in Nat
    BY DEF TypeOK, TokenType
  <2> QED
    BY <1>5, <2>1 DEF AuthorityInv, TokenTable
<1>7. /\ Len(granted') = n + 1
      /\ \A i \in 1 .. n : granted'[i] = granted[i]
      /\ granted'[n + 1] = g
  <2>1. granted' = Append(granted, g)
    BY <1>1 DEF Records
  <2>2. Len(granted) = n
    BY <1>2 DEF AuthorityInv, LogTimed
  <2> QED
    BY <2>1, <2>2, AppendProperties DEF TypeOK, Tokens
<1>8. LogTimed'
  <2>1. ASSUME NEW i \in 1 .. n + 1
        PROVE  receipts'[i].chain[i].ts \in Nat /\ receipts'[i].chain[i].ts <= now'
    <3>1. CASE i = n + 1
      BY <3>1, <1>4, <1>5
    <3>2. CASE i # n + 1
      <4>1. i \in 1 .. n
        BY <3>2, <1>4
      <4> QED
        BY <4>1, <1>4, <1>5 DEF AuthorityInv, LogTimed
    <3> QED
      BY <3>1, <3>2
  <2> QED
    BY <1>4, <1>7, <2>1 DEF LogTimed
<1>9. AuthorityBound'
  <2> SUFFICES ASSUME EnableCapability, NEW i \in 1 .. n + 1,
                      receipts'[i].decision = "ADMIT"
               PROVE  /\ granted'[i] \in issued
                      /\ granted'[i].ir_hash = receipts'[i].ir_hash
                      /\ granted'[i].manifest_digest = receipts'[i].manifest_digest
                      /\ granted'[i].prev_chain = receipts'[i].prev_chain
                      /\ granted'[i].issued_at <= receipts'[i].chain[i].ts
                      /\ receipts'[i].chain[i].ts <= granted'[i].expiry + MaxCallTime
                      /\ i > 1 => receipts'[i - 1].chain[i - 1].ts
                                    <= granted'[i].issued_at
    BY <1>4, <1>5 DEF AuthorityBound, AdmittedAt
  <2>1. CASE i # n + 1
    <3>1. i \in 1 .. n /\ (i > 1 => i - 1 \in 1 .. n)
      BY <2>1, <1>4
    <3> QED
      BY <3>1, <1>4, <1>7 DEF AuthorityInv, AuthorityBound, AdmittedAt
  <2>2. CASE i = n + 1
    <3>1. decision = "ADMIT" /\ w.ir_hash = m.ir_hash /\ w.manifest_digest = m
      BY <2>2, <1>3, <1>4 DEF Written, MakeReceipt, manifest_digest
    <3>2. Admit(m, e, tok) /\ g = tok
      BY <3>1, <1>1 DEF Records
    <3>3. /\ g \in issued
          /\ g.manifest_digest = m
          /\ g.prev_chain = head(receipts)
          /\ now <= g.expiry
      BY <3>2, AdmitToken
    <3>4. g.issued_at <= now /\ g.ir_hash = m.ir_hash
      BY <3>3 DEF AuthorityInv, TokenTable
    <3>5. i > 1 => receipts'[i - 1].chain[i - 1].ts <= g.issued_at
      <4> SUFFICES ASSUME i > 1
                   PROVE  receipts'[i - 1].chain[i - 1].ts <= g.issued_at
        OBVIOUS
      <4>1. i - 1 = n /\ n \in 1 .. n
        BY <2>2, <1>4
      <4>2. receipts # <<>>
        BY <4>1, <1>2, EmptySeq
      <4>3. head(receipts) = receipts[n].chain /\ Len(head(receipts)) = n
        BY <4>2, <1>2, HeadTimed DEF AuthorityInv
      <4>4. g.prev_chain # <<>>
        BY <3>3, <4>1, <4>3, EmptySeq
      <4>5. g.prev_chain[Len(g.prev_chain)].ts <= g.issued_at
        BY <3>3, <4>4 DEF AuthorityInv, TokenTable
      <4> QED
        BY <3>3, <4>1, <4>3, <4>5, <1>4
    <3>6. g.issued_at <= ts /\ ts <= g.expiry + MaxCallTime
      <4>1. g.issued_at \in Nat /\ g.expiry \in Nat
        BY <3>3 DEF TypeOK, TokenType
      <4> QED
        BY <4>1, <3>3, <3>4, <1>5, BrokerAssumption
    <3> QED
      BY <2>2, <3>1, <3>3, <3>4, <3>5, <3>6, <1>4, <1>7
  <2> QED
    BY <2>1, <2>2
<1> QED
  BY <1>6, <1>8, <1>9 DEF AuthorityInv

\* AuthorityInv and the commitment to history hold together in every state.
THEOREM AuthorityInvariant == Spec => [](AuditCommitsToHistory /\ AuthorityInv)
<1>1. Init => AuthorityInv
  BY DEF Init, AuthorityInv, TokenTable, LogTimed, AuthorityBound, AdmittedAt
<1>2. TypeOK /\ AuditCommitsToHistory /\ AuthorityInv /\ [Next]_vars => AuthorityInv'
  <2> SUFFICES ASSUME TypeOK, AuditCommitsToHistory, AuthorityInv, [Next]_vars
               PROVE  AuthorityInv'
    OBVIOUS
  <2>1. CASE Tick
    <3>1. /\ now' = now + 1 /\ now \in Nat /\ issued' = issued
          /\ receipts' = receipts /\ granted' = granted
      BY <2>1 DEF Tick, TypeOK
    <3>2. TokenTable'
      <4>1. \A t \in issued : t.issued_at \in Nat
        BY DEF TypeOK, TokenType
      <4> QED
        BY <3>1, <4>1 DEF AuthorityInv, TokenTable
    <3>3. LogTimed'
      BY <3>1 DEF AuthorityInv, LogTimed
    <3>4. AuthorityBound'
      BY <3>1 DEF AuthorityInv, AuthorityBound, AdmittedAt
    <3> QED
      BY <3>2, <3>3, <3>4 DEF AuthorityInv
  <2>2. ASSUME NEW m \in Manifests, issue_token(m) PROVE AuthorityInv'
    <3>1. TokenTable'
      BY <2>2, IssueKeepsTable DEF AuthorityInv
    <3>2. /\ issued \subseteq issued' /\ now' = now
          /\ receipts' = receipts /\ granted' = granted
      BY <2>2 DEF issue_token
    <3>3. LogTimed'
      BY <3>2 DEF AuthorityInv, LogTimed
    <3>4. AuthorityBound'
      BY <3>2 DEF AuthorityInv, AuthorityBound, AdmittedAt
    <3> QED
      BY <3>1, <3>3, <3>4 DEF AuthorityInv
  <2>3. ASSUME NEW m \in Manifests, NEW e \in Effects, NEW tok \in Tokens,
               submit(m, e, tok)
        PROVE  AuthorityInv'
    BY <2>3, SubmitKeepsAuthority
  <2>4. CASE UNCHANGED <<receipts, issued, now, granted>>
    BY <2>4 DEF AuthorityInv, TokenTable, LogTimed, AuthorityBound, AdmittedAt
  <2> QED
    BY <2>1, <2>2, <2>3, <2>4 DEF Next, vars, reset_session
<1> QED
  BY <1>1, <1>2, TypeCorrect, HistoryCommitted, PTL DEF Spec

\* Every admission is covered by a live token of this broker for the very
\* cell and manifest, issued since the receipt before it.
THEOREM AuthorityIsBound == Spec => []AuthorityBound
<1>1. AuthorityInv => AuthorityBound
  BY DEF AuthorityInv
<1> QED
  BY <1>1, AuthorityInvariant, PTL

\* No token authorises two effects: the links two admissions were decided
\* under have different lengths, so they are not the link of one token.
THEOREM SingleUse == Spec => []TokenSingleUse
<1>1. TypeOK /\ AuditCommitsToHistory /\ AuthorityInv => TokenSingleUse
  <2> SUFFICES ASSUME TypeOK, AuditCommitsToHistory, AuthorityInv,
                      EnableCapability,
                      NEW i \in AdmittedAt, NEW j \in AdmittedAt,
                      granted[i].nonce = granted[j].nonce
               PROVE  i = j
    BY DEF TokenSingleUse
  <2>1. /\ granted[i] \in issued /\ granted[i].prev_chain = receipts[i].prev_chain
        /\ granted[j] \in issued /\ granted[j].prev_chain = receipts[j].prev_chain
    BY DEF AuthorityInv, AuthorityBound
  <2>2. granted[i] = granted[j]
    BY <2>1 DEF AuthorityInv, TokenTable
  <2>3. \A k \in DOMAIN receipts : Len(receipts[k].prev_chain) = k - 1
    <3> TAKE k \in DOMAIN receipts
    <3>1. k \in 1 .. Len(receipts) /\ DOMAIN receipts = 1 .. Len(receipts)
      BY LenProperties DEF TypeOK
    <3>2. CASE k = 1
      BY <3>2, EmptySeq DEF AuditCommitsToHistory, GENESIS
    <3>3. CASE k # 1
      <4>1. k - 1 \in DOMAIN receipts
        BY <3>1, <3>3
      <4> QED
        BY <3>3, <4>1 DEF AuditCommitsToHistory
    <3> QED
      BY <3>2, <3>3
  <2>4. i \in DOMAIN receipts /\ j \in DOMAIN receipts /\ i \in Int /\ j \in Int
    BY LenProperties DEF AdmittedAt, TypeOK
  <2>5. i - 1 = j - 1
    BY <2>1, <2>2, <2>3, <2>4
  <2> QED
    BY <2>4, <2>5
<1> QED
  BY <1>1, TypeCorrect, AuthorityInvariant, PTL

-----------------------------------------------------------------------------
(* The automaton *)

\* A submit that does not admit leaves the automaton alone, step 4 included
\* when an unregistered declassification cannot move it (broker.py:140-153).
LEMMA RefusalKeepsState ==
    ASSUME TypeOK, RefusedDeclLoops, NEW m \in Manifests, NEW e \in Effects,
           NEW tok \in Tokens, submit(m, e, tok), ~Admit(m, e, tok)
    PROVE  state' = state
<1>1. CASE DenyUnregistered(m, e, tok)
  <2>1. Permitted(e) /\ ~DeclRouted(e) /\ state' = StateAfterPolicy(e)
    BY <1>1 DEF DenyUnregistered
  <2>2. e.kind = "Decl" /\ e.primitive \notin Registered
    BY <2>1 DEF DeclRouted
  <2>3. state \in StatesOf(Policy)
    BY DEF TypeOK
  <2>4. CASE EnableAutomaton
    <3>1. state' = step(Policy, state, e) /\ step(Policy, state, e) # NoState
      BY <2>1, <2>4 DEF Permitted, StateAfterPolicy, Successor
    <3>2. step(Policy, state, e) \in {state, NoState}
      BY <2>2, <2>3, <2>4 DEF RefusedDeclLoops
    <3> QED
      BY <3>1, <3>2
  <2>5. CASE ~EnableAutomaton
    BY <2>1, <2>5 DEF StateAfterPolicy
  <2> QED
    BY <2>4, <2>5
<1>2. CASE DenyEnvelope(m, e, tok)
  BY <1>2 DEF DenyEnvelope
<1>3. CASE DenyMissing(m, e, tok)
  BY <1>3 DEF DenyMissing
<1>4. CASE DenyInvalid(m, e, tok)
  BY <1>4 DEF DenyInvalid
<1>5. CASE DenyStale(m, e, tok)
  BY <1>5 DEF DenyStale
<1>6. CASE DenyPolicy(m, e, tok)
  BY <1>6 DEF DenyPolicy
<1> QED
  BY <1>1, <1>2, <1>3, <1>4, <1>5, <1>6 DEF submit

\* An admission appends an ADMIT receipt, so a step that appends a DENY
\* receipt is a submit that does not admit.
LEMMA AdmitDecision ==
    ASSUME TypeOK, AuditCommitsToHistory, NEW m \in Manifests, NEW e \in Effects,
           NEW tok \in Tokens, Admit(m, e, tok)
    PROVE  /\ DOMAIN receipts' = 1 .. Len(receipts) + 1
           /\ receipts'[Len(receipts) + 1].decision = "ADMIT"
           /\ receipts'[Len(receipts) + 1].effect = e
<1>1. PICK ts \in Nat, stamp \in Nat :
          receipts' = Append(receipts, Written(m, e, "ADMIT", NoNote, ts, stamp))
  BY AdmitShape
<1>2. e \in ReceiptEffect
  BY AdmitShape
<1>3. GrowsBy(Len(receipts), Written(m, e, "ADMIT", NoNote, ts, stamp), ts)
  BY <1>1, <1>2, AppendedReceipt DEF Decision
<1> QED
  BY <1>3 DEF GrowsBy, Written, MakeReceipt

\* A refusal leaves the automaton where it was, under every policy whose
\* unregistered declassifications are loops.
THEOREM DenialInert == RefusedDeclLoops => (Spec => DenyIsInert)
<1> SUFFICES ASSUME RefusedDeclLoops PROVE Spec => DenyIsInert
  OBVIOUS
<1> DEFINE Inert == \A i \in DOMAIN receipts' \ DOMAIN receipts :
                       receipts'[i].decision = "DENY" => state' = state
<1>1. TypeOK /\ AuditCommitsToHistory /\ [Next]_vars => [Inert]_vars
  <2> SUFFICES ASSUME TypeOK, AuditCommitsToHistory, Next PROVE Inert
    OBVIOUS
  <2>1. ASSUME NEW m \in Manifests, NEW e \in Effects, NEW tok \in Tokens,
               submit(m, e, tok)
        PROVE  Inert
    <3>1. CASE Admit(m, e, tok)
      <4>1. /\ DOMAIN receipts' = 1 .. Len(receipts) + 1
            /\ receipts'[Len(receipts) + 1].decision = "ADMIT"
        BY <3>1, AdmitDecision
      <4>2. Len(receipts) \in Nat /\ DOMAIN receipts = 1 .. Len(receipts)
        BY LenProperties DEF TypeOK
      <4>3. \A i \in DOMAIN receipts' \ DOMAIN receipts : i = Len(receipts) + 1
        BY <4>1, <4>2
      <4> QED
        BY <4>1, <4>3
    <3>2. CASE ~Admit(m, e, tok)
      BY <2>1, <3>2, RefusalKeepsState
    <3> QED
      BY <3>1, <3>2
  <2>2. CASE receipts' = receipts
    BY <2>2
  <2> QED
    BY <2>1, <2>2 DEF Next, Tick, issue_token, reset_session
<1> QED
  BY <1>1, TypeCorrect, HistoryCommitted, PTL DEF Spec, DenyIsInert

\* A submit extends the run that explains the state by one entry.
LEMMA SubmitExtendsRun ==
    ASSUME TypeOK, AuditCommitsToHistory, RefusedDeclLoops, EnableAutomaton,
           resetAt <= Len(receipts), StateMatchesAudit,
           NEW m \in Manifests, NEW e \in Effects, NEW tok \in Tokens,
           submit(m, e, tok)
    PROVE  StateMatchesAudit' /\ resetAt' <= Len(receipts')
<1>1. PICK eff \in ReceiptEffect, decision \in Decision,
           note \in Reason \cup {NoNote}, ts \in Nat, stamp \in Nat, g \in Tokens :
           Records(m, e, tok, eff, decision, note, ts, stamp, g)
  BY SubmitShape
<1>2. PICK n : n = Len(receipts)
  OBVIOUS
<1>3. PICK w : w = Written(m, eff, decision, note, ts, stamp) /\ GrowsBy(n, w, ts)
  BY <1>1, <1>2, AppendedReceipt DEF Records
<1>4. /\ n \in Nat /\ Len(receipts') = n + 1
      /\ \A i \in 1 .. n : receipts'[i] = receipts[i]
      /\ receipts'[n + 1] = w
  BY <1>3 DEF GrowsBy
<1>5. resetAt \in Nat /\ resetAt <= n /\ resetAt' = resetAt
  BY <1>1, <1>2 DEF Records, TypeOK
<1>6. PICK run \in [resetAt .. n -> StatesOf(Policy)] : Explains(run)
  BY <1>2 DEF StateMatchesAudit
<1>7. state' \in StatesOf(Policy)
  BY SubmitCases
<1>8. PICK next :
         next = [k \in resetAt .. n + 1 |-> IF k = n + 1 THEN state' ELSE run[k]]
  OBVIOUS
<1>9. /\ next \in [resetAt .. n + 1 -> StatesOf(Policy)]
      /\ next[n + 1] = state'
      /\ \A k \in resetAt .. n : next[k] = run[k]
  BY <1>4, <1>5, <1>6, <1>7, <1>8
<1>10. state' = IF w.decision = "ADMIT" THEN step(Policy, state, w.effect) ELSE state
  <2>1. w.decision = decision /\ w.effect = eff
    BY <1>3 DEF Written, MakeReceipt
  <2>2. CASE decision = "ADMIT"
    <3>1. Admit(m, e, tok) /\ eff = e
      BY <1>1, <2>2 DEF Records
    <3>2. state' = step(Policy, state, e)
      BY <3>1 DEF Admit, StateAfterPolicy, Successor
    <3> QED
      BY <2>1, <2>2, <3>1, <3>2
  <2>3. CASE decision # "ADMIT"
    <3>1. ~Admit(m, e, tok)
      <4> SUFFICES ASSUME Admit(m, e, tok) PROVE FALSE
        OBVIOUS
      <4>1. receipts'[n + 1].decision = "ADMIT"
        BY <1>2, AdmitDecision
      <4> QED
        BY <4>1, <1>4, <2>1, <2>3
    <3>2. state' = state
      BY <3>1, RefusalKeepsState
    <3> QED
      BY <2>1, <2>3, <3>2
  <2> QED
    BY <2>2, <2>3
<1>11. next[resetAt] = Policy.initial
  BY <1>4, <1>5, <1>6, <1>9 DEF Explains
<1>12. ASSUME NEW i \in resetAt + 1 .. n + 1
       PROVE  next[i] = IF receipts'[i].decision = "ADMIT"
                        THEN step(Policy, next[i - 1], receipts'[i].effect)
                        ELSE next[i - 1]
  <2>1. CASE i = n + 1
    <3>1. i - 1 = n /\ n \in resetAt .. n
      <4>1. n \in Nat /\ resetAt \in Nat /\ resetAt <= n
        BY <1>4, <1>5
      <4> QED
        BY <2>1, <4>1
    <3>2. next[i - 1] = state
      BY <3>1, <1>2, <1>6, <1>9 DEF Explains
    <3> QED
      BY <2>1, <3>2, <1>4, <1>9, <1>10
  <2>2. CASE i # n + 1
    <3>1. /\ i \in resetAt + 1 .. n /\ i \in 1 .. n
          /\ i \in resetAt .. n /\ i - 1 \in resetAt .. n
      BY <2>2, <1>4, <1>5
    <3>2. next[i] = run[i] /\ next[i - 1] = run[i - 1] /\ receipts'[i] = receipts[i]
      BY <3>1, <1>4, <1>9
    <3> QED
      BY <3>1, <3>2, <1>2, <1>6 DEF Explains
  <2> QED
    BY <2>1, <2>2
<1>13. Explains(next)'
  BY <1>4, <1>5, <1>9, <1>11, <1>12 DEF Explains
<1>14. resetAt' <= Len(receipts')
  BY <1>4, <1>5
<1> QED
  BY <1>4, <1>5, <1>9, <1>13, <1>14 DEF StateMatchesAudit

\* The state can be recomputed from the log, under every policy whose
\* unregistered declassifications are loops.
THEOREM StateAudited == RefusedDeclLoops => (Spec => []StateMatchesAudit)
<1> SUFFICES ASSUME RefusedDeclLoops PROVE Spec => []StateMatchesAudit
  OBVIOUS
<1> DEFINE Inv == StateMatchesAudit /\ resetAt <= Len(receipts)
<1>1. Init => Inv
  <2> SUFFICES ASSUME Init PROVE Inv
    OBVIOUS
  <2>1. Len(receipts) = 0 /\ resetAt = 0 /\ state = Policy.initial
    BY EmptySeq DEF Init
  <2> DEFINE run == [k \in 0 .. 0 |-> Policy.initial]
  <2>2. run \in [resetAt .. Len(receipts) -> StatesOf(Policy)]
    BY <2>1 DEF StatesOf
  <2>3. Explains(run)
    BY <2>1 DEF Explains
  <2> QED
    BY <2>1, <2>2, <2>3 DEF StateMatchesAudit
<1>2. TypeOK /\ AuditCommitsToHistory /\ Inv /\ [Next]_vars => Inv'
  <2> SUFFICES ASSUME TypeOK, AuditCommitsToHistory, Inv, [Next]_vars PROVE Inv'
    OBVIOUS
  <2>1. ASSUME NEW m \in Manifests, NEW e \in Effects, NEW tok \in Tokens,
               submit(m, e, tok)
        PROVE  Inv'
    <3>1. CASE EnableAutomaton
      BY <2>1, <3>1, SubmitExtendsRun
    <3>2. CASE ~EnableAutomaton
      <4>1. PICK eff \in ReceiptEffect, decision \in Decision,
                 note \in Reason \cup {NoNote}, ts \in Nat, stamp \in Nat, g \in Tokens :
                 Records(m, e, tok, eff, decision, note, ts, stamp, g)
        BY <2>1, SubmitShape
      <4>2. GrowsBy(Len(receipts), Written(m, eff, decision, note, ts, stamp), ts)
        BY <4>1, AppendedReceipt DEF Records
      <4>3. Len(receipts') = Len(receipts) + 1 /\ Len(receipts) \in Nat
            /\ resetAt' = resetAt /\ resetAt \in Nat
        BY <4>1, <4>2 DEF GrowsBy, Records, TypeOK
      <4> QED
        BY <3>2, <4>3 DEF StateMatchesAudit
    <3> QED
      BY <3>1, <3>2
  <2>2. CASE reset_session
    <3>1. Len(receipts) \in Nat
      BY LenProperties DEF TypeOK
    <3>2. /\ Len(receipts') = Len(receipts) /\ resetAt' = Len(receipts)
          /\ state' = Policy.initial
      BY <2>2 DEF reset_session
    <3>3. PICK run : run = [k \in Len(receipts) .. Len(receipts) |-> Policy.initial]
      OBVIOUS
    <3>4. /\ run \in [resetAt' .. Len(receipts') -> StatesOf(Policy)]
          /\ Explains(run)'
      BY <3>1, <3>2, <3>3 DEF Explains, StatesOf
    <3> QED
      BY <3>1, <3>2, <3>4 DEF StateMatchesAudit
  <2>3. CASE UNCHANGED <<receipts, state, resetAt>>
    BY <2>3 DEF StateMatchesAudit, Explains
  <2> QED
    BY <2>1, <2>2, <2>3 DEF Next, vars, Tick, issue_token
<1> QED
  BY <1>1, <1>2, TypeCorrect, HistoryCommitted, PTL DEF Spec

-----------------------------------------------------------------------------
(* The default policy, and the reference monitor *)

\* Every declassification transition of the default policy is a loop
\* (automaton.py:84-88).
LEMMA DefaultDeclLoop ==
    ASSUME NEW i \in DOMAIN default_automaton.transitions, NEW e,
           e.kind = "Decl", e \in default_automaton.transitions[i].pred
    PROVE  default_automaton.transitions[i].dst = default_automaton.transitions[i].src
<1> DEFINE T == TransitionsFrom("init") \o TransitionsFrom("obs") \o TransitionsFrom("mut")
<1>1. DOMAIN T = 1 .. 12
  BY DEF TransitionsFrom
<1>2. /\ T[1] = TransitionsFrom("init")[1] /\ T[2] = TransitionsFrom("init")[2]
      /\ T[3] = TransitionsFrom("init")[3] /\ T[4] = TransitionsFrom("init")[4]
      /\ T[5] = TransitionsFrom("obs")[1]  /\ T[6] = TransitionsFrom("obs")[2]
      /\ T[7] = TransitionsFrom("obs")[3]  /\ T[8] = TransitionsFrom("obs")[4]
      /\ T[9] = TransitionsFrom("mut")[1]  /\ T[10] = TransitionsFrom("mut")[2]
      /\ T[11] = TransitionsFrom("mut")[3] /\ T[12] = TransitionsFrom("mut")[4]
  BY DEF TransitionsFrom
<1>3. \A s \in {"init", "obs", "mut"}, k \in 1 .. 4 :
         e \in TransitionsFrom(s)[k].pred =>
            TransitionsFrom(s)[k].dst = TransitionsFrom(s)[k].src
  BY DEF TransitionsFrom, is_obs, is_pure, is_mut_admissible
<1> HIDE DEF T
<1>4. i \in 1 .. 12 /\ e \in T[i].pred
  BY <1>1 DEF default_automaton, T
<1>5. T[i].dst = T[i].src
  BY <1>2, <1>3, <1>4
<1> QED
  BY <1>5 DEF default_automaton, T

\* The default policy never moves on an unregistered declassification.
THEOREM DefaultPolicyLoops == Policy = default_automaton => RefusedDeclLoops
<1> SUFFICES ASSUME Policy = default_automaton, NEW s \in StatesOf(Policy),
                    NEW e \in Effects, e.kind = "Decl"
             PROVE  step(Policy, s, e) \in {s, NoState}
  BY DEF RefusedDeclLoops
<1> DEFINE hits == Enabled(Policy, s, e)
<1>1. CASE hits = {}
  BY <1>1 DEF step
<1>2. CASE hits # {}
  <2> DEFINE first == CHOOSE i \in hits : \A j \in hits : i <= j
  <2>1. hits \in SUBSET Nat
    BY BrokerAssumption DEF Enabled
  <2>2. first \in hits
    BY <1>2, <2>1, LeastNat
  <2>3. step(Policy, s, e) = Policy.transitions[first].dst
    BY <1>2 DEF step
  <2>4. /\ first \in DOMAIN Policy.transitions
        /\ Policy.transitions[first].src = s
        /\ e \in Policy.transitions[first].pred
    BY <2>2 DEF Enabled
  <2> QED
    BY <2>3, <2>4, DefaultDeclLoop
<1> QED
  BY <1>1, <1>2

-----------------------------------------------------------------------------
(* Refinement *)

\* The operators the monitor shares with the broker are the same operators.
LEMMA MonitorOperators ==
    /\ \A s, e : Monitor!step(Policy, s, e) = step(Policy, s, e)
    /\ \A s : Monitor!accepts(Policy, s) <=> accepts(Policy, s)
    /\ \A e, m : Monitor!effect_in_envelope(e, m) <=> effect_in_envelope(e, m)
<1>1. \A s, e : Monitor!Enabled(Policy, s, e) = Enabled(Policy, s, e)
  BY DEF Monitor!Enabled, Enabled
<1>2. \A s, e : Monitor!step(Policy, s, e) = step(Policy, s, e)
  <2> TAKE s, e
  <2> DEFINE hits == Enabled(Policy, s, e)
             Chosen(H) == Policy.transitions[CHOOSE i \in H : \A j \in H : i <= j].dst
  <2>1. Monitor!step(Policy, s, e) =
           IF Monitor!Enabled(Policy, s, e) = {} THEN NoState
           ELSE Chosen(Monitor!Enabled(Policy, s, e))
    BY Zenon DEF Monitor!step, Monitor!NoState, NoState
  <2>2. step(Policy, s, e) = IF hits = {} THEN NoState ELSE Chosen(hits)
    BY Zenon DEF step
  <2>3. Monitor!Enabled(Policy, s, e) = hits
    BY <1>1
  <2> HIDE DEF hits, Chosen
  <2> QED
    BY <2>1, <2>2, <2>3
<1>3. \A s : Monitor!accepts(Policy, s) <=> accepts(Policy, s)
  BY DEF Monitor!accepts, accepts
<1>4. \A e, m : Monitor!effect_in_envelope(e, m) <=> effect_in_envelope(e, m)
  BY DEF Monitor!effect_in_envelope, effect_in_envelope,
         Monitor!AnyTarget, AnyTarget, Monitor!leq, leq
<1> QED
  BY <1>2, <1>3, <1>4

\* No token names a link longer than the log: a link that does not exist yet.
LinksExist == \A t \in issued : Len(t.prev_chain) <= Len(receipts)

\* A link is as long as the log it was the head of.
LEMMA HeadLen ==
    ASSUME TypeOK, AuditCommitsToHistory
    PROVE  Len(head(receipts)) = Len(receipts)
<1>1. CASE receipts = <<>>
  BY <1>1, EmptySeq DEF head, GENESIS
<1>2. CASE receipts # <<>>
  <2>1. Len(receipts) \in DOMAIN receipts
    BY <1>2, EmptySeq, LenProperties DEF TypeOK
  <2> QED
    BY <1>2, <2>1 DEF head, AuditCommitsToHistory
<1> QED
  BY <1>1, <1>2

\* LinksExist is an invariant: a token is issued for the head.
THEOREM LinksInvariant == Spec => []LinksExist
<1>1. Init => LinksExist
  BY DEF Init, LinksExist
<1>2. TypeOK /\ AuditCommitsToHistory /\ LinksExist /\ [Next]_vars => LinksExist'
  <2> SUFFICES ASSUME TypeOK, AuditCommitsToHistory, LinksExist, [Next]_vars
               PROVE  LinksExist'
    OBVIOUS
  <2>1. Len(receipts) \in Nat
    BY LenProperties DEF TypeOK
  <2>2. ASSUME NEW m \in Manifests, issue_token(m) PROVE LinksExist'
    <3>1. PICK t \in TokenType :
             /\ t = sign_token(m, head(receipts), SignKey,
                               Cardinality(issued) + 1, now)
             /\ issued' = issued \cup {t}
      BY <2>2, IssuedType
    <3>2. Len(t.prev_chain) = Len(receipts)
      BY <3>1, HeadLen DEF sign_token
    <3>3. receipts' = receipts
      BY <2>2 DEF issue_token
    <3> QED
      BY <2>1, <3>1, <3>2, <3>3 DEF LinksExist
  <2>3. ASSUME NEW m \in Manifests, NEW e \in Effects, NEW tok \in Tokens,
               submit(m, e, tok)
        PROVE  LinksExist'
    <3>1. PICK eff \in ReceiptEffect, decision \in Decision,
               note \in Reason \cup {NoNote}, ts \in Nat, stamp \in Nat, g \in Tokens :
               Records(m, e, tok, eff, decision, note, ts, stamp, g)
      BY <2>3, SubmitShape
    <3>2. GrowsBy(Len(receipts), Written(m, eff, decision, note, ts, stamp), ts)
      BY <3>1, AppendedReceipt DEF Records
    <3>3. Len(receipts') = Len(receipts) + 1 /\ issued' = issued
      BY <3>1, <3>2 DEF GrowsBy, Records
    <3>4. \A t \in issued : Len(t.prev_chain) \in Nat
      BY LenProperties DEF TypeOK, TokenType, Chain
    <3> QED
      BY <2>1, <3>3, <3>4 DEF LinksExist
  <2>4. CASE UNCHANGED <<receipts, issued>>
    BY <2>4 DEF LinksExist
  <2> QED
    BY <2>2, <2>3, <2>4 DEF Next, vars, Tick, reset_session
<1> QED
  BY <1>1, <1>2, TypeCorrect, HistoryCommitted, PTL DEF Spec

\* The invariants a step of the refinement is taken under.
RefinementInv ==
    TypeOK /\ AuditCommitsToHistory /\ AuthorityInv /\ LinksExist

\* Any submit voids every grant: no issued token names the new head.
LEMMA SubmitVoidsGrants ==
    ASSUME RefinementInv, NEW m \in Manifests, NEW e \in Effects,
           NEW tok \in Tokens, submit(m, e, tok)
    PROVE  LiveNonces' = {}
<1>1. PICK eff \in ReceiptEffect, decision \in Decision,
           note \in Reason \cup {NoNote}, ts \in Nat, stamp \in Nat, g \in Tokens :
           Records(m, e, tok, eff, decision, note, ts, stamp, g)
  BY SubmitShape DEF RefinementInv
<1>2. GrowsBy(Len(receipts), Written(m, eff, decision, note, ts, stamp), ts)
  BY <1>1, AppendedReceipt DEF Records, RefinementInv
<1>3. issued' = issued
  BY <1>1 DEF Records
<1>4. Len(receipts) \in Nat
  BY <1>2 DEF GrowsBy
<1>5. Len(head(receipts')) = Len(receipts) + 1
  <2>1. /\ Len(receipts') = Len(receipts) + 1
        /\ receipts'[Len(receipts) + 1] = Written(m, eff, decision, note, ts, stamp)
        /\ Len(Written(m, eff, decision, note, ts, stamp).chain) = Len(receipts) + 1
    BY <1>2 DEF GrowsBy
  <2>2. receipts' # <<>>
    BY <1>4, <2>1, EmptySeq
  <2> QED
    BY <2>1, <2>2 DEF head
<1>6. \A t \in issued : Len(t.prev_chain) <= Len(receipts) /\ Len(t.prev_chain) \in Nat
  BY LenProperties DEF RefinementInv, LinksExist, TypeOK, TokenType, Chain
<1>7. \A t \in issued' : t.prev_chain # head(receipts')
  BY <1>3, <1>4, <1>5, <1>6
<1> QED
  BY <1>7 DEF LiveNonces

\* What a submit answers, as the monitor writes it down.
AnswerFor(m, eff, decision, g) ==
    IF decision = "ADMIT"
    THEN [admitted |-> TRUE, manifest |-> m, effect |-> eff,
          grant |-> IF EnableCapability THEN g.nonce ELSE 0]
    ELSE [admitted |-> FALSE]

\* A submit appends its answer to the answers given so far.
LEMMA AnswersGrow ==
    ASSUME RefinementInv, NEW m \in Manifests, NEW e \in Effects,
           NEW tok \in Tokens, NEW eff \in ReceiptEffect,
           NEW decision \in Decision, NEW note \in Reason \cup {NoNote},
           NEW ts \in Nat, NEW stamp \in Nat, NEW g \in Tokens,
           Records(m, e, tok, eff, decision, note, ts, stamp, g)
    PROVE  Answers' = Append(Answers, AnswerFor(m, eff, decision, g))
<1>1. PICK n : n = Len(receipts)
  OBVIOUS
<1>2. PICK w : w = Written(m, eff, decision, note, ts, stamp) /\ GrowsBy(n, w, ts)
  BY <1>1, AppendedReceipt DEF Records, RefinementInv
<1>3. /\ n \in Nat /\ DOMAIN receipts = 1 .. n
      /\ DOMAIN receipts' = 1 .. n + 1
      /\ \A i \in 1 .. n : receipts'[i] = receipts[i]
      /\ receipts'[n + 1] = w
  BY <1>2 DEF GrowsBy
<1>4. w.decision = decision /\ w.effect = eff /\ w.manifest_digest = m
  BY <1>2 DEF Written, MakeReceipt, manifest_digest
<1>5. /\ Len(granted) = n
      /\ \A i \in 1 .. n : granted'[i] = granted[i]
      /\ granted'[n + 1] = g
  <2>1. granted' = Append(granted, g) /\ Len(granted) = n
    BY <1>1 DEF Records, RefinementInv, AuthorityInv, LogTimed
  <2> QED
    BY <2>1, <1>3, AppendProperties DEF RefinementInv, TypeOK, Tokens
<1>6. PICK x : x = AnswerFor(m, eff, decision, g)
  OBVIOUS
<1>7. PICK S : S = {DecisionOf(i) : i \in 1 .. n} \cup {x}
  OBVIOUS
<1>8. Answers \in [1 .. n -> S] /\ \A i \in 1 .. n : Answers[i] = DecisionOf(i)
  BY <1>3, <1>7 DEF Answers
<1>9. /\ DOMAIN Answers' = 1 .. n + 1
      /\ \A i \in 1 .. n + 1 : Answers'[i] = DecisionOf(i)'
  BY <1>3 DEF Answers
<1>10. \A i \in 1 .. n : DecisionOf(i)' = DecisionOf(i)
  BY <1>3, <1>5 DEF DecisionOf
<1>11. DecisionOf(n + 1)' = x
  BY <1>3, <1>4, <1>5, <1>6 DEF DecisionOf, AnswerFor
<1>12. Answers' = [i \in 1 .. n + 1 |-> Answers'[i]]
  BY <1>9 DEF Answers
<1>13. Answers' \in Seq(S) /\ Len(Answers') = n + 1
  <2>1. \A i \in 1 .. n + 1 : Answers'[i] \in S
    BY <1>3, <1>7, <1>9, <1>10, <1>11
  <2> QED
    BY <1>3, <1>12, <2>1, LenProperties
<1>14. Answers \in Seq(S) /\ Len(Answers) = n
  BY <1>3, <1>8, LenProperties
<1>15. \A i \in 1 .. n + 1 : Answers'[i] = Append(Answers, x)[i]
  <2> TAKE i \in 1 .. n + 1
  <2>1. CASE i = n + 1
    BY <2>1, <1>7, <1>9, <1>11, <1>14, AppendProperties
  <2>2. CASE i # n + 1
    <3>1. i \in 1 .. n
      BY <2>2, <1>3
    <3> QED
      BY <3>1, <1>7, <1>8, <1>9, <1>10, <1>14, AppendProperties
  <2> QED
    BY <2>1, <2>2
<1>16. Append(Answers, x) \in Seq(S) /\ Len(Append(Answers, x)) = n + 1
  BY <1>7, <1>14, AppendProperties
<1> QED
  BY <1>6, <1>13, <1>15, <1>16, SeqEqual

\* An admission is an admission of the monitor, against the grant that the
\* token stands for.
LEMMA AdmitIsMonitored ==
    ASSUME RefinementInv, NEW m \in Manifests, NEW e \in Effects,
           NEW tok \in Tokens, Admit(m, e, tok)
    PROVE  \E g \in 0 .. Cardinality(issued) : Monitor!AdmitRequest(m, e, g)
<1>1. PICK g : g = IF EnableCapability THEN tok.nonce ELSE 0
  OBVIOUS
<1>2. submit(m, e, tok)
  BY DEF submit
<1>3. PICK eff \in ReceiptEffect, decision \in Decision,
           note \in Reason \cup {NoNote}, ts \in Nat, stamp \in Nat, gr \in Tokens :
           Records(m, e, tok, eff, decision, note, ts, stamp, gr)
  BY <1>2, SubmitShape DEF RefinementInv
<1>4. decision = "ADMIT"
  <2>1. receipts'[Len(receipts) + 1].decision = "ADMIT"
    BY AdmitDecision DEF RefinementInv
  <2>2. GrowsBy(Len(receipts), Written(m, eff, decision, note, ts, stamp), ts)
    BY <1>3, AppendedReceipt DEF Records, RefinementInv
  <2> QED
    BY <2>1, <2>2 DEF GrowsBy, Written, MakeReceipt
<1>5. eff = e /\ gr = tok /\ issued' = issued
  BY <1>3, <1>4 DEF Records
<1>6. Answers' = Append(Answers, Monitor!Admitted(m, e, g))
  BY <1>1, <1>3, <1>4, <1>5, AnswersGrow DEF AnswerFor, Monitor!Admitted
<1>7. EnableCapability => g \in LiveNonces /\ g \in 1 .. Cardinality(issued)
  <2> SUFFICES ASSUME EnableCapability
               PROVE  g \in LiveNonces /\ g \in 1 .. Cardinality(issued)
    OBVIOUS
  <2>1. tok \in issued /\ tok.prev_chain = head(receipts) /\ now <= tok.expiry
    BY AdmitToken DEF RefinementInv
  <2> QED
    BY <1>1, <2>1 DEF LiveNonces, RefinementInv, AuthorityInv, TokenTable
<1>8. g \in 0 .. Cardinality(issued)
  <2>1. Cardinality(issued) \in Nat
    BY FS_CardinalityType DEF RefinementInv, TypeOK
  <2> QED
    BY <1>1, <1>7, <2>1
<1>9. LiveNonces' = {}
  BY <1>2, SubmitVoidsGrants
<1>10. /\ EnableEnvelope => Monitor!effect_in_envelope(e, m)
       /\ EnableAutomaton => Monitor!accepts(Policy, Monitor!step(Policy, state, e))
       /\ e.kind = "Decl" => e.primitive \in Registered
       /\ state' = IF EnableAutomaton THEN Monitor!step(Policy, state, e) ELSE state
  BY MonitorOperators
  DEF Admit, InEnvelope, Permitted, Successor, StateAfterPolicy, DeclRouted
<1>11. Monitor!AdmitRequest(m, e, g)
  BY <1>5, <1>6, <1>7, <1>9, <1>10 DEF Monitor!AdmitRequest
<1> QED
  BY <1>8, <1>11

\* A refusal is a refusal of the monitor.
LEMMA RefusalIsMonitored ==
    ASSUME RefinementInv, RefusedDeclLoops, NEW m \in Manifests,
           NEW e \in Effects, NEW tok \in Tokens, submit(m, e, tok),
           ~Admit(m, e, tok)
    PROVE  Monitor!Refuse
<1>1. PICK eff \in ReceiptEffect, decision \in Decision,
           note \in Reason \cup {NoNote}, ts \in Nat, stamp \in Nat, g \in Tokens :
           Records(m, e, tok, eff, decision, note, ts, stamp, g)
  BY SubmitShape DEF RefinementInv
<1>2. decision # "ADMIT" /\ issued' = issued
  BY <1>1 DEF Records
<1>3. Answers' = Append(Answers, Monitor!Refused)
  BY <1>1, <1>2, AnswersGrow DEF AnswerFor, Monitor!Refused
<1>4. state' = state
  BY RefusalKeepsState DEF RefinementInv
<1>5. LiveNonces' = {}
  BY SubmitVoidsGrants
<1> QED
  BY <1>2, <1>3, <1>4, <1>5 DEF Monitor!Refuse

\* The broker implements the reference monitor, under every policy whose
\* unregistered declassifications are loops (the condition DeclPhase breaks).
THEOREM Refinement == RefusedDeclLoops => (Spec => ImplementsMonitor)
<1> SUFFICES ASSUME RefusedDeclLoops PROVE Spec => ImplementsMonitor
  OBVIOUS
<1>1. Init => Monitor!MonitorInit
  <2> SUFFICES ASSUME Init PROVE Monitor!MonitorInit
    OBVIOUS
  <2>1. Answers = <<>>
    BY EmptySeq DEF Init, Answers
  <2>2. Cardinality(issued) = 0 /\ LiveNonces = {}
    BY FS_EmptySet DEF Init, LiveNonces
  <2> QED
    BY <2>1, <2>2 DEF Init, Monitor!MonitorInit
<1>2. RefinementInv /\ [Next]_vars => [Monitor!MonitorNext]_Monitor!monitorVars
  <2> SUFFICES ASSUME RefinementInv, [Next]_vars
               PROVE  [Monitor!MonitorNext]_Monitor!monitorVars
    OBVIOUS
  <2>1. CASE Tick
    <3>1. /\ now' = now + 1 /\ now \in Nat /\ issued' = issued
          /\ receipts' = receipts /\ granted' = granted /\ state' = state
      BY <2>1 DEF Tick, RefinementInv, TypeOK
    <3>2. \A t \in issued : t.expiry \in Nat
      BY DEF RefinementInv, TypeOK, TokenType
    <3>3. LiveNonces' \subseteq LiveNonces
      BY <3>1, <3>2 DEF LiveNonces
    <3>4. Answers' = Answers
      BY <3>1 DEF Answers, DecisionOf
    <3> QED
      BY <3>1, <3>3, <3>4 DEF Monitor!Lapse, Monitor!MonitorNext
  <2>2. ASSUME NEW m \in Manifests, issue_token(m) PROVE Monitor!Grant
    <3>1. PICK t \in TokenType :
             /\ t = sign_token(m, head(receipts), SignKey,
                               Cardinality(issued) + 1, now)
             /\ issued' = issued \cup {t}
      BY <2>2, IssuedType DEF RefinementInv
    <3>2. /\ receipts' = receipts /\ granted' = granted
          /\ state' = state /\ now' = now
      BY <2>2 DEF issue_token
    <3>3. /\ t.nonce = Cardinality(issued) + 1 /\ t.prev_chain = head(receipts)
          /\ t.expiry = now + TTL
      BY <3>1 DEF sign_token
    <3>4. Cardinality(issued) \in Nat /\ now \in Nat /\ TTL \in Nat
      BY FS_CardinalityType, BrokerAssumption DEF RefinementInv, TypeOK
    <3>5. t \notin issued
      BY <3>3, <3>4 DEF RefinementInv, AuthorityInv, TokenTable
    <3>6. Cardinality(issued') = Cardinality(issued) + 1
      BY <3>1, <3>5, FS_AddElement DEF RefinementInv, TypeOK
    <3>7. LiveNonces' = LiveNonces \cup {Cardinality(issued')}
      BY <3>1, <3>2, <3>3, <3>4, <3>6 DEF LiveNonces
    <3>8. Answers' = Answers
      BY <3>2 DEF Answers, DecisionOf
    <3> QED
      BY <3>2, <3>6, <3>7, <3>8 DEF Monitor!Grant
  <2>3. ASSUME NEW m \in Manifests, NEW e \in Effects, NEW tok \in Tokens,
               submit(m, e, tok)
        PROVE  Monitor!MonitorNext
    <3>1. CASE Admit(m, e, tok)
      BY <3>1, AdmitIsMonitored DEF Monitor!MonitorNext
    <3>2. CASE ~Admit(m, e, tok)
      BY <2>3, <3>2, RefusalIsMonitored DEF Monitor!MonitorNext
    <3> QED
      BY <3>1, <3>2
  <2>4. CASE reset_session
    <3>1. Answers' = Answers /\ LiveNonces' = LiveNonces
      BY <2>4 DEF reset_session, Answers, DecisionOf, LiveNonces
    <3> QED
      BY <2>4, <3>1
      DEF reset_session, Monitor!NewSession, Monitor!MonitorNext
  <2>5. CASE UNCHANGED vars
    <3>1. Answers' = Answers /\ LiveNonces' = LiveNonces
      BY <2>5 DEF vars, Answers, DecisionOf, LiveNonces
    <3> QED
      BY <2>5, <3>1 DEF vars, Monitor!monitorVars
  <2> QED
    BY <2>1, <2>2, <2>3, <2>4, <2>5 DEF Next, Monitor!MonitorNext
<1> QED
  BY <1>1, <1>2, TypeCorrect, AuthorityInvariant, LinksInvariant, PTL
  DEF Spec, ImplementsMonitor, Monitor!MonitorSpec, RefinementInv
=============================================================================
