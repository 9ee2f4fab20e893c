------------------------------ MODULE CVMProofs ------------------------------
(***************************************************************************)
(* Theorems about CVM, for any number of threads, any cells, sessions of   *)
(* any length, and every setting of the knobs that CvmAssumption and       *)
(* BrokerAssumption allow.  The last ones are of a CVM that one thread     *)
(* uses at a time.                                                         *)
(***************************************************************************)
EXTENDS CVM, BrokerProofs

-----------------------------------------------------------------------------
(* The inductive invariant *)

Stage == {"idle", "verify", "store", "file", "start", "exec", "submit", "judge", "raise"}

LocalsType ==
    [at : Stage, cell : Cells \cup {NoCell}, id : Nat, hwm : Label,
     manifest : Manifests \cup {Rejected}, baseline : Nat,
     next : Nat \ {0}, token : TokenType \cup {NoToken}, joined : Label]

ResultType  == [by : Nat, outcome : Outcome, since : Nat]
ServiceType == [by : Nat, call : CallType]

\* What the verifier can have said of a cell with the IR of c.
VerdictsFor(c) ==
    {d.verdict[lb] : d \in {e \in Cells : e.ir = c.ir}, lb \in Label} \ {Rejected}

Typed ==
    /\ TypeOK
    /\ hwm \in Label
    /\ run \in [Worker -> LocalsType]
    /\ owner \in Seq(Nat) /\ Len(owner) = Len(receipts)
    /\ results \in Seq(ResultType)
    /\ performed \in Seq(ServiceType)

\* A cached manifest is a verdict on every cell that can find it.
CachesHoldVerdicts ==
    /\ \A s \in DOMAIN sourceCache : sourceCache[s] \in Manifests
    /\ \A c \in Cells :
          /\ c.ir \in DOMAIN manifestCache => manifestCache[c.ir] \in VerdictsFor(c)
          /\ c.source \in DOMAIN sourceCache => sourceCache[c.source] \in VerdictsFor(c)

\* How many submissions there were.
Submitted == Len(results) + Cardinality(Running)

\* Submissions are told apart by their ids, and a result is the end of one.
Ids ==
    /\ IsFiniteSet(Running) /\ Submitted <= MaxCells
    /\ \A w \in Running : run[w].id \in 1 .. Submitted
    /\ \A v, w \in Running : run[v].id = run[w].id => v = w
    /\ \A k \in DOMAIN results :
          /\ results[k].by \in 1 .. Submitted
          /\ \A w \in Running : results[k].by # run[w].id
    /\ \A i \in DOMAIN owner : owner[i] \in 1 .. Submitted

Owned(n) == {i \in DOMAIN owner : owner[i] = n}

AllDeclared(c) == \A k \in DOMAIN c.calls : c.calls[k].site # 0

\* The locals r of a running submission: what it has been given so far, and
\* what its receipts are like.
Frame(r) ==
    /\ r.cell \in Cells
    /\ r.token \in issued \cup {NoToken}
    /\ r.at # "verify" => /\ r.manifest \in Manifests
                          /\ UsesVerifier => r.manifest \in VerdictsFor(r.cell)
    /\ r.at \in {"store", "file"} => UsesVerifier
    /\ r.at = "submit" => /\ r.next \in DOMAIN r.cell.calls
                          /\ r.cell.calls[r.next].primitive \in ProxyPrimitive
    /\ r.at \in {"verify", "store", "file", "start"} => Owned(r.id) = {}
    /\ r.at \in {"exec", "submit", "judge"} => /\ r.baseline <= Len(receipts)
                                                /\ \A i \in Owned(r.id) : i > r.baseline
    /\ r.at = "raise" => \A i \in Owned(r.id) : receipts[i].decision # "DENY"
    /\ UsesVerifier /\ AllDeclared(r.cell) =>
          \A i \in Owned(r.id) : receipts[i].note # "envelope_violation"

Frames == \A w \in Running : Frame(run[w])

CvmInv ==
    /\ Typed /\ CachesHoldVerdicts /\ Ids /\ Frames
    /\ EffectsAreAdmitted /\ AcceptedIsClean

-----------------------------------------------------------------------------
(* Of the assumptions *)

\* A rejection is not a manifest (verify returns None for it).
LEMMA RejectedIsNone == Rejected \notin Manifests
<1>1. ASSUME Rejected \in ManifestType PROVE FALSE
  <2>1. "label_ceiling" \in DOMAIN Rejected
    BY <1>1 DEF ManifestType
  <2> QED
    BY <2>1 DEF Rejected
<1> QED
  BY <1>1, BrokerAssumption

\* A verdict on a cell that is not a rejection is a manifest for it.
LEMMA VerdictIsManifest ==
    ASSUME NEW c \in Cells
    PROVE  /\ VerdictsFor(c) \subseteq Manifests
           /\ \A lb \in Label : c.verdict[lb] # Rejected => c.verdict[lb] \in VerdictsFor(c)
BY CvmAssumption DEF VerdictsFor

\* A non-empty set of indices has a greatest element.
LEMMA GreatestIndex ==
    ASSUME NEW n \in Nat, NEW S \in SUBSET (1 .. n), S # {}
    PROVE  \E i \in S : \A j \in S : i >= j
<1> DEFINE T == {k \in Nat : n - k \in S}
<1>1. T # {}
  <2>1. PICK i \in S : TRUE
    OBVIOUS
  <2>2. n - i \in Nat /\ n - (n - i) = i
    BY <2>1
  <2> QED
    BY <2>1, <2>2
<1>2. PICK k \in T : \A l \in T : k <= l
  BY <1>1, LeastNat
<1>3. \A j \in S : n - j \in T
  <2> TAKE j \in S
  <2>1. n - j \in Nat /\ n - (n - j) = j
    OBVIOUS
  <2> QED
    BY <2>1
<1>4. n - k \in S /\ \A j \in S : n - k >= j
  <2>1. \A j \in S : k <= n - j
    BY <1>2, <1>3
  <2> QED
    BY <1>2, <2>1
<1> QED
  BY <1>4

\* The declarations of a primitive on a target.
SitesOn(m, prim, target, kind) ==
    {i \in DOMAIN m.effects : /\ m.effects[i].primitive = prim
                              /\ m.effects[i].kind = kind
                              /\ m.effects[i].target = target}

\* The label a worker looks up is one of the declarations it searches, if there
\* are any, and low if there are none (worker.py:90-101).
LEMMA LookupFinds ==
    ASSUME NEW m \in ManifestType, NEW prim, NEW target, NEW kind
    PROVE  /\ lookup_label(m, prim, target, kind) \in Label
           /\ SitesOn(m, prim, target, kind) \cup SitesOn(m, prim, AnyTarget, kind) # {} =>
                 \E i \in SitesOn(m, prim, target, kind) \cup SitesOn(m, prim, AnyTarget, kind) :
                    m.effects[i].label = lookup_label(m, prim, target, kind)
<1> DEFINE here == SitesOn(m, prim, target, kind)
           any  == SitesOn(m, prim, AnyTarget, kind)
           n == Len(m.effects)
<1>1. m.effects \in Seq(Effect) /\ n \in Nat /\ DOMAIN m.effects = 1 .. n
  BY DEF ManifestType
<1>2. \A i \in 1 .. n : m.effects[i].label \in Label
  <2>1. \A i \in 1 .. n : m.effects[i] \in Effect
    BY <1>1, ElementOfSeq
  <2> QED
    BY <2>1 DEF Effect
<1>3. here \in SUBSET (1 .. n) /\ any \in SUBSET (1 .. n)
  BY <1>1 DEF SitesOn
<1>4. lookup_label(m, prim, target, kind) =
          CASE here # {} ->
                 m.effects[CHOOSE i \in here : \A j \in here : i <= j].label
            [] here = {} /\ any # {} ->
                 m.effects[CHOOSE i \in any : \A j \in any : i >= j].label
            [] OTHER -> BOTTOM
  BY DEF lookup_label, SitesOn
<1> HIDE DEF here, any, n
<1>5. CASE here # {}
  <2>1. \E i \in here : \A j \in here : i <= j
    BY <1>3, <1>5, LeastNat
  <2>2. PICK i \in here : lookup_label(m, prim, target, kind) = m.effects[i].label
    BY <1>4, <1>5, <2>1
  <2> QED
    BY <1>2, <1>3, <2>2 DEF here, any
<1>6. CASE here = {} /\ any # {}
  <2>1. \E i \in any : \A j \in any : i >= j
    BY <1>1, <1>3, <1>6, GreatestIndex
  <2>2. PICK i \in any : lookup_label(m, prim, target, kind) = m.effects[i].label
    BY <1>4, <1>6, <2>1
  <2> QED
    BY <1>2, <1>3, <2>2 DEF here, any
<1>7. CASE here = {} /\ any = {}
  <2>1. lookup_label(m, prim, target, kind) = BOTTOM
    BY <1>4, <1>7
  <2> QED
    BY <1>7, <2>1 DEF here, any, Label
<1> QED
  BY <1>5, <1>6, <1>7

\* A thread that is about to make the call at r.next.
Calls(w) ==
    /\ run[w].cell \in Cells
    /\ run[w].next \in DOMAIN run[w].cell.calls
    /\ run[w].manifest \in Manifests

\* What the worker submits for a call is an effect (worker.py _submit).
LEMMA EffectTyped ==
    ASSUME NEW w \in Worker, Calls(w)
    PROVE  /\ NextCall(w) \in CallType
           /\ EffectOf(w) \in Effects
           /\ EffectOf(w).kind = NextCall(w).kind
           /\ EffectOf(w).primitive = NextCall(w).primitive
           /\ EffectOf(w).target = NextCall(w).target
<1> DEFINE call == NextCall(w)
           m == run[w].manifest
           lb == EffectOf(w).label
<1>1. m \in ManifestType
  BY BrokerAssumption DEF Calls
<1>2. /\ EffectOf(w) = [kind |-> call.kind, primitive |-> call.primitive,
                        target |-> call.target, label |-> lb]
      /\ lb \in Label
  BY <1>1, LookupFinds DEF EffectOf, Label
<1>3. call \in CallType
  BY CvmAssumption DEF NextCall, Calls
<1>4. [kind |-> call.kind, primitive |-> call.primitive,
       target |-> call.target, label |-> lb] \in Effects
  BY <1>2, CvmAssumption DEF NextCall, Calls
<1> QED
  BY <1>2, <1>3, <1>4

\* A declared call never leaves the envelope: the label that is looked up is
\* one the envelope check accepts (worker.py:90-101, broker.py:163-170).
LEMMA DeclaredCallIsInside ==
    ASSUME NEW w \in Worker, Calls(w), run[w].manifest \in VerdictsFor(run[w].cell),
           NextCall(w).site # 0
    PROVE  InEnvelope(run[w].manifest, EffectOf(w))
<1> DEFINE call == NextCall(w)
           m == run[w].manifest
           e == EffectOf(w)
<1>1. m \in ManifestType /\ DOMAIN m.effects \subseteq Nat
      /\ \A i \in DOMAIN m.effects : m.effects[i].label \in Label
  <2>1. m \in ManifestType
    BY BrokerAssumption DEF Calls
  <2>2. m.effects \in Seq(Effect)
    BY <2>1 DEF ManifestType
  <2>3. DOMAIN m.effects = 1 .. Len(m.effects) /\ Len(m.effects) \in Nat
    BY <2>2, LenProperties
  <2>4. \A i \in 1 .. Len(m.effects) : m.effects[i] \in Effect
    BY <2>2, ElementOfSeq
  <2> QED
    BY <2>1, <2>3, <2>4 DEF Effect
<1>2. Declares(m, call)
  <2>1. PICK d \in Cells, lb \in Label :
          d.ir = run[w].cell.ir /\ m = d.verdict[lb] /\ m # Rejected
    BY DEF VerdictsFor
  <2> QED
    BY <2>1, CvmAssumption DEF Calls, NextCall
<1>3. /\ e.kind = call.kind /\ e.primitive = call.primitive /\ e.target = call.target
      /\ e.label = IF call.primitive \in {"http_get", "send_http"}
                   THEN lookup_label(m, call.primitive, call.target, call.kind)
                   ELSE BOTTOM
  BY DEF EffectOf
<1>4. call.site \in SitesOn(m, call.primitive, call.target, call.kind)
                     \cup SitesOn(m, call.primitive, AnyTarget, call.kind)
  BY <1>2 DEF Declares, SitesOn
<1> HIDE DEF e
<1>5. CASE call.primitive \in {"http_get", "send_http"}
  <2>1. PICK i \in SitesOn(m, call.primitive, call.target, call.kind)
                     \cup SitesOn(m, call.primitive, AnyTarget, call.kind) :
          m.effects[i].label = e.label
    BY <1>1, <1>3, <1>4, <1>5, LookupFinds
  <2>2. i \in DOMAIN m.effects /\ leq(e.label, m.effects[i].label)
    BY <1>1, <2>1 DEF SitesOn, leq, Label, BOTTOM, HIGH
  <2> QED
    BY <1>3, <2>1, <2>2 DEF InEnvelope, effect_in_envelope, SitesOn, e
<1>6. CASE call.primitive \notin {"http_get", "send_http"}
  <2>1. call.site \in DOMAIN m.effects /\ leq(e.label, m.effects[call.site].label)
    BY <1>1, <1>3, <1>4, <1>6 DEF SitesOn, leq, Label, BOTTOM, HIGH
  <2> QED
    BY <1>2, <1>3, <2>1 DEF InEnvelope, effect_in_envelope, Declares, e
<1> QED
  BY <1>5, <1>6

-----------------------------------------------------------------------------
(* What a step does to the broker, and to the types *)

\* A worker that is at a call, or has a token for one, knows its manifest.
LEMMA AtItsCall ==
    ASSUME CvmInv, NEW w \in Worker,
           AtCall(w) \/ run[w].at = "submit"
    PROVE  /\ w \in Running /\ Calls(w)
           /\ UsesVerifier => run[w].manifest \in VerdictsFor(run[w].cell)
<1>1. w \in Running
  BY DEF AtCall, Running
<1>2. run[w] \in LocalsType /\ Frame(run[w])
  BY <1>1 DEF CvmInv, Typed, Frames
<1>3. run[w].cell \in Cells /\ run[w].at # "verify"
  BY <1>2 DEF Frame, AtCall
<1>4. run[w].cell.calls \in Seq(CallType)
  BY <1>3, CvmAssumption
<1>5. run[w].next \in DOMAIN run[w].cell.calls
  <2>1. CASE AtCall(w)
    <3>1. run[w].next \in Nat \ {0} /\ run[w].next <= Len(run[w].cell.calls)
      BY <2>1, <1>2 DEF AtCall, LocalsType
    <3> QED
      BY <3>1, <1>4, LenProperties
  <2>2. CASE run[w].at = "submit"
    BY <2>2, <1>2 DEF Frame
  <2> QED
    BY <2>1, <2>2
<1> QED
  BY <1>1, <1>2, <1>3, <1>5 DEF Frame, Calls

\* What a worker submits, a broker can be asked.
LEMMA SubmitIsBrokered ==
    ASSUME CvmInv, NEW w \in Worker, SubmitEffect(w)
    PROVE  /\ w \in Running /\ Calls(w)
           /\ UsesVerifier => run[w].manifest \in VerdictsFor(run[w].cell)
           /\ EffectOf(w) \in Effects /\ run[w].token \in Tokens
           /\ NextCall(w).primitive \in ProxyPrimitive
           /\ submit(run[w].manifest, EffectOf(w), run[w].token)
<1>1. AtCall(w) \/ run[w].at = "submit"
  BY DEF SubmitEffect
<1>2. w \in Running /\ Calls(w)
      /\ (UsesVerifier => run[w].manifest \in VerdictsFor(run[w].cell))
  BY <1>1, AtItsCall
<1>3. Frame(run[w])
  BY <1>2 DEF CvmInv, Frames
<1>4. NextCall(w).primitive \in ProxyPrimitive
  BY <1>3 DEF SubmitEffect, Frame, NextCall
<1>5. run[w].token \in Tokens
  BY <1>3 DEF Frame, Tokens
<1> QED
  BY <1>2, <1>4, <1>5, EffectTyped DEF SubmitEffect

\* Every step of the CVM is a step of its broker, or none.
LEMMA BrokerStep ==
    ASSUME CvmInv, [CvmNext]_cvmVars
    PROVE  [Next]_vars
<1>1. ASSUME NEW w \in Worker, SubmitEffect(w) PROVE Next
  BY <1>1, SubmitIsBrokered DEF Next, Calls
<1>2. ASSUME NEW w \in Worker, GetToken(w) PROVE Next
  <2>1. Calls(w)
    BY <1>2, AtItsCall DEF GetToken
  <2> QED
    BY <1>2, <2>1 DEF GetToken, Calls, Next
<1>3. CASE UNCHANGED brokerVars
  BY <1>3 DEF brokerVars, vars
<1>4. CASE ResetSession
  BY <1>4 DEF ResetSession, Next
<1>5. ASSUME NEW w \in Worker, Step(w) PROVE [Next]_vars
  BY <1>1, <1>2, <1>3, <1>5
  DEF Step, Verify, Store, File, Start, KernelCall, Raise, Return, Judge, RaiseHwm
<1>6. ASSUME NEW w \in Worker, NEW c \in Cells, Submit(w, c) PROVE [Next]_vars
  BY <1>3, <1>6 DEF Submit
<1> QED
  BY <1>3, <1>4, <1>5, <1>6 DEF CvmNext, cvmVars, brokerVars

\* submit writes one receipt: with an admission it is for the effect that was
\* submitted, which is inside the envelope; an effect inside the envelope is
\* not refused for being outside (broker.py submit).
LEMMA OneReceipt ==
    ASSUME TypeOK, NEW m \in Manifests, NEW e \in Effects, NEW tok \in Tokens,
           submit(m, e, tok)
    PROVE  \E r \in ReceiptType :
              /\ receipts' = Append(receipts, r)
              /\ issued' = issued
              /\ r.decision = "ADMIT" => r.effect = e /\ InEnvelope(m, e)
              /\ InEnvelope(m, e) => r.note # "envelope_violation"
<1>1. CASE Admit(m, e, tok)
  <2>1. e \in ReceiptEffect /\ InEnvelope(m, e)
    BY <1>1, AdmitShape DEF Admit
  <2>2. PICK ts \in Nat, stamp \in Nat :
          /\ receipts' = Append(receipts, Written(m, e, "ADMIT", NoNote, ts, stamp))
          /\ issued' = issued
    BY <1>1, AdmitShape
  <2> DEFINE r == Written(m, e, "ADMIT", NoNote, ts, stamp)
  <2>3. r \in ReceiptType
    BY <2>1, WrittenType DEF Decision
  <2>4. r.decision = "ADMIT" /\ r.effect = e /\ r.note = NoNote
    BY DEF Written, MakeReceipt
  <2> QED
    BY <2>1, <2>2, <2>3, <2>4 DEF NoNote
<1>2. ASSUME NEW reason \in Reason, Deny(m, e, reason),
             InEnvelope(m, e) => reason # "envelope_violation"
      PROVE  \E r \in ReceiptType :
                /\ receipts' = Append(receipts, r)
                /\ issued' = issued
                /\ r.decision = "DENY"
                /\ InEnvelope(m, e) => r.note # "envelope_violation"
  <2>1. PICK eff \in ReceiptEffect, ts \in Nat, stamp \in Nat :
          /\ receipts' = Append(receipts, Written(m, eff, "DENY", reason, ts, stamp))
          /\ issued' = issued
    BY <1>2, DenyShape
  <2> DEFINE r == Written(m, eff, "DENY", reason, ts, stamp)
  <2>2. r \in ReceiptType
    BY <2>1, WrittenType DEF Decision
  <2>3. r.decision = "DENY" /\ r.note = reason
    BY DEF Written, MakeReceipt
  <2> QED
    BY <1>2, <2>1, <2>2, <2>3
<1>3. \/ Admit(m, e, tok)
      \/ \E reason \in Reason : /\ Deny(m, e, reason)
                                /\ InEnvelope(m, e) => reason # "envelope_violation"
  BY DEF submit, DenyEnvelope, DenyMissing, DenyInvalid, DenyStale, DenyPolicy,
         DenyUnregistered, Reason
<1> QED
  BY <1>1, <1>2, <1>3

-----------------------------------------------------------------------------
(* Every step keeps the variables typed *)

\* The sequence new is old with x behind it.
GrewBy(old, new, x) ==
    /\ Len(old) \in Nat /\ DOMAIN old = 1 .. Len(old)
    /\ Len(new) = Len(old) + 1 /\ DOMAIN new = 1 .. Len(old) + 1
    /\ \A i \in 1 .. Len(old) : new[i] = old[i]
    /\ new[Len(old) + 1] = x

\* A history that is appended to keeps what it had.
LEMMA AppendGrows ==
    ASSUME NEW S, NEW s \in Seq(S), NEW x \in S
    PROVE  Append(s, x) \in Seq(S) /\ GrewBy(s, Append(s, x), x)
<1>1. /\ Append(s, x) \in Seq(S) /\ Len(Append(s, x)) = Len(s) + 1
      /\ \A i \in 1 .. Len(s) : Append(s, x)[i] = s[i]
      /\ Append(s, x)[Len(s) + 1] = x
  BY AppendProperties
<1>2. /\ Len(s) \in Nat /\ DOMAIN s = 1 .. Len(s)
      /\ DOMAIN Append(s, x) = 1 .. Len(Append(s, x))
  BY <1>1, LenProperties
<1> QED
  BY <1>1, <1>2 DEF GrewBy

\* A submitted call: one receipt r, owned by the submission that w runs, and
\* the call of the service that r allows (worker.py _submit).
Serves(w, r) ==
    /\ GrewBy(receipts, receipts', r)
    /\ GrewBy(owner, owner', run[w].id)
    /\ issued' = issued
    /\ r.decision = "ADMIT" => /\ r.effect = EffectOf(w)
                               /\ InEnvelope(run[w].manifest, EffectOf(w))
    /\ InEnvelope(run[w].manifest, EffectOf(w)) => r.note # "envelope_violation"
    /\ LET effect == [by |-> run[w].id, call |-> NextCall(w)] IN
       IF Reaches(NextCall(w).primitive, r.decision = "ADMIT")
       THEN effect \in ServiceType /\ performed' = Append(performed, effect)
       ELSE performed' = performed

\* A submission writes one receipt, of its own, and calls the service on it
\* (worker.py _submit).
LEMMA SubmitServes ==
    ASSUME CvmInv, NEW w \in Worker, SubmitEffect(w)
    PROVE  /\ \E r \in ReceiptType : Serves(w, r)
           /\ owner' \in Seq(Nat)
<1>1. /\ Calls(w) /\ EffectOf(w) \in Effects
      /\ run[w].manifest \in Manifests /\ run[w].token \in Tokens
      /\ submit(run[w].manifest, EffectOf(w), run[w].token)
  BY SubmitIsBrokered DEF Calls
<1>2. PICK r \in ReceiptType :
          /\ receipts' = Append(receipts, r)
          /\ issued' = issued
          /\ r.decision = "ADMIT" => /\ r.effect = EffectOf(w)
                                     /\ InEnvelope(run[w].manifest, EffectOf(w))
          /\ InEnvelope(run[w].manifest, EffectOf(w)) => r.note # "envelope_violation"
  BY <1>1, OneReceipt DEF CvmInv, Typed
<1>3. GrewBy(receipts, receipts', r)
  BY <1>2, AppendGrows DEF CvmInv, Typed, TypeOK
<1>4. run[w].id \in Nat
  BY DEF CvmInv, Typed, LocalsType
<1>5. GrewBy(owner, owner', run[w].id) /\ owner' \in Seq(Nat)
  BY <1>4, AppendGrows DEF SubmitEffect, CvmInv, Typed
<1>6. receipts'[Len(receipts')] = r
  BY <1>3 DEF GrewBy
<1>7. NextCall(w) \in CallType
  BY <1>1, EffectTyped
<1>8. [by |-> run[w].id, call |-> NextCall(w)] \in ServiceType
  BY <1>4, <1>7 DEF ServiceType
<1>9. performed' = IF Reaches(NextCall(w).primitive, r.decision = "ADMIT")
                   THEN Append(performed, [by |-> run[w].id, call |-> NextCall(w)])
                   ELSE performed
  BY <1>6 DEF SubmitEffect
<1>10. Serves(w, r)
  BY <1>2, <1>3, <1>5, <1>8, <1>9 DEF Serves
<1> QED
  BY <1>5, <1>10

\* What a thread knows of a cell before it runs the verifier is what the
\* verifier says of it (cvm.py:114-122).
LEMMA KnownIsVerdict ==
    ASSUME CvmInv, NEW c \in Cells
    PROVE  /\ KnownManifest(c) \in Manifests \cup {Rejected}
           /\ KnownManifest(c) # Rejected => KnownManifest(c) \in VerdictsFor(c)
<1>1. hwm \in Label
  BY DEF CvmInv, Typed
<1>2. c.verdict[hwm] \in Manifests \cup {Rejected}
  BY <1>1, CvmAssumption
<1> QED
  BY <1>1, <1>2, VerdictIsManifest DEF KnownManifest, CvmInv, CachesHoldVerdicts

\* The locals of a thread that runs no cell are typed (cvm.py submit_cell).
LEMMA IdleTyped == Idle \in LocalsType
BY DEF Idle, LocalsType, Stage, Label

\* An answer adds one typed result, and the thread is idle.
LEMMA AnswerTyped ==
    ASSUME CvmInv, NEW w \in Worker, NEW outcome \in Outcome, Answer(w, outcome)
    PROVE  /\ run' \in [Worker -> LocalsType] /\ results' \in Seq(ResultType)
           /\ LET result == [by |-> run[w].id, outcome |-> outcome, since |-> resetAt] IN
              result \in ResultType /\ GrewBy(results, results', result)
<1>1. run[w].id \in Nat /\ resetAt \in Nat
  BY DEF CvmInv, Typed, LocalsType, TypeOK
<1>2. [by |-> run[w].id, outcome |-> outcome, since |-> resetAt] \in ResultType
  BY <1>1 DEF ResultType
<1>3. run' \in [Worker -> LocalsType]
  BY IdleTyped DEF Answer, CvmInv, Typed
<1> QED
  BY <1>2, <1>3, AppendGrows DEF Answer, CvmInv, Typed

\* Every step keeps the variables typed.
LEMMA TypedStep ==
    ASSUME CvmInv, [CvmNext]_cvmVars
    PROVE  Typed'
<1>1. TypeOK'
  BY BrokerStep, TypeStep DEF CvmInv, Typed
<1>2. Typed
  BY DEF CvmInv
<1> DEFINE Rest == /\ hwm' \in Label
                   /\ run' \in [Worker -> LocalsType]
                   /\ owner' \in Seq(Nat) /\ Len(owner') = Len(receipts')
                   /\ results' \in Seq(ResultType)
                   /\ performed' \in Seq(ServiceType)
<1>3. ASSUME NEW w \in Worker, NEW outcome \in Outcome, Answer(w, outcome),
             hwm' \in Label, UNCHANGED <<receipts, owner, performed>>
      PROVE  Rest
  BY <1>2, <1>3, AnswerTyped DEF Typed
<1>4. ASSUME NEW w \in Worker, NEW r \in LocalsType, Goto(w, r),
             hwm' = hwm, UNCHANGED <<receipts, owner, results>>,
             performed' \in Seq(ServiceType)
      PROVE  Rest
  BY <1>2, <1>4 DEF Typed, Goto
<1>5. ASSUME NEW w \in Worker, NEW c \in Cells, Submit(w, c) PROVE Rest
  <2>1. Submitted + 1 \in Nat
    BY <1>2, FS_CardinalityType, LenProperties DEF CvmInv, Ids, Submitted, Typed
  <2> DEFINE new == [Idle EXCEPT !.at = "verify", !.cell = c, !.hwm = hwm,
                                 !.id = Len(results) + Cardinality(Running) + 1]
  <2>2. new \in LocalsType
    BY <2>1, <1>2, IdleTyped DEF LocalsType, Stage, Submitted, Typed
  <2>3. c.source \in DOMAIN sourceCache =>
          [new EXCEPT !.at = "start", !.manifest = sourceCache[c.source]] \in LocalsType
    BY <2>2 DEF LocalsType, Stage, CvmInv, CachesHoldVerdicts
  <2> HIDE DEF new
  <2>4. \E r \in LocalsType : Goto(w, r)
    BY <1>5, <2>2, <2>3 DEF Submit, new
  <2> QED
    BY <1>2, <1>4, <1>5, <2>4 DEF Submit, brokerVars, Typed
<1>6. ASSUME NEW w \in Worker, Verify(w) PROVE Rest
  <2>1. w \in Running
    BY <1>6 DEF Verify, Running
  <2>2. run[w].cell \in Cells /\ run[w] \in LocalsType
    BY <1>2, <2>1 DEF CvmInv, Frames, Frame, Typed
  <2>3. KnownManifest(run[w].cell) \in Manifests \cup {Rejected}
    BY <2>2, KnownIsVerdict
  <2>4. \A at \in {"store", "file"} :
          [run[w] EXCEPT !.at = at, !.manifest = KnownManifest(run[w].cell)] \in LocalsType
    BY <2>2, <2>3 DEF LocalsType, Stage
  <2>5. [run[w] EXCEPT !.at = "start", !.manifest = PermissiveManifest] \in LocalsType
    BY <2>2, CvmAssumption DEF LocalsType, Stage
  <2>6. hwm' = hwm /\ UNCHANGED <<receipts, owner, performed>>
    BY <1>6 DEF Verify, brokerVars
  <2> QED
    BY <1>2, <1>3, <1>4, <1>6, <2>4, <2>5, <2>6 DEF Verify, Outcome, Typed
<1>7. ASSUME NEW w \in Worker, Store(w) \/ File(w) \/ Start(w) \/ Return(w) PROVE Rest
  <2>1. run[w] \in LocalsType /\ Len(receipts) \in Nat
    BY <1>2, LenProperties DEF Typed, TypeOK
  <2>2. \E r \in LocalsType : Goto(w, r)
    <3>1. /\ [run[w] EXCEPT !.at = "start"] \in LocalsType
          /\ [run[w] EXCEPT !.at = "file"] \in LocalsType
          /\ [run[w] EXCEPT !.at = "exec", !.baseline = Len(receipts)] \in LocalsType
          /\ [run[w] EXCEPT !.at = "judge"] \in LocalsType
      BY <2>1 DEF LocalsType, Stage
    <3> QED
      BY <1>7, <3>1 DEF Store, File, Start, Return
  <2> QED
    BY <1>2, <1>4, <1>7, <2>2 DEF Store, File, Start, Return, brokerVars, Typed
<1>8. ASSUME NEW w \in Worker, GetToken(w) PROVE Rest
  <2>1. run[w] \in LocalsType /\ run[w].manifest \in Manifests
    BY <1>2, <1>8, AtItsCall DEF Typed, GetToken, Calls
  <2>2. FreshToken(run[w].manifest) \in TokenType
    BY <1>2, <1>8, <2>1, IssuedType DEF GetToken, FreshToken, Typed
  <2>3. [run[w] EXCEPT !.at = "submit", !.token = FreshToken(run[w].manifest)]
          \in LocalsType
    BY <2>1, <2>2 DEF LocalsType, Stage
  <2> QED
    BY <1>2, <1>4, <1>8, <2>3 DEF GetToken, issue_token, Typed
<1>9. ASSUME NEW w \in Worker, SubmitEffect(w) PROVE Rest
  <2>1. PICK r \in ReceiptType : Serves(w, r)
    BY <1>9, SubmitServes
  <2>2. owner' \in Seq(Nat) /\ Len(owner') = Len(receipts')
    BY <1>2, <1>9, <2>1, SubmitServes DEF Serves, GrewBy, Typed
  <2>3. performed' \in Seq(ServiceType)
    BY <1>2, <2>1, AppendGrows DEF Serves, Typed
  <2>4. [run[w] EXCEPT !.at = "exec", !.next = @ + 1, !.token = NoToken] \in LocalsType
    <3>1. run[w] \in LocalsType /\ run[w].next + 1 \in Nat \ {0}
      BY <1>2 DEF Typed, LocalsType
    <3> QED
      BY <3>1 DEF LocalsType, Stage
  <2>5. run' \in [Worker -> LocalsType]
    BY <1>2, <1>9, <2>4 DEF SubmitEffect, Goto, Typed
  <2> QED
    BY <1>2, <1>9, <2>2, <2>3, <2>5 DEF SubmitEffect, Typed
<1>10. ASSUME NEW w \in Worker, KernelCall(w) PROVE Rest
  <2>1. UNCHANGED <<receipts, owner>> /\ hwm' = hwm
    BY <1>10 DEF KernelCall, brokerVars
  <2>2. CASE Answer(w, "KERNEL_DENY") /\ UNCHANGED performed
    BY <1>2, <1>3, <2>1, <2>2 DEF Outcome, Typed
  <2>3. CASE /\ performed' = Append(performed, [by |-> run[w].id, call |-> NextCall(w)])
             /\ Goto(w, [run[w] EXCEPT !.at = "exec", !.next = @ + 1])
             /\ UNCHANGED results
    <3>1. run[w] \in LocalsType /\ run[w].id \in Nat /\ run[w].next + 1 \in Nat \ {0}
      BY <1>2 DEF Typed, LocalsType
    <3>2. [run[w] EXCEPT !.at = "exec", !.next = @ + 1] \in LocalsType
      BY <3>1 DEF LocalsType, Stage
    <3>3. NextCall(w) \in CallType
      BY <1>10, AtItsCall, EffectTyped DEF KernelCall
    <3>4. performed' \in Seq(ServiceType)
      BY <1>2, <2>3, <3>1, <3>3, AppendGrows DEF ServiceType, Typed
    <3> QED
      BY <1>4, <2>1, <2>3, <3>2, <3>4
  <2> QED
    BY <1>10, <2>2, <2>3 DEF KernelCall
<1>11. ASSUME NEW w \in Worker, Raise(w) \/ Judge(w) \/ RaiseHwm(w) PROVE Rest
  <2>1. UNCHANGED <<receipts, owner, performed>>
    BY <1>11 DEF Raise, Judge, RaiseHwm, brokerVars
  <2>2. CASE Raise(w)
    BY <1>2, <1>3, <2>1, <2>2 DEF Raise, Outcome, Typed
  <2>3. CASE RaiseHwm(w)
    <3>1. hwm' \in Label
      BY <1>2, <2>3 DEF RaiseHwm, Typed, LocalsType
    <3> QED
      BY <1>3, <2>1, <2>3, <3>1 DEF RaiseHwm, Outcome
  <2>4. CASE Judge(w)
    <3>1. w \in Running
      BY <2>4 DEF Judge, Running
    <3>2. run[w] \in LocalsType /\ run[w].manifest \in ManifestType
      BY <1>2, <2>4, <3>1, BrokerAssumption
      DEF CvmInv, Frames, Frame, Typed, Judge
    <3>3. join(hwm, run[w].manifest.label_ceiling) \in Label
      BY <1>2, <3>2 DEF join, ManifestType, Typed
    <3>4. [run[w] EXCEPT !.at = "raise",
                         !.joined = join(hwm, run[w].manifest.label_ceiling)]
            \in LocalsType
      BY <3>2, <3>3 DEF LocalsType, Stage
    <3> QED
      BY <1>2, <1>3, <1>4, <2>1, <2>4, <3>4 DEF Judge, Outcome, Typed
  <2> QED
    BY <1>11, <2>2, <2>3, <2>4
<1>12. ASSUME ResetSession PROVE Rest
  BY <1>2, <1>12 DEF ResetSession, reset_session, Typed, Label
<1>13. ASSUME UNCHANGED cvmVars PROVE Rest
  BY <1>2, <1>13 DEF cvmVars, brokerVars, Typed
<1>14. Rest
  <2> HIDE DEF Rest
  <2> QED
    BY <1>5, <1>6, <1>7, <1>8, <1>9, <1>10, <1>11, <1>12, <1>13 DEF CvmNext, Step
<1> QED
  BY <1>1, <1>14 DEF Typed

-----------------------------------------------------------------------------
(* Submissions, their ids and their locals *)

\* Nothing of what v holds, and none of its receipts, changes.
LEMMA FrameKept ==
    ASSUME NEW v \in Worker, Frame(run[v]), run'[v] = run[v], issued \subseteq issued',
           run[v].baseline <= Len(receipts) => run[v].baseline <= Len(receipts'),
           Owned(run[v].id)' = Owned(run[v].id),
           \A i \in Owned(run[v].id) : receipts'[i] = receipts[i]
    PROVE  Frame(run[v])'
BY DEF Frame

\* Thread w moves on inside submit_cell, without a receipt.
LocalStep(w) ==
    /\ w \in Running
    /\ run' = [run EXCEPT ![w] = run'[w]]
    /\ run'[w].at # "idle" /\ run'[w].id = run[w].id
    /\ UNCHANGED <<receipts, owner, results>> /\ issued \subseteq issued'

\* Such a step is nothing to the other submissions.
LEMMA LocalKeeps ==
    ASSUME CvmInv, NEW w, LocalStep(w), Frame(run[w])'
    PROVE  Ids' /\ Frames' /\ AcceptedIsClean'
<1>1. w \in Worker /\ run \in [Worker -> LocalsType]
  BY DEF LocalStep, Running, CvmInv, Typed
<1>2. \A v \in Worker : v # w => run'[v] = run[v]
  BY <1>1 DEF LocalStep
<1>3. Running' = Running /\ \A v \in Worker : run'[v].id = run[v].id
  BY <1>1, <1>2 DEF LocalStep, Running
<1>4. Ids'
  <2>1. \A v \in Running : v \in Worker
    BY DEF Running
  <2>2. Submitted' = Submitted /\ results' = results /\ owner' = owner
    BY <1>3 DEF LocalStep, Submitted
  <2> QED
    BY <1>3, <2>1, <2>2 DEF Ids, CvmInv
<1>5. Frames'
  <2> SUFFICES ASSUME NEW v \in Running' PROVE Frame(run[v])'
    BY DEF Frames
  <2>1. CASE v = w
    BY <2>1
  <2>2. CASE v # w
    <3>1. v \in Running /\ v \in Worker /\ Frame(run[v])
      BY <1>3 DEF CvmInv, Frames, Running
    <3>2. run'[v] = run[v]
      BY <1>2, <2>2, <3>1
    <3>3. Owned(run[v].id)' = Owned(run[v].id)
      BY <3>2 DEF Owned, LocalStep
    <3> QED
      BY <3>1, <3>2, <3>3, FrameKept DEF LocalStep
  <2> QED
    BY <2>1, <2>2
<1>6. AcceptedIsClean'
  BY DEF CvmInv, AcceptedIsClean, Finished, Denied, LocalStep
<1> QED
  BY <1>4, <1>5, <1>6

\* Thread w answers, without a receipt.
AnswerStep(w, outcome) ==
    /\ w \in Running /\ Answer(w, outcome)
    /\ UNCHANGED <<receipts, owner>> /\ issued' = issued
    /\ outcome = "OK" => \A i \in Owned(run[w].id) : receipts[i].decision # "DENY"

\* The submission is over: one fewer runs, one more has a result.
LEMMA AnswerKeeps ==
    ASSUME CvmInv, NEW w, NEW outcome \in Outcome, AnswerStep(w, outcome)
    PROVE  Ids' /\ Frames' /\ AcceptedIsClean'
<1>1. w \in Worker /\ run \in [Worker -> LocalsType] /\ w \in Running
  BY DEF AnswerStep, Running, CvmInv, Typed
<1>2. \A v \in Worker : run'[v] = IF v = w THEN Idle ELSE run[v]
  BY <1>1 DEF AnswerStep, Answer
<1>3. Running' = Running \ {w}
  BY <1>1, <1>2 DEF Running, Idle
<1>4. /\ IsFiniteSet(Running') /\ Cardinality(Running) \in Nat
      /\ Cardinality(Running') = Cardinality(Running) - 1
  BY <1>1, <1>3, FS_RemoveElement, FS_CardinalityType DEF CvmInv, Ids
<1> DEFINE result == [by |-> run[w].id, outcome |-> outcome, since |-> resetAt]
<1>5. GrewBy(results, results', result)
  BY <1>1, AnswerTyped DEF AnswerStep
<1>6. /\ DOMAIN results' = 1 .. Len(results) + 1 /\ Len(results) \in Nat
      /\ Len(results') = Len(results) + 1 /\ DOMAIN results = 1 .. Len(results)
      /\ \A k \in DOMAIN results : results'[k] = results[k]
      /\ results'[Len(results) + 1].by = run[w].id
      /\ results'[Len(results) + 1].outcome = outcome
  BY <1>5 DEF GrewBy
<1>7. Submitted' = Submitted
  BY <1>4, <1>6 DEF Submitted
<1>8. \A v \in Running' : v \in Running /\ v \in Worker /\ v # w /\ run'[v] = run[v]
  BY <1>2, <1>3 DEF Running
<1>9. Ids'
  <2>1. \A k \in DOMAIN results' : /\ results'[k].by \in 1 .. Submitted
                                   /\ \A v \in Running' : results'[k].by # run'[v].id
    <3> TAKE k \in DOMAIN results'
    <3>1. CASE k \in DOMAIN results
      BY <3>1, <1>6, <1>8 DEF CvmInv, Ids
    <3>2. CASE k = Len(results) + 1
      BY <3>2, <1>1, <1>6, <1>8 DEF CvmInv, Ids
    <3> QED
      BY <3>1, <3>2, <1>6
  <2>2. /\ \A v \in Running' : run'[v].id \in 1 .. Submitted
        /\ \A u, v \in Running' : run'[u].id = run'[v].id => u = v
    BY <1>8 DEF CvmInv, Ids
  <2>3. \A i \in DOMAIN owner' : owner'[i] \in 1 .. Submitted
    BY DEF AnswerStep, CvmInv, Ids
  <2>4. Submitted <= MaxCells
    BY DEF CvmInv, Ids
  <2> HIDE DEF result
  <2> QED
    BY <1>4, <1>7, <2>1, <2>2, <2>3, <2>4 DEF Ids
<1>10. Frames'
  <2> SUFFICES ASSUME NEW v \in Running' PROVE Frame(run[v])'
    BY DEF Frames
  <2>1. v \in Worker /\ Frame(run[v]) /\ run'[v] = run[v]
    BY <1>8 DEF CvmInv, Frames
  <2>2. Owned(run[v].id)' = Owned(run[v].id)
    BY <2>1 DEF Owned, AnswerStep
  <2> QED
    BY <2>1, <2>2, FrameKept DEF AnswerStep
<1>11. AcceptedIsClean'
  <2> SUFFICES ASSUME NEW n \in 1 .. MaxCells, NEW k \in DOMAIN results',
                      results'[k].by = n, results'[k].outcome = "OK"
               PROVE  \A i \in DOMAIN owner : owner[i] = n => receipts[i].decision # "DENY"
    BY DEF AcceptedIsClean, Finished, Denied, AnswerStep
  <2>1. CASE k \in DOMAIN results
    BY <2>1, <1>6 DEF CvmInv, AcceptedIsClean, Finished, Denied
  <2>2. CASE k = Len(results) + 1
    BY <2>2, <1>6 DEF AnswerStep, Owned
  <2> QED
    BY <2>1, <2>2, <1>6
<1> QED
  BY <1>9, <1>10, <1>11

\* A submission starts with an id of its own, and no receipts.
LEMMA SubmitKeeps ==
    ASSUME CvmInv, NEW w \in Worker, NEW c \in Cells, Submit(w, c)
    PROVE  Ids' /\ Frames' /\ AcceptedIsClean'
<1>1. run \in [Worker -> LocalsType] /\ w \notin Running
  BY DEF Running, CvmInv, Typed, Submit
<1>2. /\ UNCHANGED <<receipts, owner, results>> /\ issued' = issued
      /\ \A v \in Worker : v # w => run'[v] = run[v]
  BY <1>1 DEF Submit, brokerVars, Goto
<1>3. Submitted \in Nat /\ Submitted < MaxCells /\ MaxCells \in Nat
  BY CvmAssumption, FS_CardinalityType, LenProperties
  DEF CvmInv, Ids, Typed, Submitted, Submit
<1>4. /\ run'[w].id = Submitted + 1
      /\ run'[w].cell = c /\ run'[w].token = NoToken
      /\ \/ run'[w].at = "verify"
         \/ /\ run'[w].at = "start" /\ c.source \in DOMAIN sourceCache
            /\ run'[w].manifest = sourceCache[c.source]
  BY <1>1 DEF Submit, Goto, Idle, Submitted
<1>5. /\ Running' = Running \cup {w}
      /\ \A v \in Running : v \in Worker /\ v # w /\ run'[v] = run[v]
  BY <1>1, <1>2, <1>4 DEF Running
<1>6. IsFiniteSet(Running') /\ Submitted' = Submitted + 1
  <2>1. IsFiniteSet(Running') /\ Cardinality(Running') = Cardinality(Running) + 1
    BY <1>1, <1>5, FS_AddElement DEF CvmInv, Ids
  <2>2. Len(results') = Len(results) /\ Len(results) \in Nat /\ Cardinality(Running) \in Nat
    BY <1>2, FS_CardinalityType, LenProperties DEF CvmInv, Ids, Typed
  <2> QED
    BY <2>1, <2>2 DEF Submitted
<1>7. Ids'
  <2>1. \A v \in Running' : run'[v].id \in 1 .. Submitted + 1
    BY <1>3, <1>4, <1>5 DEF CvmInv, Ids
  <2>2. \A v \in Running : run'[v].id # run'[w].id
    BY <1>3, <1>4, <1>5 DEF CvmInv, Ids
  <2>3. \A u, v \in Running' : run'[u].id = run'[v].id => u = v
    BY <1>5, <2>2 DEF CvmInv, Ids
  <2>4. \A k \in DOMAIN results' : /\ results'[k].by \in 1 .. Submitted + 1
                                   /\ \A v \in Running' : results'[k].by # run'[v].id
    BY <1>2, <1>3, <1>4, <1>5 DEF CvmInv, Ids
  <2>5. \A i \in DOMAIN owner' : owner'[i] \in 1 .. Submitted + 1
    BY <1>2, <1>3 DEF CvmInv, Ids
  <2>6. Submitted + 1 <= MaxCells
    BY <1>3
  <2> QED
    BY <1>6, <2>1, <2>3, <2>4, <2>5, <2>6 DEF Ids
<1>8. Frame(run[w])'
  <2>1. Owned(Submitted + 1) = {}
    BY <1>3 DEF Owned, CvmInv, Ids
  <2>2. {i \in DOMAIN owner' : owner'[i] = run'[w].id} = {}
    BY <1>2, <1>4, <2>1 DEF Owned
  <2>3. run'[w].at = "start" => /\ run'[w].manifest \in VerdictsFor(c)
                                /\ run'[w].manifest \in Manifests
    BY <1>4, VerdictIsManifest DEF CvmInv, CachesHoldVerdicts
  <2> QED
    BY <1>4, <2>2, <2>3 DEF Frame, Owned
<1>9. Frames'
  <2> SUFFICES ASSUME NEW v \in Running, Frame(run[v]), run'[v] = run[v]
               PROVE  Frame(run[v])'
    BY <1>5, <1>8 DEF CvmInv, Frames
  <2>1. v \in Worker /\ Owned(run[v].id)' = Owned(run[v].id)
    BY <1>2, <1>5 DEF Owned
  <2> QED
    BY <1>2, <2>1, FrameKept
<1>10. AcceptedIsClean'
  BY <1>2 DEF CvmInv, AcceptedIsClean, Finished, Denied
<1> QED
  BY <1>7, <1>9, <1>10

-----------------------------------------------------------------------------
(* A submitted call *)

\* A set of indices that may have got n + 1 has one more element if it did.
LEMMA OneMore ==
    ASSUME NEW n \in Nat, NEW A \in SUBSET (1 .. n), NEW B \in SUBSET (1 .. n + 1),
           \A i \in 1 .. n : i \in A <=> i \in B
    PROVE  Cardinality(B) = IF n + 1 \in B THEN Cardinality(A) + 1 ELSE Cardinality(A)
<1>1. IsFiniteSet(A)
  <2>1. IsFiniteSet(1 .. n)
    BY FS_Interval
  <2> QED
    BY <2>1, FS_Subset
<1>2. n + 1 \notin A /\ \A i \in B : i \in 1 .. n \/ i = n + 1
  OBVIOUS
<1>3. CASE n + 1 \in B
  <2>1. B = A \cup {n + 1}
    BY <1>2, <1>3
  <2> QED
    BY <1>1, <1>2, <1>3, <2>1, FS_AddElement
<1>4. CASE n + 1 \notin B
  <2>1. B = A
    BY <1>2, <1>4
  <2> QED
    BY <1>4, <2>1
<1> QED
  BY <1>3, <1>4

\* The receipts of the other submissions are not touched, and the new one is
\* of the submission that w runs.
LEMMA ServedReceipts ==
    ASSUME CvmInv, NEW w \in Worker, NEW r \in ReceiptType, Serves(w, r)
    PROVE  LET n == Len(receipts) IN
           /\ n \in Nat /\ Len(owner) = n
           /\ DOMAIN receipts = 1 .. n /\ DOMAIN owner = 1 .. n
           /\ DOMAIN receipts' = 1 .. n + 1 /\ DOMAIN owner' = 1 .. n + 1
           /\ Len(receipts') = n + 1
           /\ \A i \in 1 .. n : receipts'[i] = receipts[i] /\ owner'[i] = owner[i]
           /\ receipts'[n + 1] = r /\ owner'[n + 1] = run[w].id
BY DEF CvmInv, Typed, Serves, GrewBy

\* The call goes to the log and to the service, or to neither.
LEMMA ServedIsAdmitted ==
    ASSUME CvmInv, NEW w \in Worker, SubmitEffect(w)
    PROVE  EffectsAreAdmitted'
<1>1. PICK r \in ReceiptType : Serves(w, r)
  BY SubmitServes
<1>2. /\ EffectOf(w).primitive = NextCall(w).primitive
      /\ EffectOf(w).target = NextCall(w).target
      /\ NextCall(w).primitive \in ProxyPrimitive
  BY SubmitIsBrokered, EffectTyped
<1> DEFINE n == Len(receipts)
           k == Len(performed)
           call == NextCall(w)
<1>3. /\ n \in Nat
      /\ DOMAIN receipts = 1 .. n /\ DOMAIN receipts' = 1 .. n + 1
      /\ \A i \in 1 .. n : receipts'[i] = receipts[i] /\ owner'[i] = owner[i]
      /\ receipts'[n + 1] = r /\ owner'[n + 1] = run[w].id
  BY <1>1, ServedReceipts
<1>4. k \in Nat /\ DOMAIN performed = 1 .. k
  BY LenProperties DEF CvmInv, Typed
<1> SUFFICES ASSUME NEW m \in 1 .. MaxCells, NEW target \in Target,
                    NEW primitive \in {"http_get", "send_http"} \cup
                          (IF EnableKernel THEN SENSITIVE_SYSCALLS ELSE {})
             PROVE  Carried(m, primitive, target)' = AdmittedFor(m, primitive, target)'
  BY DEF EffectsAreAdmitted
<1> DEFINE A == {i \in DOMAIN performed :
                    /\ performed[i].by = m
                    /\ performed[i].call.primitive = primitive
                    /\ performed[i].call.target = target}
           B == {i \in AdmittedAt :
                    /\ owner[i] = m
                    /\ receipts[i].effect.primitive = primitive
                    /\ receipts[i].effect.target = target}
<1>5. Cardinality(A) = Cardinality(B)
  BY DEF CvmInv, EffectsAreAdmitted, Carried, AdmittedFor
<1>6. A \in SUBSET (1 .. k) /\ B \in SUBSET (1 .. n)
  BY <1>3, <1>4 DEF AdmittedAt
<1> DEFINE Hit == /\ r.decision = "ADMIT" /\ run[w].id = m
                  /\ call.primitive = primitive /\ call.target = target
<1>7. /\ B' \in SUBSET (1 .. n + 1)
      /\ \A i \in 1 .. n : i \in B <=> i \in B'
      /\ n + 1 \in B' <=> Hit
  <2>1. n + 1 \in B' <=> Hit
    BY <1>1, <1>2, <1>3 DEF AdmittedAt, Serves
  <2>2. \A i \in 1 .. n : i \in B <=> i \in B'
    BY <1>3 DEF AdmittedAt
  <2>3. B' \in SUBSET (1 .. n + 1)
    BY <1>3 DEF AdmittedAt
  <2> QED
    BY <2>1, <2>2, <2>3
<1>8. /\ A' \in SUBSET (1 .. k + 1)
      /\ \A i \in 1 .. k : i \in A <=> i \in A'
      /\ k + 1 \in A' <=> Hit
  <2> DEFINE effect == [by |-> run[w].id, call |-> call]
  <2>1. CASE Reaches(call.primitive, r.decision = "ADMIT")
    <3>1. effect \in ServiceType /\ performed' = Append(performed, effect)
      BY <1>1, <2>1 DEF Serves
    <3>2. /\ DOMAIN performed' = 1 .. k + 1
          /\ \A i \in 1 .. k : performed'[i] = performed[i]
          /\ performed'[k + 1] = effect
      BY <3>1, AppendGrows DEF CvmInv, Typed, GrewBy
    <3>3. call.primitive = primitive => r.decision = "ADMIT"
      BY <2>1 DEF Reaches, SENSITIVE_SYSCALLS
    <3>4. k + 1 \in A' <=> Hit
      BY <1>4, <3>2, <3>3
    <3>5. \A i \in 1 .. k : i \in A <=> i \in A'
      BY <1>4, <3>2
    <3>6. A' \in SUBSET (1 .. k + 1)
      BY <3>2
    <3> QED
      BY <3>4, <3>5, <3>6
  <2>2. CASE ~Reaches(call.primitive, r.decision = "ADMIT")
    <3>1. performed' = performed /\ ~Hit
      BY <1>1, <2>2 DEF Serves, Reaches
    <3>2. A' = A
      BY <3>1
    <3>3. k + 1 \notin A /\ A \in SUBSET (1 .. k + 1)
      BY <1>4, <1>6
    <3> QED
      BY <3>1, <3>2, <3>3
  <2> QED
    BY <2>1, <2>2
<1>9. Cardinality(A') = Cardinality(B')
  <2> HIDE DEF A, B, Hit, n, k
  <2>1. Cardinality(B') = IF n + 1 \in B' THEN Cardinality(B) + 1 ELSE Cardinality(B)
    BY <1>3, <1>6, <1>7, OneMore
  <2>2. Cardinality(A') = IF k + 1 \in A' THEN Cardinality(A) + 1 ELSE Cardinality(A)
    BY <1>4, <1>6, <1>8, OneMore
  <2> QED
    BY <1>5, <1>7, <1>8, <2>1, <2>2
<1> QED
  BY <1>9 DEF Carried, AdmittedFor

\* The new receipt is one more of this submission; no other one has changed.
LEMMA ServedKeeps ==
    ASSUME CvmInv, NEW w \in Worker, SubmitEffect(w)
    PROVE  Ids' /\ Frames' /\ AcceptedIsClean'
<1>1. PICK r \in ReceiptType : Serves(w, r)
  BY SubmitServes
<1>2. /\ w \in Running /\ Calls(w)
      /\ UsesVerifier => run[w].manifest \in VerdictsFor(run[w].cell)
  BY SubmitIsBrokered
<1> DEFINE n == Len(receipts)
<1>3. /\ n \in Nat /\ DOMAIN receipts = 1 .. n /\ DOMAIN owner = 1 .. n
      /\ DOMAIN receipts' = 1 .. n + 1 /\ DOMAIN owner' = 1 .. n + 1
      /\ Len(receipts') = n + 1
      /\ \A i \in 1 .. n : receipts'[i] = receipts[i] /\ owner'[i] = owner[i]
      /\ receipts'[n + 1] = r /\ owner'[n + 1] = run[w].id
      /\ issued' = issued /\ results' = results
  BY <1>1, ServedReceipts DEF Serves, SubmitEffect
<1>4. /\ run \in [Worker -> LocalsType]
      /\ run' = [run EXCEPT ![w] = [run[w] EXCEPT !.at = "exec", !.next = @ + 1,
                                                  !.token = NoToken]]
  BY DEF SubmitEffect, Goto, CvmInv, Typed
<1>5. /\ Running' = Running
      /\ \A v \in Worker : run'[v].id = run[v].id
      /\ \A v \in Worker : v # w => run'[v] = run[v]
  BY <1>2, <1>4 DEF Running, LocalsType
<1>6. Ids'
  <2>1. Submitted' = Submitted
    BY <1>3, <1>5 DEF Submitted
  <2>2. \A v \in Running : v \in Worker
    BY DEF Running
  <2>3. \A i \in DOMAIN owner' : owner'[i] \in 1 .. Submitted
    <3> TAKE i \in DOMAIN owner'
    <3>1. CASE i \in 1 .. n
      BY <3>1, <1>3 DEF CvmInv, Ids
    <3>2. CASE i = n + 1
      BY <3>2, <1>2, <1>3 DEF CvmInv, Ids
    <3> QED
      BY <3>1, <3>2, <1>3
  <2> QED
    BY <1>3, <1>5, <2>1, <2>2, <2>3 DEF CvmInv, Ids
<1>7. Frame(run[w])'
  <2>1. Frame(run[w]) /\ run[w] \in LocalsType /\ run[w].at \in {"exec", "submit"}
    BY <1>2, <1>4 DEF CvmInv, Frames, SubmitEffect, AtCall
  <2>2. {i \in DOMAIN owner' : owner'[i] = run'[w].id} = Owned(run[w].id) \cup {n + 1}
    BY <1>2, <1>3, <1>5 DEF Owned, Running
  <2>3. /\ run'[w].at = "exec" /\ run'[w].token = NoToken
        /\ run'[w].cell = run[w].cell /\ run'[w].manifest = run[w].manifest
        /\ run'[w].baseline = run[w].baseline
    BY <1>2, <1>4, <2>1 DEF LocalsType
  <2>4. UsesVerifier /\ AllDeclared(run[w].cell) => r.note # "envelope_violation"
    <3>1. AllDeclared(run[w].cell) => NextCall(w).site # 0
      BY <1>2 DEF AllDeclared, NextCall, Calls
    <3> QED
      BY <1>1, <1>2, <3>1, DeclaredCallIsInside DEF Serves
  <2>5. \A i \in Owned(run[w].id) : i \in 1 .. n /\ receipts'[i] = receipts[i]
    BY <1>3 DEF Owned
  <2>6. run[w].baseline <= n /\ run[w].baseline \in Nat
        /\ \A i \in Owned(run[w].id) : i > run[w].baseline
    BY <2>1 DEF Frame, LocalsType
  <2>7. \A i \in Owned(run[w].id) \cup {n + 1} : i > run[w].baseline
    BY <1>3, <2>6
  <2> HIDE DEF n
  <2>8. Owned(run[w].id)' = Owned(run[w].id) \cup {n + 1}
    BY <2>2 DEF Owned
  <2>9. run'[w].baseline <= Len(receipts')
    BY <1>3, <2>3, <2>6 DEF n
  <2> QED
    BY <1>3, <2>1, <2>3, <2>4, <2>5, <2>7, <2>8, <2>9 DEF Frame
<1>8. Frames'
  <2> SUFFICES ASSUME NEW v \in Running, v # w PROVE Frame(run[v])'
    BY <1>5, <1>7 DEF Frames
  <2>1. v \in Worker /\ Frame(run[v]) /\ run'[v] = run[v] /\ run[v].id # run[w].id
    BY <1>2, <1>5 DEF CvmInv, Frames, Running, Ids
  <2>2. Owned(run[v].id)' = Owned(run[v].id)
    BY <1>3, <2>1 DEF Owned
  <2>3. \A i \in Owned(run[v].id) : receipts'[i] = receipts[i]
    BY <1>3 DEF Owned
  <2>4. run[v].baseline <= Len(receipts) => run[v].baseline <= Len(receipts')
    BY <1>3, <1>4, <2>1 DEF LocalsType
  <2> QED
    BY <1>3, <2>1, <2>2, <2>3, <2>4, FrameKept
<1>9. AcceptedIsClean'
  <2> SUFFICES ASSUME NEW m \in 1 .. MaxCells, NEW k \in DOMAIN results,
                      results[k].by = m, results[k].outcome = "OK",
                      NEW i \in 1 .. n + 1, owner'[i] = m
               PROVE  receipts'[i].decision # "DENY"
    BY <1>3 DEF AcceptedIsClean, Finished, Denied
  <2>1. CASE i \in 1 .. n
    BY <2>1, <1>3 DEF CvmInv, AcceptedIsClean, Finished, Denied
  <2>2. CASE i = n + 1
    BY <2>2, <1>2, <1>3 DEF CvmInv, Ids
  <2> QED
    BY <2>1, <2>2, <1>3
<1> QED
  BY <1>6, <1>8, <1>9

-----------------------------------------------------------------------------
(* Every step keeps the invariant *)

\* The caches only ever get verdicts (cvm.py:124-126).
LEMMA CachesStep ==
    ASSUME CvmInv, [CvmNext]_cvmVars
    PROVE  CachesHoldVerdicts'
<1>1. CASE UNCHANGED caches
  BY <1>1 DEF caches, CvmInv, CachesHoldVerdicts
<1>2. ASSUME NEW w \in Worker, Store(w) \/ File(w) PROVE CachesHoldVerdicts'
  <2>1. Frame(run[w]) /\ run[w].at \in {"store", "file"}
    BY <1>2 DEF Store, File, Running, CvmInv, Frames
  <2> DEFINE m == run[w].manifest
             d == run[w].cell
  <2>2. d \in Cells /\ m \in Manifests /\ m \in VerdictsFor(d)
    BY <2>1 DEF Frame
  <2>3. \A c \in Cells : c.ir = d.ir => m \in VerdictsFor(c)
    BY <2>2 DEF VerdictsFor
  <2>4. \A c \in Cells : c.source = d.source => c.ir = d.ir
    BY <2>2, CvmAssumption
  <2>5. /\ sourceCache' = Put(sourceCache, d.source, m) \/ sourceCache' = sourceCache
        /\ manifestCache' = Put(manifestCache, d.ir, m) \/ manifestCache' = manifestCache
    BY <1>2 DEF Store, File
  <2> HIDE DEF m, d
  <2>6. \A s \in DOMAIN sourceCache' : sourceCache'[s] \in Manifests
    BY <2>2, <2>5 DEF Put, CvmInv, CachesHoldVerdicts
  <2>7. \A c \in Cells : c.source \in DOMAIN sourceCache' =>
                            sourceCache'[c.source] \in VerdictsFor(c)
    BY <2>3, <2>4, <2>5 DEF Put, CvmInv, CachesHoldVerdicts
  <2>8. \A c \in Cells : c.ir \in DOMAIN manifestCache' =>
                            manifestCache'[c.ir] \in VerdictsFor(c)
    BY <2>3, <2>5 DEF Put, CvmInv, CachesHoldVerdicts
  <2> QED
    BY <2>6, <2>7, <2>8 DEF CachesHoldVerdicts
<1> QED
  BY <1>1, <1>2
  DEF CvmNext, Step, Submit, Verify, Start, GetToken, SubmitEffect, KernelCall,
      Raise, Return, Judge, RaiseHwm, ResetSession, cvmVars

\* Thread w goes on with its locals, and no receipt is written.
LEMMA GotoIsLocal ==
    ASSUME CvmInv, NEW w \in Worker, w \in Running, NEW r \in LocalsType, Goto(w, r),
           r.at # "idle", r.id = run[w].id,
           UNCHANGED <<receipts, owner, results>>, issued \subseteq issued'
    PROVE  /\ LocalStep(w) /\ run'[w] = r
           /\ Owned(run[w].id)' = Owned(run[w].id)
<1>1. run'[w] = r /\ run' = [run EXCEPT ![w] = run'[w]]
  BY DEF Goto, CvmInv, Typed
<1> QED
  BY <1>1 DEF LocalStep, Owned

\* A step inside submit_cell, short of a call, an answer or a store.
LEMMA MoveKeeps ==
    ASSUME CvmInv, Typed', NEW w \in Worker,
           \/ /\ Verify(w) \/ Judge(w)
              /\ UNCHANGED results
           \/ Store(w) \/ File(w) \/ Start(w) \/ GetToken(w) \/ Return(w)
    PROVE  Ids' /\ Frames' /\ AcceptedIsClean'
<1>1. w \in Running
  BY DEF Verify, Judge, Store, File, Start, GetToken, Return, AtCall, Running
<1>2. /\ run[w] \in LocalsType /\ Frame(run[w]) /\ run \in [Worker -> LocalsType]
      /\ DOMAIN owner = 1 .. Len(receipts) /\ DOMAIN receipts = 1 .. Len(receipts)
      /\ Len(receipts) \in Nat
  BY <1>1, LenProperties DEF CvmInv, Typed, Frames, TypeOK
<1>3. \A r : Goto(w, r) => run'[w] = r /\ r \in LocalsType
  BY <1>2 DEF Goto, Typed
<1>4. ASSUME NEW r \in LocalsType, Goto(w, r),
             r.at # "idle", r.id = run[w].id, r.cell = run[w].cell,
             r.manifest = run[w].manifest, r.token = run[w].token,
             run[w].at # "verify",
             UNCHANGED <<receipts, owner, results>>, issued' = issued,
             r.at = "file" => run[w].at = "store",
             r.at = "start" => run[w].at = "file",
             r.at = "exec" => /\ run[w].at = "start"
                              /\ r.baseline = Len(receipts),
             r.at = "judge" => run[w].at = "exec" /\ r.baseline = run[w].baseline,
             r.at = "raise" => /\ run[w].at = "judge" /\ ~DeniedSince(run[w].baseline),
             r.at \in {"file", "start", "exec", "judge", "raise"}
      PROVE  Ids' /\ Frames' /\ AcceptedIsClean'
  <2>1. LocalStep(w) /\ run'[w] = r /\ Owned(run[w].id)' = Owned(run[w].id)
    BY <1>1, <1>4, GotoIsLocal
  <2>2. r.at = "raise" => \A i \in Owned(run[w].id) : receipts[i].decision # "DENY"
    <3> SUFFICES ASSUME r.at = "raise", NEW i \in Owned(run[w].id)
                 PROVE  receipts[i].decision # "DENY"
      OBVIOUS
    <3>1. run[w].at = "judge" /\ ~DeniedSince(run[w].baseline) /\ run[w].baseline \in Nat
      BY <1>2, <1>4 DEF LocalsType
    <3>2. i \in run[w].baseline + 1 .. Len(receipts)
      BY <1>2, <3>1 DEF Frame, Owned
    <3> QED
      BY <3>1, <3>2 DEF DeniedSince
  <2>3. \A i \in Owned(run[w].id) : receipts'[i] = receipts[i]
    BY <1>4
  <2>4. Frame(run[w])'
    BY <1>2, <1>4, <2>1, <2>2, <2>3 DEF Frame
  <2> QED
    BY <2>1, <2>4, LocalKeeps
<1>5. CASE Verify(w) /\ UNCHANGED results
  <2>1. PICK r \in LocalsType : /\ Goto(w, r)
                                /\ r.at \in {"store", "file", "start"}
                                /\ r.at # "start" => UsesVerifier
                                /\ r.id = run[w].id /\ r.cell = run[w].cell
                                /\ r.token = run[w].token
                                /\ r.manifest \in Manifests
                                /\ UsesVerifier => r.manifest \in VerdictsFor(r.cell)
    <3>1. results' # Append(results, [by |-> run[w].id, outcome |-> "SYNTAX_REJECT",
                                      since |-> resetAt])
          /\ results' # Append(results, [by |-> run[w].id, outcome |-> "VERIFY_REJECT",
                                         since |-> resetAt])
          /\ results' # Append(results, [by |-> run[w].id, outcome |-> "RAISED",
                                         since |-> resetAt])
      <4>1. /\ [by |-> run[w].id, outcome |-> "SYNTAX_REJECT", since |-> resetAt] \in ResultType
            /\ [by |-> run[w].id, outcome |-> "VERIFY_REJECT", since |-> resetAt] \in ResultType
            /\ [by |-> run[w].id, outcome |-> "RAISED", since |-> resetAt] \in ResultType
        BY <1>2 DEF ResultType, Outcome, CvmInv, Typed, TypeOK, LocalsType
      <4> QED
        BY <1>5, <4>1, AppendGrows DEF GrewBy, CvmInv, Typed
    <3>2. run[w].cell \in Cells
      BY <1>2 DEF Frame
    <3> DEFINE m == KnownManifest(run[w].cell)
               known == run[w].cell.ir \in DOMAIN manifestCache
               stored == [run[w] EXCEPT !.at = IF known THEN "file" ELSE "store",
                                        !.manifest = m]
               permissive == [run[w] EXCEPT !.at = "start", !.manifest = PermissiveManifest]
    <3>3. \/ UsesVerifier /\ m # Rejected /\ Goto(w, stored)
          \/ ~UsesVerifier /\ Goto(w, permissive)
      BY <1>5, <3>1 DEF Verify, Answer
    <3>4. m # Rejected => m \in Manifests /\ m \in VerdictsFor(run[w].cell)
      BY <3>2, KnownIsVerdict
    <3>5. /\ stored.at \in {"store", "file"} /\ stored.id = run[w].id /\ stored.cell = run[w].cell
          /\ stored.token = run[w].token /\ stored.manifest = m
          /\ permissive.at = "start" /\ permissive.id = run[w].id
          /\ permissive.cell = run[w].cell /\ permissive.token = run[w].token
          /\ permissive.manifest = PermissiveManifest
      BY <1>2 DEF LocalsType
    <3> HIDE DEF stored, permissive, m
    <3> QED
      BY <1>3, <3>3, <3>4, <3>5, CvmAssumption
  <2>2. UNCHANGED <<receipts, owner, results>> /\ issued' = issued
    BY <1>5 DEF Verify, brokerVars
  <2>3. LocalStep(w) /\ run'[w] = r /\ Owned(run[w].id)' = Owned(run[w].id)
    BY <1>1, <2>1, <2>2, GotoIsLocal
  <2>4. run[w].at = "verify" /\ Owned(run[w].id) = {}
    BY <1>2, <1>5 DEF Verify, Frame
  <2>5. Frame(run[w])'
    BY <1>2, <2>1, <2>2, <2>3, <2>4 DEF Frame
  <2> QED
    BY <2>3, <2>5, LocalKeeps
<1>6. CASE Judge(w) /\ UNCHANGED results
  <2>1. UNCHANGED <<receipts, owner, results>> /\ issued' = issued
    BY <1>6 DEF Judge, brokerVars
  <2>2. ~DeniedSince(run[w].baseline)
    <3>1. [by |-> run[w].id, outcome |-> "BROKER_DENY", since |-> resetAt] \in ResultType
      BY <1>2 DEF ResultType, Outcome, CvmInv, Typed, TypeOK, LocalsType
    <3>2. results' # Append(results, [by |-> run[w].id, outcome |-> "BROKER_DENY",
                                      since |-> resetAt])
      BY <1>6, <3>1, AppendGrows DEF GrewBy, CvmInv, Typed
    <3> QED
      BY <1>6, <3>2 DEF Judge, Answer
  <2> DEFINE r == [run[w] EXCEPT !.at = "raise",
                                 !.joined = join(hwm, run[w].manifest.label_ceiling)]
  <2>3. Goto(w, r) /\ run[w].at = "judge"
    BY <1>6, <2>2 DEF Judge
  <2>4. r.at = "raise" /\ r.id = run[w].id /\ r.cell = run[w].cell
        /\ r.manifest = run[w].manifest /\ r.token = run[w].token
    BY <1>2 DEF LocalsType
  <2> HIDE DEF r
  <2> QED
    BY <1>3, <1>4, <2>1, <2>2, <2>3, <2>4
<1>7. CASE Store(w)
  <2> DEFINE r == [run[w] EXCEPT !.at = "file"]
  <2>1. r.at = "file" /\ r.id = run[w].id /\ r.cell = run[w].cell
        /\ r.manifest = run[w].manifest /\ r.token = run[w].token
    BY <1>2 DEF LocalsType
  <2>2. Goto(w, r) /\ run[w].at = "store"
        /\ UNCHANGED <<receipts, owner, results>> /\ issued' = issued
    BY <1>7 DEF Store, brokerVars
  <2> HIDE DEF r
  <2> QED
    BY <1>3, <1>4, <2>1, <2>2
<1>11. CASE File(w)
  <2> DEFINE r == [run[w] EXCEPT !.at = "start"]
  <2>1. r.at = "start" /\ r.id = run[w].id /\ r.cell = run[w].cell
        /\ r.manifest = run[w].manifest /\ r.token = run[w].token
    BY <1>2 DEF LocalsType
  <2>2. Goto(w, r) /\ run[w].at = "file"
        /\ UNCHANGED <<receipts, owner, results>> /\ issued' = issued
    BY <1>11 DEF File, brokerVars
  <2> HIDE DEF r
  <2> QED
    BY <1>3, <1>4, <2>1, <2>2
<1>8. CASE Start(w)
  <2> DEFINE r == [run[w] EXCEPT !.at = "exec", !.baseline = Len(receipts)]
  <2>1. r.at = "exec" /\ r.id = run[w].id /\ r.cell = run[w].cell
        /\ r.manifest = run[w].manifest /\ r.token = run[w].token
        /\ r.baseline = Len(receipts)
    BY <1>2 DEF LocalsType
  <2>2. Goto(w, r) /\ run[w].at = "start"
        /\ UNCHANGED <<receipts, owner, results>> /\ issued' = issued
    BY <1>8 DEF Start, brokerVars
  <2> HIDE DEF r
  <2> QED
    BY <1>3, <1>4, <2>1, <2>2
<1>9. CASE Return(w)
  <2> DEFINE r == [run[w] EXCEPT !.at = "judge"]
  <2>1. r.at = "judge" /\ r.id = run[w].id /\ r.cell = run[w].cell
        /\ r.manifest = run[w].manifest /\ r.token = run[w].token
        /\ r.baseline = run[w].baseline
    BY <1>2 DEF LocalsType
  <2>2. Goto(w, r) /\ run[w].at = "exec"
        /\ UNCHANGED <<receipts, owner, results>> /\ issued' = issued
    BY <1>9 DEF Return, brokerVars
  <2> HIDE DEF r
  <2> QED
    BY <1>3, <1>4, <2>1, <2>2
<1>10. CASE GetToken(w)
  <2> DEFINE t == FreshToken(run[w].manifest)
             r == [run[w] EXCEPT !.at = "submit", !.token = t]
  <2>1. r.at = "submit" /\ r.id = run[w].id /\ r.cell = run[w].cell
        /\ r.manifest = run[w].manifest /\ r.token = t /\ r.next = run[w].next
    BY <1>2 DEF LocalsType
  <2>2. Goto(w, r) /\ run[w].at = "exec"
        /\ UNCHANGED <<receipts, owner, results>> /\ issued' = issued \cup {t}
    BY <1>10 DEF GetToken, issue_token, AtCall
  <2> HIDE DEF r, t
  <2>3. LocalStep(w) /\ run'[w] = r /\ Owned(run[w].id)' = Owned(run[w].id)
    BY <1>1, <1>3, <2>1, <2>2, GotoIsLocal
  <2>4. run[w].next \in DOMAIN run[w].cell.calls
        /\ run[w].cell.calls[run[w].next].primitive \in ProxyPrimitive
    BY <1>10, AtItsCall DEF GetToken, Calls, NextCall
  <2>5. /\ r.cell \in Cells /\ r.manifest \in Manifests
        /\ UsesVerifier => r.manifest \in VerdictsFor(r.cell)
        /\ run[w].baseline <= Len(receipts)
        /\ \A i \in Owned(run[w].id) : i > run[w].baseline
        /\ UsesVerifier /\ AllDeclared(r.cell) =>
              \A i \in Owned(run[w].id) : receipts'[i].note # "envelope_violation"
    BY <1>2, <2>1, <2>2 DEF Frame
  <2>6. r.baseline = run[w].baseline /\ r.token \in issued' /\ receipts' = receipts
    BY <1>2, <2>1, <2>2 DEF r, LocalsType
  <2>7. Frame(run[w])'
    BY <2>1, <2>3, <2>4, <2>5, <2>6 DEF Frame
  <2> QED
    BY <2>3, <2>7, LocalKeeps
<1> QED
  BY <1>5, <1>6, <1>7, <1>8, <1>9, <1>10, <1>11

\* A masquerading call that escapes is a call of no service that is counted.
LEMMA EscapeKeeps ==
    ASSUME CvmInv, NEW w \in Worker, KernelCall(w), UNCHANGED results
    PROVE  Ids' /\ Frames' /\ AcceptedIsClean' /\ EffectsAreAdmitted'
<1>1. /\ w \in Running /\ Calls(w) /\ NextCall(w) \in CallType
      /\ NextCall(w).primitive \in SENSITIVE_SYSCALLS
  BY AtItsCall, EffectTyped DEF KernelCall
<1>2. /\ run[w] \in LocalsType /\ Frame(run[w]) /\ run \in [Worker -> LocalsType]
      /\ run[w].at = "exec" /\ run[w].id \in Nat
  BY <1>1 DEF CvmInv, Typed, Frames, LocalsType, KernelCall, AtCall
<1> DEFINE r == [run[w] EXCEPT !.at = "exec", !.next = @ + 1]
           effect == [by |-> run[w].id, call |-> NextCall(w)]
<1>3. ~EnableKernel /\ performed' = Append(performed, effect) /\ Goto(w, r)
  <2>1. [by |-> run[w].id, outcome |-> "KERNEL_DENY", since |-> resetAt] \in ResultType
    BY <1>2 DEF ResultType, Outcome, CvmInv, Typed, TypeOK
  <2>2. results' # Append(results, [by |-> run[w].id, outcome |-> "KERNEL_DENY",
                                    since |-> resetAt])
    BY <2>1, AppendGrows DEF GrewBy, CvmInv, Typed
  <2> QED
    BY <2>2 DEF KernelCall, Answer
<1>4. UNCHANGED <<receipts, owner, results>> /\ issued' = issued
  BY DEF KernelCall, brokerVars
<1>5. EffectsAreAdmitted'
  <2>1. effect \in ServiceType
    BY <1>1, <1>2 DEF ServiceType
  <2>2. /\ DOMAIN performed = 1 .. Len(performed) /\ Len(performed) \in Nat
        /\ DOMAIN performed' = 1 .. Len(performed) + 1
        /\ \A i \in 1 .. Len(performed) : performed'[i] = performed[i]
        /\ performed'[Len(performed) + 1].call = NextCall(w)
    BY <1>3, <2>1, AppendGrows DEF GrewBy, CvmInv, Typed
  <2> SUFFICES ASSUME NEW n \in 1 .. MaxCells, NEW target \in Target,
                      NEW primitive \in {"http_get", "send_http"}
               PROVE  Carried(n, primitive, target)' = AdmittedFor(n, primitive, target)'
    BY <1>3 DEF EffectsAreAdmitted
  <2>3. NextCall(w).primitive # primitive
    BY <1>1 DEF SENSITIVE_SYSCALLS
  <2>4. {i \in DOMAIN performed' : /\ performed'[i].by = n
                                   /\ performed'[i].call.primitive = primitive
                                   /\ performed'[i].call.target = target}
          = {i \in DOMAIN performed : /\ performed[i].by = n
                                      /\ performed[i].call.primitive = primitive
                                      /\ performed[i].call.target = target}
    BY <2>2, <2>3
  <2>5. Carried(n, primitive, target)' = Carried(n, primitive, target)
    BY <2>4 DEF Carried
  <2>6. AdmittedFor(n, primitive, target)' = AdmittedFor(n, primitive, target)
    BY <1>4 DEF AdmittedFor, AdmittedAt
  <2> QED
    BY <2>5, <2>6 DEF CvmInv, EffectsAreAdmitted
<1>6. /\ r \in LocalsType /\ r.at = "exec" /\ r.id = run[w].id /\ r.cell = run[w].cell
      /\ r.manifest = run[w].manifest /\ r.token = run[w].token
      /\ r.baseline = run[w].baseline
  <2>1. run[w].next + 1 \in Nat \ {0}
    BY <1>2 DEF LocalsType
  <2> QED
    BY <1>2, <2>1 DEF LocalsType
<1> HIDE DEF r, effect
<1>7. LocalStep(w) /\ run'[w] = r /\ Owned(run[w].id)' = Owned(run[w].id)
  BY <1>1, <1>3, <1>4, <1>6, GotoIsLocal
<1>8. Frame(run[w])'
  BY <1>2, <1>4, <1>6, <1>7 DEF Frame
<1> QED
  BY <1>5, <1>7, <1>8, LocalKeeps

\* Every step of every thread, and a reset, keeps the invariant (cvm.py).
LEMMA InvariantStep ==
    ASSUME CvmInv, [CvmNext]_cvmVars
    PROVE  CvmInv'
<1>1. Typed' /\ CachesHoldVerdicts'
  BY TypedStep, CachesStep
<1> DEFINE Rest == Ids' /\ Frames' /\ AcceptedIsClean' /\ EffectsAreAdmitted'
<1>2. ASSUME UNCHANGED <<receipts, owner, performed>> PROVE EffectsAreAdmitted'
  BY <1>2 DEF CvmInv, EffectsAreAdmitted, Carried, AdmittedFor, AdmittedAt
<1>3. ASSUME NEW w \in Worker, NEW c \in Cells, Submit(w, c) PROVE Rest
  BY <1>2, <1>3, SubmitKeeps DEF Submit, brokerVars
<1>4. ASSUME NEW w \in Worker, NEW outcome \in Outcome, Answer(w, outcome),
             w \in Running, UNCHANGED <<brokerVars, owner, performed>>,
             outcome = "OK" => \A i \in Owned(run[w].id) : receipts[i].decision # "DENY"
      PROVE  Rest
  BY <1>2, <1>4, AnswerKeeps DEF AnswerStep, brokerVars
<1>5. ASSUME NEW w \in Worker, Step(w) PROVE Rest
  <2>1. CASE Store(w) \/ File(w) \/ Start(w) \/ GetToken(w) \/ Return(w)
    BY <1>1, <1>2, <2>1, MoveKeeps DEF Store, File, Start, GetToken, Return, brokerVars, issue_token
  <2>2. CASE SubmitEffect(w)
    BY <2>2, ServedKeeps, ServedIsAdmitted
  <2>3. CASE KernelCall(w)
    <3>1. CASE UNCHANGED results
      BY <2>3, <3>1, EscapeKeeps
    <3>2. CASE Answer(w, "KERNEL_DENY") /\ UNCHANGED performed
      BY <1>4, <2>3, <3>2 DEF KernelCall, AtCall, Running, Outcome
    <3> QED
      BY <2>3, <3>1, <3>2 DEF KernelCall
  <2>4. CASE Raise(w)
    BY <1>4, <2>4 DEF Raise, Running, Outcome
  <2>5. CASE RaiseHwm(w)
    <3>1. w \in Running /\ Frame(run[w]) /\ run[w].at = "raise"
      BY <2>5 DEF RaiseHwm, Running, CvmInv, Frames
    <3> QED
      BY <1>4, <2>5, <3>1 DEF RaiseHwm, Frame, Outcome
  <2>6. CASE Verify(w)
    <3>1. CASE UNCHANGED results
      BY <1>1, <1>2, <2>6, <3>1, MoveKeeps DEF Verify, brokerVars
    <3>2. CASE Answer(w, "SYNTAX_REJECT") \/ Answer(w, "VERIFY_REJECT") \/ Answer(w, "RAISED")
      BY <1>4, <2>6, <3>2 DEF Verify, Running, Outcome
    <3> QED
      BY <2>6, <3>1, <3>2 DEF Verify
  <2>7. CASE Judge(w)
    <3>1. CASE UNCHANGED results
      BY <1>1, <1>2, <2>7, <3>1, MoveKeeps DEF Judge, brokerVars
    <3>2. CASE Answer(w, "BROKER_DENY")
      BY <1>4, <2>7, <3>2 DEF Judge, Running, Outcome
    <3> QED
      BY <2>7, <3>1, <3>2 DEF Judge
  <2> HIDE DEF Rest
  <2>8. Step(w)
    BY <1>5
  <2> QED
    BY <2>1, <2>2, <2>3, <2>4, <2>5, <2>6, <2>7, <2>8 DEF Step
<1>6. ASSUME UNCHANGED <<receipts, owner, results, performed, run, issued>> PROVE Rest
  <2>1. Running' = Running
    BY <1>6 DEF Running
  <2>2. Ids'
    BY <1>6, <2>1 DEF CvmInv, Ids, Submitted
  <2>3. Frames'
    BY <1>6, <2>1 DEF CvmInv, Frames, Frame, Owned
  <2>4. AcceptedIsClean'
    BY <1>6 DEF CvmInv, AcceptedIsClean, Finished, Denied
  <2> QED
    BY <1>2, <1>6, <2>2, <2>3, <2>4
<1>7. Rest
  <2> HIDE DEF Rest
  <2>1. CASE ResetSession
    BY <1>6, <2>1 DEF ResetSession, reset_session
  <2>2. CASE UNCHANGED cvmVars
    BY <1>6, <2>2 DEF cvmVars, brokerVars
  <2> QED
    BY <1>3, <1>5, <2>1, <2>2 DEF CvmNext
<1> QED
  BY <1>1, <1>7 DEF CvmInv

\* A new CVM has an empty log and empty caches, and runs nothing (cvm.py
\* __init__).
LEMMA InvariantStart == CvmInit => CvmInv
<1> SUFFICES ASSUME CvmInit PROVE CvmInv
  OBVIOUS
<1>1. TypeOK
  <2>1. <<>> \in Seq(ReceiptType)
        /\ <<>> \in Seq(TokenType \cup ForeignTokens \cup {NoToken})
    BY EmptySeq
  <2>2. IsFiniteSet({})
    BY FS_EmptySet
  <2> QED
    BY <2>1, <2>2 DEF CvmInit, Init, TypeOK, StatesOf
<1>2. Typed
  <2>1. /\ <<>> \in Seq(Nat) /\ <<>> \in Seq(ResultType) /\ <<>> \in Seq(ServiceType)
        /\ Len(<<>>) = 0
    BY EmptySeq
  <2> QED
    BY <1>1, <2>1, IdleTyped DEF CvmInit, Init, Typed, Label
<1>3. Running = {}
  BY DEF CvmInit, Running, Idle
<1>4. CachesHoldVerdicts
  BY DEF CvmInit, CachesHoldVerdicts
<1>5. Ids
  <2>1. Cardinality({}) = 0 /\ IsFiniteSet({})
    BY FS_EmptySet
  <2>2. Submitted = 0 /\ results = <<>> /\ owner = <<>> /\ MaxCells \in Nat
    BY <1>3, <2>1, EmptySeq, CvmAssumption DEF CvmInit, Submitted
  <2> QED
    BY <1>3, <2>1, <2>2 DEF Ids
<1>6. Frames
  BY <1>3 DEF Frames
<1>7. AcceptedIsClean
  BY DEF CvmInit, AcceptedIsClean, Finished
<1>8. EffectsAreAdmitted
  <2> SUFFICES ASSUME NEW n \in 1 .. MaxCells, NEW target \in Target, NEW primitive
               PROVE  Carried(n, primitive, target) = AdmittedFor(n, primitive, target)
    BY DEF EffectsAreAdmitted
  <2>1. {i \in DOMAIN performed : /\ performed[i].by = n
                                  /\ performed[i].call.primitive = primitive
                                  /\ performed[i].call.target = target} = {}
    BY DEF CvmInit
  <2>2. {i \in AdmittedAt : /\ owner[i] = n
                            /\ receipts[i].effect.primitive = primitive
                            /\ receipts[i].effect.target = target} = {}
    BY DEF CvmInit, Init, AdmittedAt
  <2> QED
    BY <2>1, <2>2 DEF Carried, AdmittedFor
<1> QED
  BY <1>2, <1>4, <1>5, <1>6, <1>7, <1>8 DEF CvmInv

-----------------------------------------------------------------------------
(* Theorems, for any number of threads *)

\* Receipts, services, results and the locals of every thread belong together
\* (cvm.py submit_cell, worker.py _submit).
THEOREM CvmInvariant == CvmSpec => []CvmInv
BY InvariantStart, InvariantStep, PTL DEF CvmSpec

\* Every receipt has an owner, what is cached is a manifest, and a thread that
\* got past verification holds one.
THEOREM CvmTypeCorrect == CvmSpec => []CvmTypeOK
<1>1. CvmInv => CvmTypeOK
  <2> SUFFICES ASSUME CvmInv PROVE CvmTypeOK
    OBVIOUS
  <2>1. \A k \in DOMAIN results : results[k].outcome \in Outcome
    <3>1. results \in Seq(ResultType)
      BY DEF CvmInv, Typed
    <3>2. \A k \in DOMAIN results : results[k] \in ResultType
      BY <3>1, ElementOfSeq, LenProperties
    <3> QED
      BY <3>2 DEF ResultType
  <2>2. \A w \in Running : /\ run[w].id \in 1 .. MaxCells
                           /\ run[w].at # "verify" => run[w].manifest \in Manifests
    <3> TAKE w \in Running
    <3>1. /\ run[w].id \in 1 .. Submitted /\ Submitted <= MaxCells
          /\ Submitted \in Nat /\ MaxCells \in Nat
      BY CvmAssumption, FS_CardinalityType, LenProperties
      DEF CvmInv, Ids, Typed, Submitted
    <3> QED
      BY <3>1 DEF CvmInv, Frames, Frame
  <2> QED
    BY <2>1, <2>2 DEF CvmInv, Typed, CachesHoldVerdicts, CvmTypeOK
<1> QED
  BY <1>1, CvmInvariant, PTL

\* A service is called exactly as often as the broker admitted the call, for
\* every submission, whatever else runs and however the cell ends.
THEOREM EffectsCarriedOut == CvmSpec => []EffectsAreAdmitted
<1>1. CvmInv => EffectsAreAdmitted
  BY DEF CvmInv
<1> QED
  BY <1>1, CvmInvariant, PTL

\* A submission that ends in OK was refused nothing.
THEOREM AcceptedWasClean == CvmSpec => []AcceptedIsClean
<1>1. CvmInv => AcceptedIsClean
  BY DEF CvmInv
<1> QED
  BY <1>1, CvmInvariant, PTL

\* A running cell whose calls are all declared is never refused for leaving its
\* envelope, although the worker's search of the manifest and the broker's
\* follow different rules, and although the manifest may be another cell's or
\* of another mark.
THEOREM DeclaredStaysInside == CvmSpec => []DeclaredIsInside
<1>1. CvmInv => DeclaredIsInside
  BY DEF CvmInv, Frames, Frame, AllDeclared, Owned, DeclaredIsInside
<1> QED
  BY <1>1, CvmInvariant, PTL

\* The CVM uses its broker only through issue_token, submit and reset_session,
\* with what these accept: its behaviours are behaviours of Broker.
THEOREM CvmRunsABroker == CvmSpec => Spec
<1>1. CvmInit => Init
  BY DEF CvmInit
<1>2. CvmInv /\ [CvmNext]_cvmVars => [Next]_vars
  BY BrokerStep
<1> QED
  BY <1>1, <1>2, CvmInvariant, PTL DEF CvmSpec, Spec

\* So what holds of every broker holds inside a CVM: its log commits to its
\* history, a token is used once and by the cell it was issued for.
COROLLARY CvmKeepsAuthority ==
    CvmSpec => [](AuditCommitsToHistory /\ TokenSingleUse /\ AuthorityBound)
BY CvmRunsABroker, HistoryCommitted, SingleUse, AuthorityIsBound, PTL

\* And the CVM, caches, threads and all, is one more implementation of the
\* reference monitor, under the policies of which the broker is one.
COROLLARY CvmImplementsMonitor == RefusedDeclLoops => (CvmSpec => ImplementsMonitor)
BY CvmRunsABroker, Refinement, PTL
=============================================================================
