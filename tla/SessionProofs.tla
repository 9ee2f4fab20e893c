---------------------------- MODULE SessionProofs ----------------------------
(***************************************************************************)
(* Theorems about a CVM that one thread uses, as the drivers of the        *)
(* repository do: what the baseline into the audit log, the high-water     *)
(* mark and the two caches are for.  With two threads all of them fail.    *)
(***************************************************************************)
EXTENDS CVMProofs

OneThread == \A v, w \in Worker : v = w

-----------------------------------------------------------------------------
(* The inductive invariant *)

\* The locals r of the running cell: the receipts past its baseline are its
\* own, a verdict about to be stored is new, one about to be filed is the one
\* that is stored, the mark about to be written is above the one there is, and what the broker
\* admitted for the cell is below the ceiling of its manifest.
SessionFrame(r) ==
    /\ r.at \in {"exec", "submit", "judge"} =>
          \A i \in DOMAIN receipts : i > r.baseline => owner[i] = r.id
    /\ r.at = "store" => r.cell.ir \notin DOMAIN manifestCache
    /\ r.at = "file" => /\ r.cell.ir \in DOMAIN manifestCache
                        /\ manifestCache[r.cell.ir] = r.manifest
    /\ r.at = "raise" => r.joined = join(hwm, r.manifest.label_ceiling)
    /\ EnableEnvelope /\ r.at # "verify" =>
          \A i \in Owned(r.id) : receipts[i].decision = "ADMIT"
                => leq(receipts[i].effect.label, r.manifest.label_ceiling)

SessionInv ==
    /\ CvmInv
    /\ \A w \in Running : SessionFrame(run[w])
    /\ DeniedHasCause /\ OutputsAreCovered /\ CachesAgree

-----------------------------------------------------------------------------
(* The running cell *)

\* What an envelope holds is below its ceiling (manifest.py add_effect).
LEMMA EnvelopeIsLow ==
    ASSUME NEW m \in Manifests, NEW e \in Effects, EnableEnvelope, InEnvelope(m, e)
    PROVE  leq(e.label, m.label_ceiling)
<1>1. PICK i \in DOMAIN m.effects : leq(e.label, m.effects[i].label)
  BY DEF InEnvelope, effect_in_envelope
<1>2. leq(m.effects[i].label, m.label_ceiling)
  BY CvmAssumption DEF CeilingCovers
<1>3. m \in ManifestType /\ e \in Effect
  BY BrokerAssumption
<1>4. m.effects[i] \in Effect
  <2>1. m.effects \in Seq(Effect)
    BY <1>3 DEF ManifestType
  <2> QED
    BY <2>1, ElementOfSeq, LenProperties
<1> QED
  BY <1>1, <1>2, <1>3, <1>4 DEF leq, Effect, ManifestType, Label, BOTTOM, HIGH

\* The running cell keeps its frame until it answers.
LEMMA SessionFrameStep ==
    ASSUME SessionInv, CvmInv', NEW w \in Worker, Step(w), w \in Running'
    PROVE  SessionFrame(run[w])'
<1>1. w \in Running
  BY DEF Step, Running, Verify, Store, File, Start, GetToken, SubmitEffect, AtCall,
         KernelCall, Raise, Return, Judge, RaiseHwm
<1>2. /\ run[w] \in LocalsType /\ run \in [Worker -> LocalsType]
      /\ Frame(run[w]) /\ SessionFrame(run[w]) /\ Frame(run[w])'
      /\ DOMAIN receipts = 1 .. Len(receipts) /\ Len(receipts) \in Nat
      /\ DOMAIN owner = 1 .. Len(receipts)
  BY <1>1, LenProperties DEF SessionInv, CvmInv, Typed, TypeOK, Frames
<1>3. \A outcome : ~Answer(w, outcome)
  BY <1>2 DEF Answer, Idle, Running
<1>4. \A r : Goto(w, r) => run'[w] = r
  BY <1>2 DEF Goto
<1>5. ASSUME run'[w].at \in {"store", "file", "start"},
             run'[w].at = "store" => run'[w].cell.ir \notin DOMAIN manifestCache',
             run'[w].at = "file" => /\ run'[w].cell.ir \in DOMAIN manifestCache'
                                    /\ manifestCache'[run'[w].cell.ir] = run'[w].manifest
      PROVE  SessionFrame(run[w])'
  <2>1. {i \in DOMAIN owner' : owner'[i] = run'[w].id} = {}
    BY <1>2, <1>5 DEF Frame, Owned
  <2> QED
    BY <1>5, <2>1 DEF SessionFrame, Owned
<1>6. ASSUME UNCHANGED <<receipts, owner>>, hwm' = hwm, run'[w].id = run[w].id,
             run'[w].manifest = run[w].manifest, run[w].at # "verify",
             run'[w].at \in {"exec", "submit", "judge"} =>
                 \/ /\ run[w].at \in {"exec", "submit"}
                    /\ run'[w].baseline = run[w].baseline
                 \/ run'[w].baseline = Len(receipts),
             run'[w].at = "raise" => run'[w].joined = join(hwm, run[w].manifest.label_ceiling),
             run'[w].at \in {"exec", "submit", "judge", "raise"}
      PROVE  SessionFrame(run[w])'
  <2>1. run'[w].at \in {"exec", "submit", "judge"} =>
          \A i \in DOMAIN receipts : i > run'[w].baseline => owner[i] = run[w].id
    BY <1>2, <1>6 DEF SessionFrame
  <2>2. EnableEnvelope => \A i \in Owned(run[w].id) : receipts[i].decision = "ADMIT"
                => leq(receipts[i].effect.label, run[w].manifest.label_ceiling)
    BY <1>2, <1>6 DEF SessionFrame
  <2>3. Owned(run[w].id)' = Owned(run[w].id)
    BY <1>6 DEF Owned
  <2> QED
    BY <1>6, <2>1, <2>2, <2>3 DEF SessionFrame
<1>7. CASE Verify(w)
  <2> DEFINE m == KnownManifest(run[w].cell)
             stored == [run[w] EXCEPT
                 !.at = IF run[w].cell.ir \in DOMAIN manifestCache THEN "file" ELSE "store",
                 !.manifest = m]
             permissive == [run[w] EXCEPT !.at = "start", !.manifest = PermissiveManifest]
  <2>1. run'[w] = stored \/ run'[w] = permissive
    BY <1>3, <1>4, <1>7 DEF Verify
  <2>2. /\ stored.at = IF run[w].cell.ir \in DOMAIN manifestCache THEN "file" ELSE "store"
        /\ stored.cell = run[w].cell /\ stored.manifest = m
        /\ permissive.at = "start"
    BY <1>2 DEF LocalsType
  <2>3. run[w].cell.ir \in DOMAIN manifestCache => m = manifestCache[run[w].cell.ir]
    BY DEF KnownManifest
  <2>4. manifestCache' = manifestCache
    BY <1>7 DEF Verify, caches
  <2> HIDE DEF m, stored, permissive
  <2> QED
    BY <1>5, <2>1, <2>2, <2>3, <2>4
<1>8. CASE Store(w) \/ File(w)
  <2>1. CASE Store(w)
    <3>1. /\ run'[w] = [run[w] EXCEPT !.at = "file"]
          /\ manifestCache' = Put(manifestCache, run[w].cell.ir, run[w].manifest)
      BY <1>4, <2>1 DEF Store
    <3>2. run'[w].at = "file" /\ run'[w].cell = run[w].cell
          /\ run'[w].manifest = run[w].manifest
      BY <1>2, <3>1 DEF LocalsType
    <3> QED
      BY <1>5, <3>1, <3>2 DEF Put
  <2>2. CASE File(w)
    <3>1. run'[w].at = "start"
      BY <1>2, <1>4, <2>2 DEF File, LocalsType
    <3> QED
      BY <1>5, <3>1
  <2> QED
    BY <1>8, <2>1, <2>2
<1>9. CASE Start(w)
  <2>1. run'[w] = [run[w] EXCEPT !.at = "exec", !.baseline = Len(receipts)]
        /\ run[w].at = "start" /\ UNCHANGED <<receipts, owner>> /\ hwm' = hwm
    BY <1>4, <1>9 DEF Start, brokerVars
  <2>2. run'[w].at = "exec" /\ run'[w].id = run[w].id
        /\ run'[w].manifest = run[w].manifest /\ run'[w].baseline = Len(receipts)
    BY <1>2, <2>1 DEF LocalsType
  <2> QED
    BY <1>6, <2>1, <2>2
<1>10. CASE GetToken(w)
  <2>1. run'[w] = [run[w] EXCEPT !.at = "submit", !.token = FreshToken(run[w].manifest)]
        /\ run[w].at = "exec" /\ UNCHANGED <<receipts, owner>> /\ hwm' = hwm
    BY <1>4, <1>10 DEF GetToken, issue_token, AtCall
  <2>2. run'[w].at = "submit" /\ run'[w].id = run[w].id
        /\ run'[w].manifest = run[w].manifest /\ run'[w].baseline = run[w].baseline
    BY <1>2, <2>1 DEF LocalsType
  <2> QED
    BY <1>6, <2>1, <2>2
<1>11. CASE KernelCall(w)
  <2>1. run'[w] = [run[w] EXCEPT !.at = "exec", !.next = @ + 1]
        /\ run[w].at = "exec" /\ UNCHANGED <<receipts, owner>> /\ hwm' = hwm
    BY <1>3, <1>4, <1>11 DEF KernelCall, brokerVars, AtCall
  <2>2. run'[w].at = "exec" /\ run'[w].id = run[w].id
        /\ run'[w].manifest = run[w].manifest /\ run'[w].baseline = run[w].baseline
    BY <1>2, <2>1 DEF LocalsType
  <2> QED
    BY <1>6, <2>1, <2>2
<1>12. CASE Return(w)
  <2>1. run'[w] = [run[w] EXCEPT !.at = "judge"]
        /\ run[w].at = "exec" /\ UNCHANGED <<receipts, owner>> /\ hwm' = hwm
    BY <1>4, <1>12 DEF Return, brokerVars
  <2>2. run'[w].at = "judge" /\ run'[w].id = run[w].id
        /\ run'[w].manifest = run[w].manifest /\ run'[w].baseline = run[w].baseline
    BY <1>2, <2>1 DEF LocalsType
  <2> QED
    BY <1>6, <2>1, <2>2
<1>13. CASE Judge(w)
  <2> DEFINE j == join(hwm, run[w].manifest.label_ceiling)
  <2>1. run'[w] = [run[w] EXCEPT !.at = "raise", !.joined = j]
        /\ run[w].at = "judge" /\ UNCHANGED <<receipts, owner>> /\ hwm' = hwm
    BY <1>3, <1>4, <1>13 DEF Judge, brokerVars
  <2>2. run'[w].at = "raise" /\ run'[w].id = run[w].id
        /\ run'[w].manifest = run[w].manifest /\ run'[w].joined = j
    BY <1>2, <2>1 DEF LocalsType
  <2> QED
    BY <1>6, <2>1, <2>2
<1>14. CASE SubmitEffect(w)
  <2>1. PICK r \in ReceiptType : Serves(w, r)
    BY <1>14, SubmitServes DEF SessionInv
  <2> DEFINE n == Len(receipts)
  <2>2. /\ DOMAIN receipts' = 1 .. n + 1 /\ DOMAIN owner' = 1 .. n + 1
        /\ \A i \in 1 .. n : receipts'[i] = receipts[i] /\ owner'[i] = owner[i]
        /\ receipts'[n + 1] = r /\ owner'[n + 1] = run[w].id
    BY <2>1, ServedReceipts DEF SessionInv
  <2>3. /\ run'[w].at = "exec" /\ run'[w].id = run[w].id
        /\ run'[w].manifest = run[w].manifest /\ run'[w].baseline = run[w].baseline
    BY <1>2, <1>14 DEF SubmitEffect, Goto, LocalsType
  <2>4. run[w].at \in {"exec", "submit"}
    BY <1>14 DEF SubmitEffect, AtCall
  <2>5. \A i \in DOMAIN receipts' : i > run[w].baseline => owner'[i] = run[w].id
    <3> TAKE i \in DOMAIN receipts'
    <3>1. CASE i \in 1 .. n
      BY <1>2, <2>2, <2>4, <3>1 DEF SessionFrame
    <3>2. CASE i = n + 1
      BY <2>2, <3>2
    <3> QED
      BY <1>2, <2>2, <3>1, <3>2
  <2>6. EnableEnvelope /\ r.decision = "ADMIT" =>
          leq(r.effect.label, run[w].manifest.label_ceiling)
    <3>1. EffectOf(w) \in Effects /\ run[w].manifest \in Manifests
      BY <1>14, SubmitIsBrokered DEF SessionInv, Calls
    <3> QED
      BY <2>1, <3>1, EnvelopeIsLow DEF Serves
  <2>7. EnableEnvelope =>
          \A i \in DOMAIN owner' : owner'[i] = run[w].id /\ receipts'[i].decision = "ADMIT"
                => leq(receipts'[i].effect.label, run[w].manifest.label_ceiling)
    <3> SUFFICES ASSUME EnableEnvelope, NEW i \in DOMAIN owner', owner'[i] = run[w].id,
                        receipts'[i].decision = "ADMIT"
                 PROVE  leq(receipts'[i].effect.label, run[w].manifest.label_ceiling)
      OBVIOUS
    <3>1. CASE i \in 1 .. n
      BY <1>2, <2>2, <2>4, <3>1 DEF SessionFrame, Owned
    <3>2. CASE i = n + 1
      BY <2>2, <2>6, <3>2
    <3> QED
      BY <1>2, <2>2, <3>1, <3>2
  <2> HIDE DEF n
  <2> QED
    BY <2>3, <2>5, <2>7 DEF SessionFrame, Owned
<1> QED
  BY <1>3, <1>7, <1>8, <1>9, <1>10, <1>11, <1>12, <1>13, <1>14
  DEF Step, Raise, RaiseHwm

-----------------------------------------------------------------------------
(* What a session has shown for *)

\* A submission ends in outcome exactly when one answer says so.
LEMMA OneMoreResult ==
    ASSUME CvmInv, NEW w \in Worker, NEW outcome \in Outcome, Answer(w, outcome), NEW n, NEW o
    PROVE  Finished(n, o)' <=> Finished(n, o) \/ (n = run[w].id /\ o = outcome)
<1> DEFINE result == [by |-> run[w].id, outcome |-> outcome, since |-> resetAt]
<1>1. GrewBy(results, results', result)
  BY AnswerTyped
<1>2. /\ DOMAIN results' = 1 .. Len(results) + 1 /\ Len(results) \in Nat
      /\ DOMAIN results = 1 .. Len(results)
      /\ \A k \in 1 .. Len(results) : results'[k] = results[k]
      /\ results'[Len(results) + 1] = result
  BY <1>1 DEF GrewBy
<1>3. ASSUME Finished(n, o) PROVE Finished(n, o)'
  BY <1>2, <1>3 DEF Finished
<1>4. ASSUME n = run[w].id, o = outcome PROVE Finished(n, o)'
  <2>1. Len(results) + 1 \in DOMAIN results'
    BY <1>2
  <2> QED
    BY <1>2, <1>4, <2>1 DEF Finished
<1>5. ASSUME Finished(n, o)' PROVE Finished(n, o) \/ (n = run[w].id /\ o = outcome)
  <2>1. PICK k \in DOMAIN results' : results'[k].by = n /\ results'[k].outcome = o
    BY <1>5 DEF Finished
  <2>2. CASE k \in 1 .. Len(results)
    BY <1>2, <2>1, <2>2 DEF Finished
  <2>3. CASE k = Len(results) + 1
    BY <1>2, <2>1, <2>3
  <2> QED
    BY <1>2, <2>2, <2>3
<1> QED
  BY <1>3, <1>4, <1>5

\* Every step answers one submission or none.
LEMMA AnswersOnce ==
    ASSUME CvmInv, [CvmNext]_cvmVars
    PROVE  \/ UNCHANGED results
           \/ \E w \in Running :
                \/ /\ Answer(w, "BROKER_DENY") /\ Judge(w) /\ DeniedSince(run[w].baseline)
                \/ Answer(w, "OK") /\ RaiseHwm(w)
                \/ \E outcome \in Outcome \ {"OK", "BROKER_DENY"} :
                      /\ Answer(w, outcome)
                      /\ UNCHANGED <<receipts, owner>> /\ hwm' = hwm
<1>1. ASSUME NEW w \in Worker, Step(w)
      PROVE  \/ UNCHANGED results
             \/ /\ w \in Running
                /\ \/ /\ Answer(w, "BROKER_DENY") /\ Judge(w) /\ DeniedSince(run[w].baseline)
                   \/ Answer(w, "OK") /\ RaiseHwm(w)
                   \/ \E outcome \in Outcome \ {"OK", "BROKER_DENY"} :
                         /\ Answer(w, outcome)
                         /\ UNCHANGED <<receipts, owner>> /\ hwm' = hwm
  <2>1. CASE Verify(w)
    BY <2>1 DEF Verify, brokerVars, Running, Outcome
  <2>2. CASE KernelCall(w)
    BY <2>2 DEF KernelCall, AtCall, brokerVars, Running, Outcome
  <2>3. CASE Raise(w)
    BY <2>3 DEF Raise, brokerVars, Running, Outcome
  <2>4. CASE Judge(w)
    BY <2>4 DEF Judge, Running
  <2>5. CASE RaiseHwm(w)
    BY <2>5 DEF RaiseHwm, Running
  <2> QED
    BY <1>1, <2>1, <2>2, <2>3, <2>4, <2>5
    DEF Step, Store, File, Start, GetToken, SubmitEffect, Return
<1> QED
  BY <1>1 DEF CvmNext, Submit, ResetSession, cvmVars

\* The log keeps the receipts it has, and their owners.
LEMMA LogKept ==
    ASSUME CvmInv, [CvmNext]_cvmVars
    PROVE  /\ DOMAIN owner = DOMAIN receipts
           /\ \A i \in DOMAIN owner :
                 /\ i \in DOMAIN owner' /\ owner'[i] = owner[i] /\ receipts'[i] = receipts[i]
           /\ UNCHANGED results \/ UNCHANGED <<receipts, owner>>
           /\ \A i \in DOMAIN owner' \ DOMAIN owner :
                 /\ UNCHANGED results /\ UNCHANGED hwm /\ UNCHANGED resetAt
                 /\ \A o : ~Finished(owner'[i], o)
<1>1. DOMAIN owner = 1 .. Len(receipts) /\ DOMAIN receipts = 1 .. Len(receipts)
  BY LenProperties DEF CvmInv, Typed, TypeOK
<1>2. ASSUME NEW w \in Worker, SubmitEffect(w)
      PROVE  /\ \A i \in DOMAIN owner :
                   /\ i \in DOMAIN owner' /\ owner'[i] = owner[i] /\ receipts'[i] = receipts[i]
             /\ \A i \in DOMAIN owner' \ DOMAIN owner : owner'[i] = run[w].id
             /\ UNCHANGED <<results, hwm, resetAt>> /\ w \in Running
  <2>1. PICK r \in ReceiptType : Serves(w, r)
    BY <1>2, SubmitServes
  <2>2. /\ DOMAIN owner' = 1 .. Len(receipts) + 1
        /\ \A i \in 1 .. Len(receipts) : receipts'[i] = receipts[i] /\ owner'[i] = owner[i]
        /\ owner'[Len(receipts) + 1] = run[w].id /\ Len(receipts) \in Nat
    BY <2>1, ServedReceipts
  <2>3. submit(run[w].manifest, EffectOf(w), run[w].token) /\ w \in Running
    BY <1>2, SubmitIsBrokered
  <2>4. UNCHANGED resetAt
    BY <2>3 DEF submit, DenyEnvelope, DenyMissing, DenyInvalid, DenyStale, DenyPolicy,
                DenyUnregistered, Deny, Admit
  <2> QED
    BY <1>1, <1>2, <2>2, <2>3, <2>4 DEF SubmitEffect
<1>3. \A w \in Running : \A o : ~Finished(run[w].id, o)
  BY DEF CvmInv, Ids, Finished
<1>4. ASSUME NEW w \in Worker, Step(w)
      PROVE  SubmitEffect(w) \/ UNCHANGED <<receipts, owner>>
  BY <1>4 DEF Step, Verify, Store, File, Start, GetToken, issue_token, KernelCall, Raise,
              Return, Judge, RaiseHwm, brokerVars
<1>5. CASE UNCHANGED <<receipts, owner>>
  BY <1>1, <1>5
<1>6. CASE \E w \in Worker : SubmitEffect(w)
  BY <1>1, <1>2, <1>3, <1>6
<1> QED
  BY <1>4, <1>5, <1>6
  DEF CvmNext, Submit, ResetSession, reset_session, cvmVars, brokerVars

\* A cell that is reported as denied has a refusal of its own.
LEMMA CauseStep ==
    ASSUME OneThread, SessionInv, [CvmNext]_cvmVars
    PROVE  DeniedHasCause'
<1> SUFFICES ASSUME NEW n \in 1 .. MaxCells, Finished(n, "BROKER_DENY")'
             PROVE  Denied(n)'
  BY DEF DeniedHasCause
<1>1. CASE Finished(n, "BROKER_DENY")
  <2>1. PICK i \in DOMAIN owner : owner[i] = n /\ receipts[i].decision = "DENY"
    BY <1>1 DEF SessionInv, DeniedHasCause, Denied
  <2> QED
    BY <2>1, LogKept DEF SessionInv, Denied
<1>2. CASE ~Finished(n, "BROKER_DENY")
  <2>1. ~UNCHANGED results
    BY <1>2 DEF Finished
  <2>2. PICK w \in Running :
          /\ Answer(w, "BROKER_DENY") /\ Judge(w) /\ DeniedSince(run[w].baseline)
          /\ n = run[w].id
    BY <1>2, <2>1, AnswersOnce, OneMoreResult DEF SessionInv, Outcome, Running
  <2>3. PICK i \in run[w].baseline + 1 .. Len(receipts) : receipts[i].decision = "DENY"
    BY <2>2 DEF DeniedSince
  <2>4. run[w].baseline \in Nat /\ DOMAIN receipts = 1 .. Len(receipts)
        /\ DOMAIN owner = 1 .. Len(receipts)
    BY LenProperties DEF SessionInv, CvmInv, Typed, TypeOK, LocalsType, Running
  <2>5. i \in DOMAIN receipts /\ i > run[w].baseline
    BY <2>3, <2>4
  <2>6. owner[i] = n
    BY <2>2, <2>5 DEF SessionInv, SessionFrame, Judge
  <2> QED
    BY <2>3, <2>4, <2>5, <2>6, LogKept DEF SessionInv, Denied
<1> QED
  BY <1>1, <1>2

\* The mark only moves up, but for a reset.
LEMMA MarkStep ==
    ASSUME SessionInv, [CvmNext]_cvmVars
    PROVE  \/ leq(hwm, hwm')
           \/ Running = {} /\ ResetSession
<1>1. hwm \in Label
  BY DEF SessionInv, CvmInv, Typed
<1>2. ASSUME NEW w \in Worker, RaiseHwm(w) PROVE leq(hwm, hwm')
  <2>1. w \in Running /\ run[w].at = "raise" /\ hwm' = run[w].joined
    BY <1>2 DEF RaiseHwm, Running
  <2>2. hwm' = join(hwm, run[w].manifest.label_ceiling)
    BY <2>1 DEF SessionInv, SessionFrame
  <2>3. run[w].manifest.label_ceiling \in Label
    BY <2>1, BrokerAssumption DEF SessionInv, CvmInv, Frames, Frame, ManifestType
  <2> QED
    BY <1>1, <2>2, <2>3 DEF join, leq, Label, BOTTOM, HIGH
<1>3. CASE hwm' = hwm
  BY <1>1, <1>3 DEF leq, Label, BOTTOM, HIGH
<1> QED
  BY <1>2, <1>3
  DEF CvmNext, Step, Submit, Verify, Store, File, Start, GetToken, SubmitEffect, KernelCall,
      Raise, Return, Judge, ResetSession, cvmVars

\* What an accepted cell was admitted is below the mark.
LEMMA CoverStep ==
    ASSUME OneThread, SessionInv, CvmInv', [CvmNext]_cvmVars
    PROVE  OutputsAreCovered'
<1> SUFFICES ASSUME EnableEnvelope, NEW i \in DOMAIN receipts', receipts'[i].decision = "ADMIT",
                    i > resetAt', Finished(owner[i], "OK")'
             PROVE  leq(receipts'[i].effect.label, hwm')
  BY DEF OutputsAreCovered, AdmittedAt
<1>1. /\ DOMAIN owner = DOMAIN receipts /\ DOMAIN owner' = DOMAIN receipts'
      /\ hwm \in Label /\ hwm' \in Label
  BY LenProperties DEF SessionInv, CvmInv, Typed, TypeOK
<1>2. i \in DOMAIN owner /\ owner'[i] = owner[i] /\ receipts'[i] = receipts[i]
  <2>1. i \notin DOMAIN owner => FALSE
    BY <1>1, LogKept DEF SessionInv, Finished
  <2> QED
    BY <2>1, LogKept DEF SessionInv
<1>3. receipts[i].effect.label \in Label
  <2>1. receipts[i] \in ReceiptType
    BY <1>1, <1>2, ElementOfSeq, LenProperties DEF SessionInv, CvmInv, Typed, TypeOK
  <2> QED
    BY <2>1 DEF ReceiptType, ReceiptEffect
<1>4. ~ResetSession
  <2>1. ASSUME ResetSession PROVE FALSE
    <3>1. resetAt' = Len(receipts) /\ i \in 1 .. Len(receipts) /\ Len(receipts) \in Nat
      BY <1>1, <1>2, <2>1, LenProperties
      DEF ResetSession, reset_session, SessionInv, CvmInv, Typed, TypeOK
    <3> QED
      BY <3>1
  <2> QED
    BY <2>1
<1>5. leq(hwm, hwm')
  BY <1>4, MarkStep
<1>6. CASE Finished(owner[i], "OK") /\ i > resetAt
  <2>1. leq(receipts[i].effect.label, hwm)
    BY <1>1, <1>2, <1>6 DEF SessionInv, OutputsAreCovered, AdmittedAt
  <2> QED
    BY <1>1, <1>2, <1>3, <1>5, <2>1 DEF leq, Label, BOTTOM, HIGH
<1>7. CASE ~Finished(owner[i], "OK")
  <2>1. ~UNCHANGED results
    BY <1>2, <1>7 DEF Finished
  <2>2. PICK w \in Running : Answer(w, "OK") /\ RaiseHwm(w) /\ owner[i] = run[w].id
    BY <1>2, <1>7, <2>1, AnswersOnce, OneMoreResult DEF SessionInv, Outcome, Running
  <2> DEFINE ceiling == run[w].manifest.label_ceiling
  <2>3. hwm' = join(hwm, ceiling) /\ leq(receipts[i].effect.label, ceiling)
    BY <1>2, <2>2 DEF SessionInv, SessionFrame, RaiseHwm, Owned
  <2>4. ceiling \in Label
    BY <2>2, BrokerAssumption DEF SessionInv, CvmInv, Frames, Frame, ManifestType, RaiseHwm
  <2> QED
    BY <1>1, <1>2, <1>3, <2>3, <2>4 DEF join, leq, Label, BOTTOM, HIGH
<1>8. resetAt' = resetAt
  BY <1>4 DEF CvmNext, Step, Submit, Verify, Store, File, Start, GetToken, issue_token,
     SubmitEffect, submit, DenyEnvelope, DenyMissing, DenyInvalid, DenyStale, DenyPolicy,
     DenyUnregistered, Deny, Admit, KernelCall, Raise, Return, Judge, RaiseHwm,
     cvmVars, brokerVars
<1> QED
  BY <1>6, <1>7, <1>8

\* The caches agree: a verdict is stored in both, or is already in one.
LEMMA AgreeStep ==
    ASSUME SessionInv, [CvmNext]_cvmVars
    PROVE  CachesAgree'
<1>1. CASE UNCHANGED caches
  BY <1>1 DEF caches, SessionInv, CachesAgree
<1>2. ASSUME NEW w \in Worker, Store(w) PROVE CachesAgree'
  <2>1. run[w].cell.ir \notin DOMAIN manifestCache
    BY <1>2 DEF Store, Running, SessionInv, SessionFrame
  <2>2. /\ sourceCache' = sourceCache
        /\ \A k \in DOMAIN manifestCache : /\ k \in DOMAIN manifestCache'
                                           /\ manifestCache'[k] = manifestCache[k]
    BY <1>2, <2>1 DEF Store, Put
  <2> QED
    BY <2>2 DEF SessionInv, CachesAgree
<1>3. ASSUME NEW w \in Worker, File(w) PROVE CachesAgree'
  <2> DEFINE m == run[w].manifest
             d == run[w].cell
  <2>1. /\ w \in Running /\ d \in Cells
        /\ d.ir \in DOMAIN manifestCache /\ manifestCache[d.ir] = m
    BY <1>3 DEF File, Running, SessionInv, SessionFrame, CvmInv, Typed, Frames, Frame
  <2>2. sourceCache' = Put(sourceCache, d.source, m) /\ manifestCache' = manifestCache
    BY <1>3 DEF File
  <2>3. \A c \in Cells : c.source = d.source => c.ir = d.ir
    BY <2>1, CvmAssumption
  <2> HIDE DEF m, d
  <2>4. \A s \in DOMAIN sourceCache' :
          \/ s = d.source /\ sourceCache'[s] = m
          \/ s \in DOMAIN sourceCache /\ sourceCache'[s] = sourceCache[s]
    BY <2>2 DEF Put
  <2> SUFFICES ASSUME NEW c \in Cells, c.source \in DOMAIN sourceCache'
               PROVE  /\ c.ir \in DOMAIN manifestCache'
                      /\ manifestCache'[c.ir] = sourceCache'[c.source]
    BY DEF CachesAgree
  <2> QED
    BY <2>1, <2>2, <2>3, <2>4 DEF SessionInv, CachesAgree
<1> QED
  BY <1>1, <1>2, <1>3
  DEF CvmNext, Step, Submit, Verify, Start, GetToken, SubmitEffect, KernelCall,
      Raise, Return, Judge, RaiseHwm, ResetSession, cvmVars

\* A step of the one thread, and a reset, keeps what is known of its cell, its
\* results and the caches (cvm.py submit_cell).
LEMMA SessionStep ==
    ASSUME OneThread, SessionInv, [CvmNext]_cvmVars
    PROVE  SessionInv'
<1>1. CvmInv'
  BY InvariantStep DEF SessionInv
<1>2. ASSUME NEW v \in Running' PROVE SessionFrame(run[v])'
  <2>1. v \in Worker
    BY <1>2 DEF Running
  <2>2. ASSUME NEW w \in Worker, Step(w) PROVE SessionFrame(run[v])'
    <3>1. w = v
      BY <2>1 DEF OneThread
    <3>2. Step(v)
      BY <2>2, <3>1
    <3> QED
      BY <1>1, <1>2, <2>1, <3>2, SessionFrameStep
  <2>3. ASSUME NEW w \in Worker, NEW c \in Cells, Submit(w, c) PROVE SessionFrame(run[v])'
    <3>1. w = v
      BY <2>1 DEF OneThread
    <3>2. run'[v].at \in {"verify", "start"}
      BY <2>3, <3>1 DEF Submit, Goto, Idle, SessionInv, CvmInv, Typed
    <3>3. Frame(run[v])'
      BY <1>1, <1>2 DEF CvmInv, Frames
    <3>4. {i \in DOMAIN owner' : owner'[i] = run'[v].id} = {}
      BY <3>2, <3>3 DEF Frame, Owned
    <3> QED
      BY <3>2, <3>4 DEF SessionFrame, Owned
  <2>4. ASSUME ResetSession PROVE SessionFrame(run[v])'
    BY <1>2, <2>4 DEF ResetSession, Running
  <2>5. ASSUME UNCHANGED cvmVars PROVE SessionFrame(run[v])'
    <3>1. SessionFrame(run[v]) /\ UNCHANGED <<run, receipts, owner, hwm, manifestCache>>
      BY <1>2, <2>5 DEF SessionInv, cvmVars, brokerVars, caches, Running
    <3> QED
      BY <3>1 DEF SessionFrame, Owned
  <2> QED
    BY <2>2, <2>3, <2>4, <2>5 DEF CvmNext
<1> QED
  BY <1>1, <1>2, CauseStep, CoverStep, AgreeStep DEF SessionInv

-----------------------------------------------------------------------------
(* Theorems, for one thread *)

\* The log past the baseline is the running cell's, the caches agree, and the mark
\* covers what went before (cvm.py submit_cell).
THEOREM SessionInvariant == OneThread => (CvmSpec => []SessionInv)
<1> SUFFICES ASSUME OneThread PROVE CvmSpec => []SessionInv
  OBVIOUS
<1>1. CvmInit => SessionInv
  BY InvariantStart
  DEF CvmInit, Init, Idle, Running, SessionInv, DeniedHasCause, OutputsAreCovered,
      CachesAgree, Finished, AdmittedAt
<1>2. SessionInv /\ [CvmNext]_cvmVars => SessionInv'
  BY SessionStep
<1> QED
  BY <1>1, <1>2, PTL DEF CvmSpec

\* A cell is reported as denied only for a refusal of its own.
THEOREM DenialCaused == OneThread => (CvmSpec => []DeniedHasCause)
<1>1. SessionInv => DeniedHasCause
  BY DEF SessionInv
<1> QED
  BY <1>1, SessionInvariant, PTL

\* The mark covers what the accepted cells of the session were admitted to
\* observe or send, for any lengths of sessions, manifests and cells.
THEOREM OutputsCovered == OneThread => (CvmSpec => []OutputsAreCovered)
<1>1. SessionInv => OutputsAreCovered
  BY DEF SessionInv
<1> QED
  BY <1>1, SessionInvariant, PTL

\* The two caches agree on every cell, at whatever marks it was verified.
THEOREM CachesAgreed == OneThread => (CvmSpec => []CachesAgree)
<1>1. SessionInv => CachesAgree
  BY DEF SessionInv
<1> QED
  BY <1>1, SessionInvariant, PTL

\* The mark falls only when the session is reset.
THEOREM HwmMonotone == OneThread => (CvmSpec => HwmIsMonotone)
<1>1. SessionInv /\ [CvmNext]_cvmVars => [leq(hwm, hwm') \/ Running = {}]_cvmVars
  BY MarkStep
<1> QED
  BY <1>1, SessionInvariant, PTL DEF CvmSpec, HwmIsMonotone
=============================================================================
