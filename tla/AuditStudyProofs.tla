--------------------------- MODULE AuditStudyProofs ---------------------------
(***************************************************************************)
(* Theorems about the tampering study, for logs of any length, whatever    *)
(* entries they hold.                                                      *)
(***************************************************************************)
EXTENDS AuditStudy, SequenceTheorems, TLAPS

\* What is hashed, and the receipts append writes.
Bodies ==
    [seq : Nat, ir_hash : IRHash, manifest_digest : ManifestType, effect : Effect,
     decision : Decision, note : Reason \cup {NoNote}, ts : Nat]

Written ==
    [seq : Nat, ir_hash : IRHash, manifest_digest : ManifestType, effect : Effect,
     decision : Decision, note : Reason \cup {NoNote},
     prev_chain : Seq(Bodies), chain : Seq(Bodies), timestamp : Nat]

\* The link a receipt has when t was hashed into it.
LinkAt(r, t) == sha256(r.prev_chain, [BodyOf(r) EXCEPT !.ts = t])

\* A log that nobody has changed: link n covers n bodies, the last of them that
\* of receipt n with the time of the first clock reading.
Untouched(rs) ==
    /\ rs \in Seq(Written)
    /\ verify_integrity(rs)
    /\ \A i \in DOMAIN rs :
          /\ Len(rs[i].prev_chain) = i - 1
          /\ rs[i].chain[i].ts \in Nat
          /\ rs[i].chain = LinkAt(rs[i], rs[i].chain[i].ts)

\* The log is untouched while no perturbation is in place, its copy otherwise.
StudyInv ==
    /\ kind = "none" => Untouched(log)
    /\ kind # "none" => Untouched(snapshot)

-----------------------------------------------------------------------------
(* Links *)

\* A link is longer than the one it extends (audit.py append).
LEMMA LinkGrows ==
    ASSUME NEW S, NEW prev \in Seq(S), NEW body
    PROVE  sha256(prev, body) # prev /\ sha256(prev, body) # GENESIS
<1>1. Len(Append(prev, body)) = Len(prev) + 1 /\ Len(prev) \in Nat
  OBVIOUS
<1>2. Append(prev, body) # prev
  BY <1>1
<1>3. Append(prev, body) # <<>>
  BY <1>1
<1> QED
  BY <1>2, <1>3 DEF sha256, GENESIS

\* Two links that extend the same one are the same for the same body only.
LEMMA LinkInjective ==
    ASSUME NEW S, NEW prev \in Seq(S), NEW a, NEW b,
           sha256(prev, a) = sha256(prev, b)
    PROVE  a = b
<1>1. Append(prev, a)[Len(prev) + 1] = a /\ Append(prev, b)[Len(prev) + 1] = b
  OBVIOUS
<1> QED
  BY <1>1 DEF sha256

\* What is in an untouched log at any place.
LEMMA ReceiptUntouched ==
    ASSUME NEW rs, Untouched(rs), NEW i \in DOMAIN rs
    PROVE  /\ i \in Nat \ {0} /\ i <= Len(rs) /\ Len(rs) \in Nat
           /\ rs[i] \in Written
           /\ rs[i].chain # rs[i].prev_chain /\ rs[i].chain # GENESIS
           /\ rs[i].prev_chain = IF i = 1 THEN GENESIS ELSE rs[i - 1].chain
<1>1. rs \in Seq(Written) /\ i \in 1 .. Len(rs) /\ Len(rs) \in Nat
  BY DEF Untouched
<1>2. rs[i] \in Written
  BY <1>1
<1>3. rs[i].prev_chain \in Seq(Bodies)
  BY <1>2 DEF Written
<1>4. rs[i].chain = LinkAt(rs[i], rs[i].chain[i].ts)
  BY DEF Untouched
<1>5. rs[i].chain # rs[i].prev_chain /\ rs[i].chain # GENESIS
  BY <1>3, <1>4, LinkGrows DEF LinkAt
<1> QED
  BY <1>1, <1>2, <1>5 DEF Untouched, verify_integrity

-----------------------------------------------------------------------------
(* Writing *)

\* append leaves an untouched log untouched (audit.py append).
LEMMA WriteUntouched ==
    ASSUME Untouched(log), kind = "none", Write
    PROVE  Untouched(log')
<1>1. PICK e \in Entries :
         log' = append(log, e.ir, e.digest, e.effect, e.decision, e.note, e.ts, e.stamp)
  BY DEF Write
<1> DEFINE n == Len(log)
           r == MakeReceipt(n, head(log), e.ir, e.digest, e.effect, e.decision, e.note,
                            e.ts, e.stamp)
           body == Body(n, e.ir, e.digest, e.effect, e.decision, e.note, e.ts)
<1>2. log' = Append(log, r) /\ log \in Seq(Written) /\ n \in Nat
  BY <1>1 DEF append, Untouched
<1>3. e \in EntryType
  BY EntriesAssumption
<1>4. body \in Bodies
  BY <1>2, <1>3 DEF Body, Bodies, EntryType
<1>5. head(log) \in Seq(Bodies) /\ Len(head(log)) = n
  <2>1. CASE log = <<>>
    BY <2>1 DEF head, GENESIS
  <2>2. CASE log # <<>>
    <3>1. n \in DOMAIN log /\ n >= 1
      BY <1>2, <2>2
    <3>2. log[n] \in Written
      BY <1>2, <3>1
    <3>3. log[n].prev_chain \in Seq(Bodies) /\ log[n].chain \in Seq(Bodies)
      BY <3>2 DEF Written
    <3>4. log[n].chain = LinkAt(log[n], log[n].chain[n].ts) /\ Len(log[n].prev_chain) = n - 1
      BY <3>1 DEF Untouched
    <3>5. Len(log[n].chain) = n
      BY <3>3, <3>4, <1>2 DEF LinkAt, sha256
    <3> QED
      BY <2>2, <3>3, <3>5 DEF head
  <2> QED
    BY <2>1, <2>2
<1>6. r.prev_chain = head(log) /\ r.chain = Append(head(log), body)
  BY DEF MakeReceipt, sha256
<1>7. r.chain \in Seq(Bodies) /\ r.chain[n + 1] = body
  BY <1>4, <1>5, <1>6
<1>8. r \in Written
  BY <1>2, <1>3, <1>5, <1>6, <1>7 DEF MakeReceipt, Written, EntryType
<1>9. r.chain = LinkAt(r, r.chain[n + 1].ts) /\ r.chain[n + 1].ts \in Nat
  <2>1. r.chain[n + 1].ts = e.ts /\ e.ts \in Nat
    BY <1>3, <1>7 DEF Body, EntryType
  <2>2. [BodyOf(r) EXCEPT !.ts = e.ts] = body
    BY DEF BodyOf, Body, MakeReceipt
  <2> QED
    BY <2>1, <2>2, <1>6 DEF LinkAt, sha256
<1> HIDE DEF r, body
<1>10. /\ log' \in Seq(Written) /\ Len(log') = n + 1 /\ log'[n + 1] = r
       /\ \A i \in 1 .. n : log'[i] = log[i]
  BY <1>2, <1>8, AppendProperties
<1>11. DOMAIN log = 1 .. n /\ DOMAIN log' = 1 .. n + 1
  BY <1>2, <1>10
<1>12. verify_integrity(log')
  <2> SUFFICES ASSUME NEW i \in DOMAIN log'
               PROVE  log'[i].prev_chain = IF i = 1 THEN GENESIS ELSE log'[i - 1].chain
    BY DEF verify_integrity
  <2>1. CASE i = n + 1
    <3>1. CASE n = 0
      BY <2>1, <3>1, <1>2, <1>6, <1>10 DEF head
    <3>2. CASE n # 0
      <4>1. n \in 1 .. n /\ log # <<>> /\ i # 1 /\ i - 1 = n
        BY <2>1, <3>2, <1>2
      <4> QED
        BY <2>1, <4>1, <1>6, <1>10 DEF head
    <3> QED
      BY <3>1, <3>2
  <2>2. CASE i # n + 1
    <3>1. i \in 1 .. n /\ (i # 1 => i - 1 \in 1 .. n)
      BY <2>2, <1>2, <1>11
    <3>2. log[i].prev_chain = IF i = 1 THEN GENESIS ELSE log[i - 1].chain
      BY <3>1, <1>11 DEF Untouched, verify_integrity
    <3> QED
      BY <3>1, <3>2, <1>10
  <2> QED
    BY <2>1, <2>2
<1>13. ASSUME NEW i \in DOMAIN log'
       PROVE  /\ Len(log'[i].prev_chain) = i - 1
              /\ log'[i].chain[i].ts \in Nat
              /\ log'[i].chain = LinkAt(log'[i], log'[i].chain[i].ts)
  <2>1. CASE i = n + 1
    <3>1. log'[i] = r /\ n + 1 - 1 = n
      BY <2>1, <1>2, <1>10
    <3> QED
      BY <2>1, <3>1, <1>5, <1>6, <1>9
  <2>2. CASE i # n + 1
    <3>1. i \in 1 .. n
      BY <2>2, <1>2, <1>11
    <3>2. i \in DOMAIN log /\ log'[i] = log[i]
      BY <3>1, <1>10, <1>11
    <3> QED
      BY <3>2 DEF Untouched
  <2> QED
    BY <2>1, <2>2
<1> QED
  BY <1>10, <1>12, <1>13 DEF Untouched

-----------------------------------------------------------------------------
(* Perturbing *)

\* A changed note is seen by the stricter verifier and not by verify_integrity,
\* whatever follows it in the log (audit_tamper.py _tamper, mechanism_layer.py).
LEMMA NoteChanged ==
    ASSUME NEW rs, Untouched(rs), NEW i \in DOMAIN rs
    PROVE  /\ DOMAIN WithNote(rs, i) = DOMAIN rs
           /\ \A j \in DOMAIN rs : /\ WithNote(rs, i)[j].prev_chain = rs[j].prev_chain
                                   /\ WithNote(rs, i)[j].chain = rs[j].chain
           /\ rs[i].chain = sha256(rs[i].prev_chain, BodyOf(rs[i])) =>
                 rs[i].chain # sha256(rs[i].prev_chain, BodyOf(WithNote(rs, i)[i]))
<1>1. rs[i] \in Written /\ \A j \in DOMAIN rs : rs[j] \in Written
  BY ReceiptUntouched
<1>2. DOMAIN WithNote(rs, i) = DOMAIN rs
  BY DEF WithNote
<1>3. ASSUME NEW j \in DOMAIN rs
      PROVE  /\ WithNote(rs, i)[j].prev_chain = rs[j].prev_chain
             /\ WithNote(rs, i)[j].chain = rs[j].chain
  <2>1. rs[j] \in Written
    BY <1>1
  <2> QED
    BY <2>1 DEF WithNote, Written
<1>4. BodyOf(rs[i]).note # BodyOf(WithNote(rs, i)[i]).note
  <2>1. WithNote(rs, i)[i].note = TAMPERED
    BY <1>1 DEF WithNote, Written
  <2>2. rs[i].note # TAMPERED
    BY <1>1 DEF Written, TAMPERED, Reason, NoNote
  <2> QED
    BY <2>1, <2>2 DEF BodyOf, Body
<1>5. rs[i].prev_chain \in Seq(Bodies)
  BY <1>1 DEF Written
<1>6. sha256(rs[i].prev_chain, BodyOf(rs[i]))
        # sha256(rs[i].prev_chain, BodyOf(WithNote(rs, i)[i]))
  BY <1>4, <1>5, LinkInjective
<1> QED
  BY <1>2, <1>3, <1>6

\* What a log and a perturbation of it look like to the two verifiers.
Reported(rs, changed)   == _verify(rs) => ~_verify(changed)

\* A changed note is reported.
LEMMA TamperSeen ==
    ASSUME NEW rs, Untouched(rs), NEW i \in DOMAIN rs
    PROVE  Reported(rs, WithNote(rs, i)) /\ verify_integrity(WithNote(rs, i))
<1>1. Reported(rs, WithNote(rs, i))
  <2> SUFFICES ASSUME _verify(rs), _verify(WithNote(rs, i)) PROVE FALSE
    BY DEF Reported
  <2>1. rs[i].chain = sha256(rs[i].prev_chain, BodyOf(rs[i]))
    BY DEF _verify
  <2>2. WithNote(rs, i)[i].chain
          = sha256(WithNote(rs, i)[i].prev_chain, BodyOf(WithNote(rs, i)[i]))
    BY NoteChanged DEF _verify
  <2> QED
    BY <2>1, <2>2, NoteChanged
<1>2. verify_integrity(WithNote(rs, i))
  <2> SUFFICES ASSUME NEW j \in DOMAIN rs
               PROVE  WithNote(rs, i)[j].prev_chain
                        = IF j = 1 THEN GENESIS ELSE WithNote(rs, i)[j - 1].chain
    BY NoteChanged DEF verify_integrity
  <2>1. j = 1 \/ j - 1 \in DOMAIN rs
    BY ReceiptUntouched DEF Untouched
  <2> QED
    BY <2>1, NoteChanged, ReceiptUntouched
<1> QED
  BY <1>1, <1>2

\* The last receipt of a log that is not empty.
LEMMA LastReceipt ==
    ASSUME NEW rs, Untouched(rs), rs # <<>>
    PROVE  Len(rs) \in DOMAIN rs /\ DOMAIN rs = 1 .. Len(rs) /\ Len(rs) \in Nat \ {0}
<1>1. rs \in Seq(Written)
  BY DEF Untouched
<1> QED
  BY <1>1

\* The stricter verifier asks for all verify_integrity asks for.
LEMMA StricterThanLinks ==
    ASSUME NEW rs, NEW changed, ~verify_integrity(changed)
    PROVE  Reported(rs, changed)
BY DEF Reported, _verify, verify_integrity

\* One more receipt: the links hold exactly when it names the last one.
LEMMA LinksOfAppend ==
    ASSUME NEW S, NEW rs \in Seq(S), rs # <<>>, verify_integrity(rs), NEW r \in S
    PROVE  verify_integrity(Append(rs, r)) <=> r.prev_chain = rs[Len(rs)].chain
<1> DEFINE n == Len(rs)
           longer == Append(rs, r)
<1>1. n \in Nat \ {0} /\ DOMAIN rs = 1 .. n
  OBVIOUS
<1>2. /\ DOMAIN longer = 1 .. n + 1 /\ longer[n + 1] = r
      /\ \A i \in 1 .. n : longer[i] = rs[i]
  BY AppendProperties
<1>3. ASSUME NEW i \in 1 .. n
      PROVE  longer[i].prev_chain = IF i = 1 THEN GENESIS ELSE longer[i - 1].chain
  <2>1. i # 1 => i - 1 \in 1 .. n
    BY <1>1
  <2>2. rs[i].prev_chain = IF i = 1 THEN GENESIS ELSE rs[i - 1].chain
    BY <1>1 DEF verify_integrity
  <2> QED
    BY <1>2, <2>1, <2>2
<1> HIDE DEF longer
<1>4. verify_integrity(longer)
        <=> longer[n + 1].prev_chain = IF n + 1 = 1 THEN GENESIS ELSE longer[n + 1 - 1].chain
  <2>1. \A i \in 1 .. n + 1 : i \in 1 .. n \/ i = n + 1
    BY <1>1
  <2>2. n + 1 \in 1 .. n + 1
    BY <1>1
  <2> QED
    BY <1>2, <1>3, <2>1, <2>2 DEF verify_integrity
<1>5. n + 1 # 1 /\ n + 1 - 1 = n /\ n \in 1 .. n
  BY <1>1
<1> QED
  BY <1>2, <1>4, <1>5 DEF longer

\* A receipt twice in a row does not extend itself (audit_tamper.py _replay).
LEMMA ReplaySeen ==
    ASSUME NEW rs, Untouched(rs), rs # <<>>
    PROVE  /\ Reported(rs, Append(rs, rs[Len(rs)]))
           /\ ~verify_integrity(Append(rs, rs[Len(rs)]))
<1>1. Len(rs) \in DOMAIN rs /\ rs \in Seq(Written) /\ verify_integrity(rs)
  BY LastReceipt DEF Untouched
<1>2. rs[Len(rs)] \in Written /\ rs[Len(rs)].prev_chain # rs[Len(rs)].chain
  BY <1>1, ReceiptUntouched
<1>3. ~verify_integrity(Append(rs, rs[Len(rs)]))
  BY <1>1, <1>2, LinksOfAppend
<1> QED
  BY <1>3, StricterThanLinks

\* A receipt whose link is GENESIS names the right head and covers nothing
\* (audit_tamper.py _splice).
LEMMA SpliceSeen ==
    ASSUME Untouched(log), log # <<>>
    PROVE  /\ Reported(log, Append(log, Fake(GENESIS)))
           /\ verify_integrity(Append(log, Fake(GENESIS)))
<1> DEFINE n == Len(log)
           fake == Fake(GENESIS)
           longer == Append(log, fake)
<1>1. n \in Nat \ {0} /\ log \in Seq(Written) /\ n \in DOMAIN log
  BY LastReceipt DEF Untouched
<1>2. fake.prev_chain = log[n].chain /\ fake.chain = GENESIS
  BY <1>1 DEF Fake, head
<1>3. log \in Seq(Written \cup {fake}) /\ fake \in Written \cup {fake}
  BY <1>1
<1>4. verify_integrity(longer)
  BY <1>2, <1>3, LinksOfAppend DEF Untouched
<1>5. ~_verify(longer)
  <2>1. n + 1 \in DOMAIN longer /\ longer[n + 1] = fake
    BY <1>1, <1>3, AppendProperties
  <2>2. log[n].chain \in Seq(Bodies)
    BY <1>1, ReceiptUntouched DEF Written
  <2>3. sha256(fake.prev_chain, BodyOf(fake)) # fake.chain
    BY <1>2, <2>2, LinkGrows
  <2> QED
    BY <2>1, <2>3 DEF _verify
<1> QED
  BY <1>4, <1>5 DEF Reported

\* Behind a gap a receipt names the one that is gone (audit_tamper.py _visible_gap).
LEMMA GapSeen ==
    ASSUME NEW rs, Untouched(rs), NEW i \in 1 .. Len(rs) - 1
    PROVE  Reported(rs, Dropped(rs, i)) /\ ~verify_integrity(Dropped(rs, i))
<1> DEFINE n == Len(rs)
           rest == Dropped(rs, i)
<1>1. rs \in Seq(Written) /\ n \in Nat /\ i \in DOMAIN rs /\ i + 1 \in DOMAIN rs /\ i + 1 # 1
  BY DEF Untouched
<1>2. DOMAIN rest = 1 .. n - 1 /\ i \in DOMAIN rest /\ rest[i] = rs[i + 1]
  BY <1>1 DEF Dropped
<1>3. i # 1 => rest[i - 1] = rs[i - 1]
  <2>1. i # 1 => i - 1 \in 1 .. n - 1 /\ i - 1 < i
    BY <1>1
  <2> QED
    BY <2>1 DEF Dropped
<1>4. rs[i + 1].prev_chain = rs[i].chain
  <2>1. rs[i + 1].prev_chain = rs[i + 1 - 1].chain /\ i + 1 - 1 = i
    BY <1>1, ReceiptUntouched
  <2> QED
    BY <2>1
<1>5. rs[i].chain # rs[i].prev_chain /\ rs[i].chain # GENESIS
      /\ rs[i].prev_chain = IF i = 1 THEN GENESIS ELSE rs[i - 1].chain
  BY <1>1, ReceiptUntouched
<1>6. rest[i].prev_chain # IF i = 1 THEN GENESIS ELSE rest[i - 1].chain
  BY <1>2, <1>3, <1>4, <1>5
<1>7. ~verify_integrity(rest)
  BY <1>2, <1>6 DEF verify_integrity
<1> QED
  BY <1>7, StricterThanLinks

\* A note is changed and a receipt follows that names the right head: only the
\* note gives it away (mechanism_layer.py _p4_audit_detect).
LEMMA ForgerySeen ==
    ASSUME Untouched(log), log # <<>>
    PROVE  LET changed == Append(WithNote(log, Len(log)), Fake(ForgedLink)) IN
           Reported(log, changed) /\ verify_integrity(changed)
<1> DEFINE n == Len(log)
           noted == WithNote(log, n)
           fake == Fake(ForgedLink)
           changed == Append(noted, fake)
           S == Written \cup {noted[n], fake}
<1>1. n \in Nat \ {0} /\ log \in Seq(Written) /\ n \in DOMAIN log /\ DOMAIN log = 1 .. n
  BY LastReceipt DEF Untouched
<1>2. noted \in Seq(S) /\ Len(noted) = n /\ noted # <<>>
  <2>1. noted[n] = [log[n] EXCEPT !.note = TAMPERED] /\ noted = [log EXCEPT ![n] = noted[n]]
    BY <1>1 DEF WithNote
  <2>2. log \in Seq(S) /\ noted[n] \in S
    BY <1>1
  <2> HIDE DEF noted, S
  <2>3. noted \in Seq(S) /\ Len(noted) = n
    BY <1>1, <2>1, <2>2, ExceptSeq
  <2> QED
    BY <1>1, <2>3
<1>3. fake.prev_chain = log[n].chain
  BY <1>1 DEF Fake, head
<1>4. noted[n].chain = log[n].chain /\ verify_integrity(noted)
  BY <1>1, NoteChanged, TamperSeen
<1>5. verify_integrity(changed)
  <2>1. fake \in S
    OBVIOUS
  <2> HIDE DEF noted, fake, S
  <2> QED
    BY <1>2, <1>3, <1>4, <2>1, LinksOfAppend
<1>6. changed[n] = noted[n] /\ n \in DOMAIN changed
  <2>1. fake \in S /\ n \in 1 .. n
    BY <1>1
  <2> HIDE DEF noted, fake, S
  <2>2. /\ changed \in Seq(S) /\ Len(changed) = n + 1
        /\ \A i \in 1 .. n : changed[i] = noted[i]
    BY <1>2, <2>1, AppendProperties
  <2> HIDE DEF changed
  <2> QED
    BY <1>1, <2>1, <2>2
<1>7. Reported(log, changed)
  <2> SUFFICES ASSUME _verify(log), _verify(changed) PROVE FALSE
    BY DEF Reported
  <2>1. log[n].chain = sha256(log[n].prev_chain, BodyOf(log[n]))
    BY <1>1 DEF _verify
  <2>2. noted[n].chain = sha256(noted[n].prev_chain, BodyOf(noted[n]))
    <3> HIDE DEF noted, changed
    <3> QED
      BY <1>6 DEF _verify
  <2> QED
    BY <1>1, <2>1, <2>2, NoteChanged
<1> QED
  BY <1>5, <1>7

-----------------------------------------------------------------------------
(* The study *)

\* What a perturbation leaves for the two verifiers, by its name.
LEMMA TrialSeen ==
    ASSUME Untouched(log), kind = "none", Trial
    PROVE  /\ kind' # "none" /\ snapshot' = log
           /\ Reported(log, log')
           /\ kind' \in {"replay", "visible_gap"} => ~verify_integrity(log')
<1>1. CASE _tamper
  BY <1>1, TamperSeen DEF _tamper, Perturb
<1>2. CASE _replay
  BY <1>2, ReplaySeen DEF _replay, Perturb
<1>3. CASE _splice
  BY <1>3, SpliceSeen DEF _splice, Perturb
<1>4. CASE _visible_gap
  BY <1>4, GapSeen DEF _visible_gap, Perturb
<1>5. CASE _p4_forge
  BY <1>5, ForgerySeen DEF _p4_forge, Perturb
<1> QED
  BY <1>1, <1>2, <1>3, <1>4, <1>5 DEF Trial

\* The three properties together, on top of what an untouched log is.
StudyIInv == StudyInv /\ PerturbationsAreSeen /\ IntegritySeesLinks

\* The study keeps its copy untouched and puts it back, so that every trial
\* begins with a log that append has written (audit_tamper.py).
THEOREM StudyInvariant == StudySpec => []StudyIInv
<1>1. StudyInit => StudyIInv
  <2> SUFFICES ASSUME StudyInit PROVE StudyIInv
    OBVIOUS
  <2>1. Untouched(<<>>)
    BY DEF Untouched, verify_integrity
  <2> QED
    BY <2>1 DEF StudyInit, StudyIInv, StudyInv, PerturbationsAreSeen, IntegritySeesLinks,
                Untouched
<1>2. StudyIInv /\ [StudyNext]_studyVars => StudyIInv'
  <2> SUFFICES ASSUME StudyIInv, [StudyNext]_studyVars PROVE StudyIInv'
    OBVIOUS
  <2>1. CASE Write
    <3>1. kind = "none" /\ kind' = "none" /\ Untouched(log)
      BY <2>1 DEF Write, StudyIInv, StudyInv
    <3>2. Untouched(log')
      BY <2>1, <3>1, WriteUntouched
    <3> QED
      BY <3>1, <3>2 DEF StudyIInv, StudyInv, PerturbationsAreSeen, IntegritySeesLinks, Untouched
  <2>2. CASE Trial
    <3>1. kind = "none" /\ Untouched(log)
      BY <2>2 DEF Trial, _tamper, _replay, _splice, _visible_gap, _p4_forge, Perturb,
                  StudyIInv, StudyInv
    <3>2. /\ kind' # "none" /\ snapshot' = log
          /\ Reported(log, log')
          /\ kind' \in {"replay", "visible_gap"} => ~verify_integrity(log')
      BY <2>2, <3>1, TrialSeen
    <3> QED
      BY <3>1, <3>2 DEF StudyIInv, StudyInv, PerturbationsAreSeen, IntegritySeesLinks, Reported
  <2>3. CASE Restore
    BY <2>3 DEF Restore, StudyIInv, StudyInv, PerturbationsAreSeen, IntegritySeesLinks,
                Untouched
  <2>4. CASE UNCHANGED studyVars
    BY <2>4 DEF studyVars, StudyIInv, StudyInv, PerturbationsAreSeen, IntegritySeesLinks
  <2> QED
    BY <2>1, <2>2, <2>3, <2>4 DEF StudyNext
<1> QED
  BY <1>1, <1>2, PTL DEF StudySpec

\* The stricter verifier reports every perturbation of a log it accepts
\* (audit_tamper.py _verify).
THEOREM PerturbationsSeen == StudySpec => []PerturbationsAreSeen
BY StudyInvariant, PTL DEF StudyIInv

\* verify_integrity accepts every log that append has written and nobody touched,
\* and reports a replay and a gap (audit.py verify_integrity).
THEOREM LinksSeen == StudySpec => []IntegritySeesLinks
BY StudyInvariant, PTL DEF StudyIInv

\* A log nobody touched passes the stricter verifier exactly when the clock
\* stood still in every append (audit.py:60-68, audit_tamper.py:62).
THEOREM HonestVerified == StudySpec => []HonestLogsVerify
<1>1. StudyInv => HonestLogsVerify
  <2> SUFFICES ASSUME StudyInv, kind = "none"
               PROVE  _verify(log) <=> \A i \in DOMAIN log : log[i].timestamp = log[i].chain[i].ts
    BY DEF HonestLogsVerify
  <2>1. Untouched(log)
    BY DEF StudyInv
  <2>2. ASSUME NEW i \in DOMAIN log
        PROVE  log[i].chain = sha256(log[i].prev_chain, BodyOf(log[i]))
                 <=> log[i].timestamp = log[i].chain[i].ts
    <3> DEFINE t == log[i].chain[i].ts
    <3>1. log[i] \in Written /\ log[i].prev_chain \in Seq(Bodies)
      BY <2>1, ReceiptUntouched DEF Written
    <3>2. log[i].chain = LinkAt(log[i], t)
      BY <2>1 DEF Untouched
    <3>3. BodyOf(log[i]).ts = log[i].timestamp
      BY DEF BodyOf, Body
    <3>4. [BodyOf(log[i]) EXCEPT !.ts = t].ts = t
      BY DEF BodyOf, Body
    <3>5. log[i].timestamp = t => [BodyOf(log[i]) EXCEPT !.ts = t] = BodyOf(log[i])
      BY DEF BodyOf, Body
    <3>6. LinkAt(log[i], t) = sha256(log[i].prev_chain, BodyOf(log[i]))
            => [BodyOf(log[i]) EXCEPT !.ts = t] = BodyOf(log[i])
      BY <3>1, LinkInjective DEF LinkAt
    <3> QED
      BY <3>2, <3>3, <3>4, <3>5, <3>6 DEF LinkAt
  <2> QED
    BY <2>1, <2>2 DEF _verify, Untouched, verify_integrity
<1> QED
  BY <1>1, StudyInvariant, PTL DEF StudyIInv
=============================================================================
