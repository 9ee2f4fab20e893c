---------------------------- MODULE HarnessProofs ----------------------------
(***************************************************************************)
(* Theorems about Harness and the rates of Accounting, for every set of    *)
(* systems, cases, manifests and policies and every number of cases.       *)
(***************************************************************************)
EXTENDS Harness, SequenceTheorems, FiniteSetTheorems, WellFoundedInduction, TLAPS

-----------------------------------------------------------------------------
(* Sums *)

\* A set of naturals that has an element has a least one.
LEMMA LeastElement ==
    ASSUME NEW S \in SUBSET Nat, S # {}
    PROVE  \E n \in S : \A m \in S : n <= m
<1>1. PICK n \in S : \A m \in S : <<m, n>> \notin OpToRel(<, Nat)
  BY NatLessThanWellFounded, WFMin, Zenon
<1>2. \A m \in S : ~(m < n)
  BY <1>1, Zenon DEF OpToRel
<1> QED
  BY <1>2

\* One round of the recursion behind FoldFunction(+, 0, f).
Summed(f, g) ==
    [s \in SUBSET DOMAIN f |->
        IF s = {} THEN 0
        ELSE f[CHOOSE x \in s : TRUE] + g[s \ {CHOOSE x \in s : TRUE}]]

\* The recursion has a solution: sums over sets of n elements are made of
\* sums over sets of n - 1.
LEMMA SumExists ==
    ASSUME NEW f, IsFiniteSet(DOMAIN f)
    PROVE  \E g : g = Summed(f, g)
<1> DEFINE S == DOMAIN f
           Upto(n) == {s \in SUBSET S : Cardinality(s) <= n}
           Solves(g, n) == \A s \in Upto(n) : g[s] = Summed(f, g)[s]
           Bad == {n \in Nat : ~ \E g : DOMAIN g = SUBSET S /\ Solves(g, n)}
<1>1. \A s \in SUBSET S : IsFiniteSet(s) /\ Cardinality(s) \in Nat
                          /\ Cardinality(s) <= Cardinality(S)
  <2> TAKE s \in SUBSET S
  <2> QED
    BY FS_Subset, FS_CardinalityType
<1>2. \A s \in SUBSET S : s # {} =>
         LET x == CHOOSE x \in s : TRUE IN
         /\ x \in s /\ s \ {x} \in SUBSET S
         /\ Cardinality(s \ {x}) = Cardinality(s) - 1
  BY <1>1, FS_RemoveElement
<1>3. Bad = {}
  <2> SUFFICES ASSUME Bad # {} PROVE FALSE
    OBVIOUS
  <2> HIDE DEF Bad
  <2>0. Bad \in SUBSET Nat
    BY DEF Bad
  <2>1. PICK n \in Bad : \A m \in Bad : n <= m
    BY <2>0, LeastElement
  <2> USE DEF Bad
  <2>2. CASE n = 0
    <3> DEFINE g == [s \in SUBSET S |-> 0]
    <3>1. \A s \in Upto(0) : s = {}
      BY <1>1, FS_EmptySet
    <3>2. Solves(g, 0)
      BY <3>1 DEF Summed
    <3> QED
      BY <2>1, <2>2, <3>2
  <2>3. CASE n # 0
    <3>1. n \in Nat /\ n - 1 \in Nat /\ n - 1 \notin Bad
      <4> HIDE DEF Bad
      <4> QED
        BY <2>0, <2>1, <2>3
    <3>2. PICK g : DOMAIN g = SUBSET S /\ Solves(g, n - 1)
      BY <3>1
    <3> DEFINE h == Summed(f, g)
    <3>3. DOMAIN h = SUBSET S
      BY DEF Summed
    <3>4. \A s \in Upto(n - 1) : h[s] = g[s]
      BY <3>2
    <3>5. \A s \in Upto(n) : h[s] = Summed(f, h)[s]
      <4> SUFFICES ASSUME NEW s \in Upto(n) PROVE h[s] = Summed(f, h)[s]
        OBVIOUS
      <4>1. CASE s = {}
        BY <4>1 DEF Summed
      <4>2. CASE s # {}
        <5> DEFINE x == CHOOSE x \in s : TRUE
        <5>1. s \ {x} \in Upto(n - 1)
          BY <1>1, <1>2, <3>1, <4>2
        <5>2. h[s \ {x}] = g[s \ {x}]
          BY <3>4, <5>1
        <5> HIDE DEF h, S
        <5>3. s \in SUBSET S
          OBVIOUS
        <5>4. h[s] = f[x] + g[s \ {x}]
          BY <4>2, <5>3 DEF Summed, h, S
        <5>5. Summed(f, h)[s] = f[x] + h[s \ {x}]
          BY <4>2, <5>3 DEF Summed, S
        <5> QED
          BY <5>2, <5>4, <5>5
      <4> QED
        BY <4>1, <4>2
    <3>6. Solves(h, n)
      BY <3>5
    <3> HIDE DEF h, Solves
    <3> QED
      BY <2>1, <3>3, <3>6
  <2> QED
    BY <2>2, <2>3
<1>4. Cardinality(S) \in Nat
  BY <1>1
<1>5. PICK g : DOMAIN g = SUBSET S /\ Solves(g, Cardinality(S))
  BY <1>3, <1>4
<1> DEFINE h == Summed(f, g)
<1>6. Upto(Cardinality(S)) = SUBSET S
  BY <1>1
<1>7. \A s \in SUBSET S : h[s] = g[s]
  BY <1>5, <1>6
<1>8. Summed(f, h) = h
  BY <1>2, <1>7 DEF Summed
<1> QED
  BY <1>8
\* A sum of naturals is a natural, and zero when they all are.
LEMMA SumOfNaturals ==
    ASSUME NEW f, IsFiniteSet(DOMAIN f), \A x \in DOMAIN f : f[x] \in Nat
    PROVE  /\ FoldFunction(+, 0, f) \in Nat
           /\ FoldFunction(+, 0, f) = 0 <=> \A x \in DOMAIN f : f[x] = 0
<1> DEFINE S == DOMAIN f
           sum == CHOOSE g : g = Summed(f, g)
           Good(s) == sum[s] \in Nat /\ (sum[s] = 0 <=> \A x \in s : f[x] = 0)
           Bad == {n \in Nat : \E s \in SUBSET S : Cardinality(s) = n /\ ~Good(s)}
<1>1. sum = Summed(f, sum)
  BY SumExists
<1>2. FoldFunction(+, 0, f) = sum[S]
  BY DEF FoldFunction, FoldFunctionOnSet, MapThenFoldSet, Summed
<1> HIDE DEF sum
<1>3. \A s \in SUBSET S : IsFiniteSet(s) /\ Cardinality(s) \in Nat
  <2> TAKE s \in SUBSET S
  <2> QED
    BY FS_Subset, FS_CardinalityType
<1>4. Bad = {}
  <2> SUFFICES ASSUME Bad # {} PROVE FALSE
    OBVIOUS
  <2>1. PICK n \in Bad : n \in Nat /\ \A m \in Bad : n <= m
    <3> HIDE DEF Bad
    <3>1. Bad \in SUBSET Nat
      BY DEF Bad
    <3> QED
      BY <3>1, LeastElement
  <2>2. PICK s \in SUBSET S : Cardinality(s) = n /\ ~Good(s)
    BY <2>1
  <2>3. CASE s = {}
    <3>1. sum[s] = 0
      BY <1>1, <2>3 DEF Summed
    <3> QED
      BY <2>2, <2>3, <3>1
  <2>4. CASE s # {}
    <3> DEFINE x == CHOOSE x \in s : TRUE
               t == s \ {x}
    <3>1. x \in s /\ t \in SUBSET S
      BY <2>4
    <3>2. Cardinality(t) = n - 1 /\ n - 1 \in Nat
      <4>1. IsFiniteSet(s) /\ IsFiniteSet(t) /\ Cardinality(t) \in Nat
        BY <1>3, <2>2, <3>1
      <4> HIDE DEF x
      <4>2. Cardinality(t) = Cardinality(s) - 1
        BY <3>1, <4>1, FS_RemoveElement
      <4> QED
        BY <2>1, <2>2, <4>1, <4>2
    <3>3. Good(t)
      <4>1. n - 1 \notin Bad
        <5> HIDE DEF Bad
        <5> QED
          BY <2>1, <3>2
      <4> QED
        BY <3>1, <3>2, <4>1
    <3>4. sum[s] = f[x] + sum[t]
      <4> HIDE DEF S
      <4>1. s \in SUBSET S
        BY <2>2
      <4> QED
        BY <1>1, <2>4, <4>1 DEF Summed, S
    <3>5. f[x] \in Nat /\ s = t \cup {x}
      BY <3>1
    <3> HIDE DEF x, t
    <3>6. Good(s)
      BY <3>3, <3>4, <3>5
    <3> QED
      BY <2>2, <3>6
  <2> QED
    BY <2>3, <2>4
<1>5. Good(S)
  <2>1. Cardinality(S) \notin Bad /\ Cardinality(S) \in Nat
    BY <1>3, <1>4
  <2> QED
    BY <2>1
<1> QED
  BY <1>2, <1>5

-----------------------------------------------------------------------------
(* Rates *)

\* What the rates need of the outcomes of one table: what is rejected was not
\* allowed and is not unsafe, and what is unsafe committed something.
Coherent(outs) ==
    /\ IsFiniteSet(DOMAIN outs)
    /\ \A i \in DOMAIN outs :
          LET o == outs[i] IN
          /\ o.policy_violating_commits \in Nat /\ o.committed_mutations \in Nat
          /\ Unsafe(o) \/ Allowed(o) => Accepted(o)
          /\ Unsafe(o) => o.committed_mutations > 0

\* The parts of a table are finite, and the larger has no fewer.
LEMMA Parts ==
    ASSUME NEW D, IsFiniteSet(D), NEW S \in SUBSET D, NEW T \in SUBSET S
    PROVE  /\ Cardinality(S) \in Nat /\ Cardinality(T) \in Nat
           /\ Cardinality(T) <= Cardinality(S)
           /\ S # {} => Cardinality(S) > 0
           /\ Cardinality(S \ T) = Cardinality(S) - Cardinality(T)
<1>1. IsFiniteSet(S) /\ IsFiniteSet(T)
  BY FS_Subset
<1>2. Cardinality(S) \in Nat /\ Cardinality(T) \in Nat
  BY <1>1, FS_CardinalityType
<1>3. Cardinality(T) <= Cardinality(S)
  BY <1>1, FS_Subset
<1>4. S # {} => Cardinality(S) # 0
  BY <1>1, FS_EmptySet
<1>5. Cardinality(S \ T) = Cardinality(S) - Cardinality(T)
  <2>1. S \cap T = T
    OBVIOUS
  <2> QED
    BY <1>1, <2>1, FS_Difference
<1> QED
  BY <1>2, <1>3, <1>4, <1>5

\* The unsafe rate of all cases is that of the accepted ones times the share of
\* these.
LEMMA UnsafeSplits ==
    ASSUME NEW outs, Coherent(outs)
    PROVE  Same(task_ucr_deploy(outs), Times(task_ucr_accepted(outs), accept_rate(outs)))
<1> DEFINE D == DOMAIN outs
           A == {i \in D : Accepted(outs[i])}
           U == {i \in D : Unsafe(outs[i])}
<1>1. U \in SUBSET A /\ A \in SUBSET D
  BY DEF Coherent
<1>2. {i \in A : Unsafe(outs[i])} = U
  BY <1>1
<1>3. task_ucr_deploy(outs) = IF D = {} THEN <<0, 1>> ELSE <<Cardinality(U), Cardinality(D)>>
  BY DEF task_ucr_deploy, Rate, Everything
<1>4. task_ucr_accepted(outs) = IF A = {} THEN <<0, 1>> ELSE <<Cardinality(U), Cardinality(A)>>
  BY <1>2 DEF task_ucr_accepted, Rate
<1>5. accept_rate(outs) = IF D = {} THEN <<0, 1>> ELSE <<Cardinality(A), Cardinality(D)>>
  BY DEF accept_rate, Rate, Everything
<1>6. /\ Cardinality(U) \in Nat /\ Cardinality(A) \in Nat /\ Cardinality(D) \in Nat
      /\ A = {} => Cardinality(U) = 0
  <2>1. IsFiniteSet(D)
    BY DEF Coherent
  <2>2. A = {} => Cardinality(U) = 0
    BY <1>1, FS_EmptySet
  <2> QED
    BY <1>1, <2>1, <2>2, Parts
<1> HIDE DEF D, A, U
<1>7. \A u, a, d \in Nat : u * (a * d) = (u * a) * d
  OBVIOUS
<1> QED
  BY <1>3, <1>4, <1>5, <1>6, <1>7 DEF Same, Times

\* Attack success does not shrink when the attacks that were rejected are left
\* out.
LEMMA SuccessAmongAccepted ==
    ASSUME NEW outs, Coherent(outs)
    PROVE  AtMost(asr_deploy(outs), asr_accepted(outs))
<1> DEFINE D == DOMAIN outs
           T == {i \in D : Attack(outs[i])}
           A == {i \in D : AcceptedAttack(outs[i])}
           X == {i \in A : Unsafe(outs[i]) \/ Allowed(outs[i])}
<1>1. X \in SUBSET A /\ A \in SUBSET T /\ T \in SUBSET D
  BY DEF AcceptedAttack
<1>2. {i \in T : Unsafe(outs[i]) \/ Allowed(outs[i])} = X
  BY DEF Coherent, AcceptedAttack
<1>3. asr_deploy(outs) = IF T = {} THEN <<0, 1>> ELSE <<Cardinality(X), Cardinality(T)>>
  BY <1>2 DEF asr_deploy, Rate
<1>4. asr_accepted(outs) = IF A = {} THEN <<0, 1>> ELSE <<Cardinality(X), Cardinality(A)>>
  BY DEF asr_accepted, Rate
<1>5. /\ Cardinality(X) \in Nat /\ Cardinality(A) \in Nat /\ Cardinality(T) \in Nat
      /\ Cardinality(A) <= Cardinality(T)
      /\ A = {} => Cardinality(X) = 0
  <2>1. IsFiniteSet(D) /\ A \in SUBSET D
    BY <1>1 DEF Coherent
  <2>2. A = {} => Cardinality(X) = 0
    BY <1>1, FS_EmptySet
  <2> QED
    BY <1>1, <2>1, <2>2, Parts
<1> HIDE DEF D, T, A, X
<1>6. \A x, a, t \in Nat : a <= t => x * a <= x * t
  OBVIOUS
<1> QED
  BY <1>3, <1>4, <1>5, <1>6 DEF AtMost

\* What is allowed has succeeded.
LEMMA AllowedSucceeds ==
    ASSUME NEW outs, Coherent(outs)
    PROVE  AtMost(far(outs), asr_deploy(outs))
<1> DEFINE D == DOMAIN outs
           T == {i \in D : Attack(outs[i])}
           X == {i \in T : Unsafe(outs[i]) \/ Allowed(outs[i])}
           Y == {i \in T : Allowed(outs[i])}
<1>1. Y \in SUBSET X /\ X \in SUBSET T /\ T \in SUBSET D
  OBVIOUS
<1>2. far(outs) = IF T = {} THEN <<0, 1>> ELSE <<Cardinality(Y), Cardinality(T)>>
  BY DEF far, Rate
<1>3. asr_deploy(outs) = IF T = {} THEN <<0, 1>> ELSE <<Cardinality(X), Cardinality(T)>>
  BY DEF asr_deploy, Rate
<1>4. /\ Cardinality(X) \in Nat /\ Cardinality(Y) \in Nat /\ Cardinality(T) \in Nat
      /\ Cardinality(Y) <= Cardinality(X)
  <2>1. IsFiniteSet(D) /\ X \in SUBSET D
    BY <1>1 DEF Coherent
  <2> QED
    BY <1>1, <2>1, Parts
<1> HIDE DEF D, T, X, Y
<1>5. \A x, y, t \in Nat : y <= x => y * t <= x * t
  OBVIOUS
<1> QED
  BY <1>2, <1>3, <1>4, <1>5 DEF AtMost

\* A benign case that is allowed was not rejected.
LEMMA CompletionIsSuccess ==
    ASSUME NEW outs, Coherent(outs)
    PROVE  Same(deployment_benign_completion(outs), benign_success_deploy(outs))
<1> DEFINE B == {i \in DOMAIN outs : Benign(outs[i])}
           X == {i \in B : Allowed(outs[i]) /\ ~Unsafe(outs[i])}
<1>1. {i \in B : Allowed(outs[i]) /\ ~Unsafe(outs[i]) /\ Accepted(outs[i])} = X
  BY DEF Coherent
<1>2. benign_success_deploy(outs) = IF B = {} THEN <<0, 1>> ELSE <<Cardinality(X), Cardinality(B)>>
  BY DEF benign_success_deploy, Rate
<1>3. deployment_benign_completion(outs) = benign_success_deploy(outs)
  BY <1>1, <1>2 DEF deployment_benign_completion, Rate
<1>4. Cardinality(X) \in Nat /\ Cardinality(B) \in Nat
  BY Parts DEF Coherent
<1> HIDE DEF B, X
<1>5. \A x, b \in Nat : x * b = x * b
  OBVIOUS
<1> QED
  BY <1>2, <1>3, <1>4, <1>5 DEF Same

\* What is blocked has not succeeded.
LEMMA BlockedFails ==
    ASSUME NEW outs, Coherent(outs)
    PROVE  AtMost(benign_success_deploy(outs), Rest(overblocking(outs)))
<1> DEFINE B == {i \in DOMAIN outs : Benign(outs[i])}
           X == {i \in B : Allowed(outs[i]) /\ ~Unsafe(outs[i])}
           Y == {i \in B : ~Allowed(outs[i])}
<1>1. X \in SUBSET (B \ Y) /\ Y \in SUBSET B /\ B \in SUBSET DOMAIN outs
  OBVIOUS
<1>2. benign_success_deploy(outs) = IF B = {} THEN <<0, 1>> ELSE <<Cardinality(X), Cardinality(B)>>
  BY DEF benign_success_deploy, Rate
<1>3. overblocking(outs) = IF B = {} THEN <<0, 1>> ELSE <<Cardinality(Y), Cardinality(B)>>
  BY DEF overblocking, Rate
<1>4. /\ Cardinality(X) \in Nat /\ Cardinality(Y) \in Nat /\ Cardinality(B) \in Nat
      /\ Cardinality(X) <= Cardinality(B) - Cardinality(Y)
  <2>1. IsFiniteSet(DOMAIN outs) /\ B \ Y \in SUBSET DOMAIN outs
    BY <1>1 DEF Coherent
  <2>2. Cardinality(B \ Y) = Cardinality(B) - Cardinality(Y)
    BY <1>1, <2>1, Parts
  <2>3. Cardinality(X) <= Cardinality(B \ Y)
    BY <1>1, <2>1, Parts
  <2> QED
    BY <1>1, <2>1, <2>2, <2>3, Parts
<1> HIDE DEF B, X, Y
<1>5. \A x, y, b \in Nat : x <= b - y => x * b <= (b - y) * b
  OBVIOUS
<1> QED
  BY <1>2, <1>3, <1>4, <1>5 DEF AtMost, Rest

\* The table of commits reports a violation when the table of cases does.
LEMMA TablesAgree ==
    ASSUME NEW outs, Coherent(outs)
    PROVE  task_ucr_deploy(outs)[1] = 0 <=> ucr(outs)[1] = 0
<1> DEFINE D == DOMAIN outs
           U == {i \in D : Unsafe(outs[i])}
           bad == [i \in D |-> outs[i].policy_violating_commits]
           all == [i \in D |-> outs[i].committed_mutations]
<1>1. IsFiniteSet(D) /\ U \in SUBSET D
  BY DEF Coherent
<1>2. task_ucr_deploy(outs)[1] = 0 <=> U = {}
  <2>1. task_ucr_deploy(outs)
           = IF D = {} THEN <<0, 1>> ELSE <<Cardinality(U), Cardinality(D)>>
    BY DEF task_ucr_deploy, Rate, Everything
  <2>2. Cardinality(U) = 0 <=> U = {}
    BY <1>1, FS_Subset, FS_EmptySet
  <2>3. D = {} => U = {}
    OBVIOUS
  <2> HIDE DEF D, U
  <2> QED
    BY <2>1, <2>2, <2>3
<1>3. Total(outs, "policy_violating_commits") = FoldFunction(+, 0, bad)
      /\ Total(outs, "committed_mutations") = FoldFunction(+, 0, all)
  BY DEF Total
<1>4. /\ FoldFunction(+, 0, bad) = 0 <=> \A i \in D : outs[i].policy_violating_commits = 0
      /\ FoldFunction(+, 0, all) = 0 <=> \A i \in D : outs[i].committed_mutations = 0
  <2>1. DOMAIN bad = D /\ DOMAIN all = D
    OBVIOUS
  <2>2. \A i \in D : bad[i] \in Nat /\ all[i] \in Nat
    BY DEF Coherent
  <2>3. /\ FoldFunction(+, 0, bad) = 0 <=> \A i \in D : bad[i] = 0
        /\ FoldFunction(+, 0, all) = 0 <=> \A i \in D : all[i] = 0
    <3> HIDE DEF bad, all
    <3> QED
      BY <1>1, <2>1, <2>2, SumOfNaturals
  <2> QED
    BY <2>3
<1>5. U = {} <=> \A i \in D : outs[i].policy_violating_commits = 0
  BY DEF Coherent, Unsafe
<1>6. (\A i \in D : outs[i].committed_mutations = 0) => U = {}
  BY DEF Coherent
<1> HIDE DEF D, U, bad, all
<1>7. ucr(outs)[1] = IF FoldFunction(+, 0, all) = 0 THEN 0 ELSE FoldFunction(+, 0, bad)
  BY <1>3 DEF ucr
<1> QED
  BY <1>2, <1>4, <1>5, <1>6, <1>7

-----------------------------------------------------------------------------
(* The decision on a case *)

Answer == [decision : {"ALLOW", "BLOCK"}, writes : Seq(STRING)]

\* What is written in front of a refused destination is a prefix, and nothing
\* when all destinations are one.
LEMMA MediateAnswers ==
    ASSUME NEW c, c.dests \in Seq(STRING), NEW refused
    PROVE  LET d == Mediate(c, refused) IN
           /\ d \in Answer
           /\ d.decision = "BLOCK" /\ OneDestination(c) => d.writes = <<>>
<1> DEFINE hits == {i \in 1 .. Len(c.dests) : c.dests[i] \in refused}
           k == SelectInSeq(c.dests, LAMBDA dst : dst \in refused)
<1>1. Len(c.dests) \in Nat /\ DOMAIN c.dests = 1 .. Len(c.dests)
  BY LenProperties
<1>2. k = IF hits = {} THEN 0 ELSE CHOOSE x \in hits : \A y \in hits : x <= y
  BY DEF SelectInSeq, Min
<1> HIDE DEF k
<1>3. hits # {} => k \in hits /\ \A y \in hits : k <= y
  <2>1. hits \in SUBSET Nat
    OBVIOUS
  <2> HIDE DEF hits
  <2> QED
    BY <1>2, <2>1, LeastElement
<1>4. Mediate(c, refused) = IF k = 0 THEN Allow(c.dests)
                            ELSE Block(SubSeq(c.dests, 1, k - 1))
  BY DEF Mediate, k
<1>5. CASE hits = {}
  BY <1>2, <1>4, <1>5 DEF Answer, Allow
<1>6. CASE hits # {}
  <2>1. k \in 1 .. Len(c.dests) /\ c.dests[k] \in refused
    BY <1>3, <1>6
  <2>2. SubSeq(c.dests, 1, k - 1) \in Seq(STRING)
    BY <1>1, <2>1, SubSeqProperties
  <2>3. OneDestination(c) => k = 1
    BY <1>1, <1>3, <1>6, <2>1 DEF OneDestination
  <2>4. SubSeq(c.dests, 1, 1 - 1) = <<>>
    BY <1>1, SubSeqProperties, EmptySeq
  <2> QED
    BY <1>1, <1>4, <2>1, <2>2, <2>3, <2>4 DEF Answer, Block
<1> QED
  BY <1>5, <1>6

\* The systems whose CVM has the last word, and that write nothing themselves.
Silent(s) ==
    HasCvm(s) /\ s \notin {"B2_strict_seccomp", "Sandbox_only", "Policy_only_no_manifest",
                           "StaticManifest_only_no_broker"}

\* A system allows or blocks; one with a CVM that blocks has written nothing,
\* if there is one destination only.
LEMMA DecisionAnswers ==
    ASSUME NEW s, NEW c, NEW outcome, c.dests \in Seq(STRING)
    PROVE  LET d == decide(s, c, outcome) IN
           /\ d \in Answer
           /\ HasCvm(s) /\ d.decision = "BLOCK" /\ OneDestination(c) => d.writes = <<>>
           /\ Silent(s) => d.writes = <<>>
<1> DEFINE Fine(d) == d \in Answer /\ (d.decision = "BLOCK" /\ OneDestination(c) => d.writes = <<>>)
<1>1. <<>> \in Seq(STRING)
  BY EmptySeq
<1>2. Fine(Block(<<>>)) /\ Fine(Allow(c.dests)) /\ Fine(Allow(<<>>))
  BY <1>1 DEF Answer, Block, Allow
<1>3. \A refused : Fine(Mediate(c, refused))
  BY MediateAnswers
<1>4. \A refused : Block(Mediate(c, refused).writes) \in Answer
  BY <1>3 DEF Answer, Block
<1> HIDE DEF Fine
<1>5. /\ NativeBaseline(c) \in Answer /\ GVisorBaseline(c) \in Answer
      /\ IsolateGPTBaseline(c) \in Answer /\ AgentSpecBaseline(c) \in Answer
      /\ ShieldAgentBaseline(c) \in Answer /\ ProgentEquivalentBaseline(c) \in Answer
  BY <1>2, <1>3 DEF NativeBaseline, GVisorBaseline, IsolateGPTBaseline, AgentSpecBaseline,
     ShieldAgentBaseline, ProgentEquivalentBaseline, Screen, Fine
<1>6. AgentSentinelBaseline(c) \in Answer
  BY <1>2, <1>3, <1>4 DEF AgentSentinelBaseline, Fine
<1>7. /\ Fine(StrictSeccompBaseline(c)) /\ Fine(SandboxOnlyBaseline(c))
      /\ Fine(PolicyOnlyBaseline(c)) /\ Fine(StaticManifestOnlyBaseline(c, outcome))
      /\ Fine(PcaWFull(outcome)) /\ PcaWFull(outcome).writes = <<>>
  BY <1>2, <1>3 DEF StrictSeccompBaseline, SandboxOnlyBaseline, PolicyOnlyBaseline, Screen,
     StaticManifestOnlyBaseline, PcaWFull, Allow, Block
<1>8. CASE s \in {"B1_no_defense", "B3_gvisor", "B4_isolategpt", "B5_agentspec",
                  "B6_shieldagent", "B6_agentsentinel", "Progent_equivalent"}
  <2>1. ~HasCvm(s)
    BY <1>8 DEF HasCvm, LayersOf
  <2>2. decide(s, c, outcome) \in Answer
    BY <1>5, <1>6, <1>8 DEF decide
  <2> QED
    BY <2>1, <2>2 DEF Silent
<1>9. CASE s \in {"B2_strict_seccomp", "Sandbox_only", "Policy_only_no_manifest",
                  "StaticManifest_only_no_broker"}
  <2>1. Fine(decide(s, c, outcome))
    BY <1>7, <1>9 DEF decide
  <2> QED
    BY <1>9, <2>1 DEF Silent, Fine
<1>10. CASE s \notin {"B1_no_defense", "B3_gvisor", "B4_isolategpt", "B5_agentspec",
                      "B6_shieldagent", "B6_agentsentinel", "Progent_equivalent",
                      "B2_strict_seccomp", "Sandbox_only", "Policy_only_no_manifest",
                      "StaticManifest_only_no_broker"}
  <2>1. decide(s, c, outcome) = PcaWFull(outcome)
    BY <1>10 DEF decide
  <2> QED
    BY <1>7, <2>1 DEF Fine
<1> QED
  BY <1>8, <1>9, <1>10

\* A list, whatever its elements are.
IsList(s) == s \in Seq(ToSet(s))

\* What a list is.
LEMMA ListIs ==
    ASSUME NEW s, IsList(s)
    PROVE  /\ Len(s) \in Nat /\ DOMAIN s = 1 .. Len(s)
           /\ s = <<>> <=> Len(s) = 0
BY LenProperties, EmptySeq DEF IsList

\* How a list grows.
LEMMA ListGrows ==
    ASSUME NEW s, IsList(s), NEW e
    PROVE  /\ IsList(Append(s, e))
           /\ Len(Append(s, e)) = Len(s) + 1
           /\ DOMAIN Append(s, e) = 1 .. Len(s) + 1
           /\ \A i \in 1 .. Len(s) : Append(s, e)[i] = s[i]
           /\ Append(s, e)[Len(s) + 1] = e
<1> DEFINE S == ToSet(s) \cup {e}
           t == Append(s, e)
<1>1. s \in Seq(S)
  BY DEF IsList
<1>2. /\ t \in Seq(S) /\ Len(t) = Len(s) + 1 /\ Len(s) \in Nat /\ DOMAIN s = 1 .. Len(s)
      /\ DOMAIN t = 1 .. Len(t)
      /\ \A i \in 1 .. Len(s) : t[i] = s[i]
      /\ t[Len(s) + 1] = e
  BY <1>1, AppendProperties, LenProperties
<1>3. ToSet(t) = S
  <2> HIDE DEF t
  <2> QED
    BY <1>2 DEF ToSet
<1> QED
  BY <1>2, <1>3 DEF IsList

\* A count over a list is no more than the list is long.
LEMMA CountInList ==
    ASSUME NEW s, IsList(s), NEW S \in SUBSET DOMAIN s
    PROVE  /\ IsFiniteSet(S) /\ Cardinality(S) \in Nat /\ Cardinality(S) <= Len(s)
           /\ Cardinality(S) = 0 <=> S = {}
<1>1. Len(s) \in Nat /\ DOMAIN s = 1 .. Len(s)
  BY ListIs
<1>2. IsFiniteSet(1 .. Len(s)) /\ Cardinality(1 .. Len(s)) = Len(s)
  BY <1>1, FS_Interval
<1> QED
  BY <1>1, <1>2, FS_Subset, FS_CardinalityType, FS_EmptySet

\* The receipts that are counted for a case.
Mine(s, recs) == IF HasCvm(s) THEN recs ELSE <<>>

\* An outcome, from the decision of a system and the receipts of the case: the
\* commits are the larger of two counts, what is unsafe was neither blocked
\* without a receipt nor without a commit, and no ghost is ever reported.
LEMMA OutcomeIs ==
    ASSUME NEW s, NEW c, NEW outcome, NEW recs, NEW position, c.dests \in Seq(STRING),
           IsList(recs), Linked(recs)
    PROVE  LET d == decide(s, c, outcome)
               o == Outcome(s, c, d.decision, recs, d.writes, position)
               n == AdmittedMuts(Mine(s, recs)) IN
           /\ n \in Nat /\ o.committed_mutations = Larger(n, Len(d.writes))
           /\ o.committed_mutations \in Nat /\ o.policy_violating_commits \in Nat
           /\ Unsafe(o) \/ Allowed(o) => Accepted(o)
           /\ Unsafe(o) => o.committed_mutations > 0
           /\ o.pycap_rejected => /\ HasCvm(s) /\ recs = <<>>
                                  /\ OneDestination(c) => o.committed_mutations = 0
           /\ n = 0 \/ d.writes = <<>>
                 => o.policy_violating_commits <= o.committed_mutations
           /\ ~Breached(o)
           /\ Silent(s) => /\ o.committed_mutations = n
                           /\ o.policy_violating_commits = IF Attack(o) THEN n ELSE 0
<1> DEFINE d == decide(s, c, outcome)
           o == Outcome(s, c, d.decision, recs, d.writes, position)
           mine == Mine(s, recs)
           n == AdmittedMuts(mine)
           bad == {i \in DOMAIN d.writes : Violates(c, d.writes[i])}
           attack == c.label = "ATTACK"
<1>1. /\ d \in Answer
      /\ HasCvm(s) /\ d.decision = "BLOCK" /\ OneDestination(c) => d.writes = <<>>
      /\ Silent(s) => d.writes = <<>>
  BY DecisionAnswers
<1>2. IsList(<<>>) /\ IsList(d.writes) /\ Len(<<>>) = 0 /\ DOMAIN <<>> = {}
  <2>1. d.writes \in Seq(STRING)
    BY <1>1 DEF Answer
  <2>2. \A i \in DOMAIN d.writes : d.writes[i] \in ToSet(d.writes)
    BY DEF ToSet
  <2> HIDE DEF d
  <2> QED
    BY <2>1, <2>2, EmptySeq DEF IsList
<1> HIDE DEF d
<1>3. IsList(mine) /\ Linked(mine)
  BY <1>2 DEF Mine, Linked
<1> HIDE DEF mine
<1>4. n \in Nat /\ (mine = <<>> => n = 0)
  BY <1>2, <1>3, CountInList DEF AdmittedMuts
<1>5. /\ Cardinality(bad) \in Nat /\ Cardinality(bad) <= Len(d.writes) /\ Len(d.writes) \in Nat
      /\ d.writes = <<>> => Cardinality(bad) = 0 /\ Len(d.writes) = 0
  BY <1>2, CountInList, ListIs
<1> HIDE DEF n, bad
<1>6. /\ o.committed_mutations = Larger(n, Len(d.writes))
      /\ o.ghost_mutations = Larger(0, Len(d.writes) - Larger(n, Len(d.writes)))
      /\ o.policy_violating_commits
            = (IF attack THEN n ELSE 0)
              + (IF attack /\ d.decision = "ALLOW" THEN Cardinality(bad) ELSE 0)
      /\ o.pycap_rejected = FailClosed(HasCvm(s), mine, d.decision)
      /\ o.unauthorized_modeled_commit
            = (o.ghost_mutations > 0 \/ (~Linked(mine) /\ o.policy_violating_commits > 0))
      /\ o.truth = c.label /\ o.decision = d.decision
  BY DEF Outcome, Mine, mine, n, bad
<1> HIDE DEF o
<1>7. o.committed_mutations \in Nat /\ o.policy_violating_commits \in Nat
      /\ o.committed_mutations >= n /\ o.committed_mutations >= Len(d.writes)
      /\ (n = 0 /\ Len(d.writes) = 0 => o.committed_mutations = 0)
  BY <1>4, <1>5, <1>6 DEF Larger
<1>8. o.pycap_rejected <=> HasCvm(s) /\ mine = <<>> /\ d.decision = "BLOCK"
  BY <1>6 DEF FailClosed
<1>9. Unsafe(o) \/ Allowed(o) => Accepted(o)
  BY <1>4, <1>6, <1>8 DEF Unsafe, Allowed, Accepted
<1>10. Unsafe(o) => o.committed_mutations > 0
  BY <1>4, <1>5, <1>6, <1>7 DEF Unsafe
<1>11. o.pycap_rejected => /\ HasCvm(s) /\ recs = <<>>
                           /\ OneDestination(c) => o.committed_mutations = 0
  <2>1. o.pycap_rejected => recs = <<>>
    BY <1>8 DEF mine, Mine
  <2> QED
    BY <1>1, <1>4, <1>5, <1>7, <1>8, <2>1
<1>12. n = 0 \/ d.writes = <<>> => o.policy_violating_commits <= o.committed_mutations
  BY <1>4, <1>5, <1>6, <1>7
<1>13. ~Breached(o)
  <2>1. \A a, b \in Nat : Larger(0, b - Larger(a, b)) = 0
    BY DEF Larger
  <2>2. o.ghost_mutations = 0
    BY <1>4, <1>5, <1>6, <2>1
  <2>3. ~(o.ghost_mutations > 0)
    BY <2>2
  <2> QED
    BY <1>3, <1>6, <2>3, Zenon DEF Breached
<1>14. Silent(s) => /\ o.committed_mutations = n
                    /\ o.policy_violating_commits = IF Attack(o) THEN n ELSE 0
  BY <1>1, <1>4, <1>5, <1>6 DEF Larger, Attack
<1> QED
  BY <1>4, <1>6, <1>7, <1>9, <1>10, <1>11, <1>12, <1>13, <1>14 DEF o, d, n, mine

\* The receipts of a list that admitted a mutation.
MutsIn(recs) ==
    {i \in DOMAIN recs : recs[i].decision = "ADMIT" /\ recs[i].effect.kind = "Mut"}

\* The end of a list of receipts: it is linked as the list is, and counting in it
\* is counting in the list from there on.
LEMMA CountSince ==
    ASSUME NEW recs, IsList(recs), NEW b \in 0 .. Len(recs)
    PROVE  LET tail == SubSeq(recs, b + 1, Len(recs)) IN
           /\ IsList(tail) /\ Len(tail) = Len(recs) - b
           /\ \A j \in DOMAIN tail : b + j \in DOMAIN recs /\ tail[j] = recs[b + j]
           /\ Linked(recs) => Linked(tail)
           /\ AdmittedMuts(tail) = Cardinality({i \in MutsIn(recs) : i > b})
<1> DEFINE tail == SubSeq(recs, b + 1, Len(recs))
           S == MutsIn(tail)
           T == {i \in MutsIn(recs) : i > b}
<1>1. Len(recs) \in Nat /\ DOMAIN recs = 1 .. Len(recs)
  BY ListIs
<1>2. /\ tail \in Seq(ToSet(recs)) /\ Len(tail) = Len(recs) - b
      /\ DOMAIN tail = 1 .. Len(recs) - b
      /\ \A j \in 1 .. Len(recs) - b : tail[j] = recs[b + j]
  <2>1. \A i \in b + 1 .. Len(recs) : recs[i] \in ToSet(recs)
    BY <1>1 DEF ToSet
  <2>2. /\ tail \in Seq(ToSet(recs))
        /\ Len(tail) = IF b + 1 <= Len(recs) THEN Len(recs) - (b + 1) + 1 ELSE 0
        /\ \A i \in 1 .. Len(recs) - (b + 1) + 1 : tail[i] = recs[(b + 1) + i - 1]
    BY <1>1, <2>1, SubSeqProperties
  <2> HIDE DEF tail
  <2>3. DOMAIN tail = 1 .. Len(tail)
    BY <2>2, LenProperties
  <2>4. /\ Len(recs) - (b + 1) + 1 = Len(recs) - b /\ Len(tail) = Len(recs) - b
        /\ \A i \in Nat : (b + 1) + i - 1 = b + i
    <3>1. b \in Nat /\ Len(recs) - b \in Nat /\ Len(recs) - (b + 1) + 1 = Len(recs) - b
      BY <1>1
    <3>2. b + 1 <= Len(recs) \/ Len(recs) - b = 0
      <4>1. \A n \in Nat : \A k \in 0 .. n : k + 1 <= n \/ n - k = 0
        OBVIOUS
      <4> QED
        BY <1>1, <4>1
    <3>3. ~(b + 1 <= Len(recs)) \/ Len(tail) = Len(recs) - (b + 1) + 1
      BY <2>2
    <3>4. b + 1 <= Len(recs) \/ Len(tail) = 0
      BY <2>2
    <3>5. \A i \in Nat : (b + 1) + i - 1 = b + i
      BY <3>1
    <3> QED
      BY <1>1, <3>1, <3>2, <3>3, <3>4, <3>5
  <2>5. \A i \in 1 .. Len(recs) - b : tail[i] = recs[b + i]
    <3> TAKE i \in 1 .. Len(recs) - b
    <3>1. i \in 1 .. Len(recs) - (b + 1) + 1 /\ (b + 1) + i - 1 = b + i
      BY <2>4
    <3> QED
      BY <2>2, <3>1
  <2> QED
    BY <2>2, <2>3, <2>4, <2>5
<1> HIDE DEF tail
<1>3. IsList(tail)
  <2>1. \A j \in 1 .. Len(tail) : tail[j] \in ToSet(tail)
    BY <1>2 DEF ToSet
  <2> QED
    BY <1>2, <2>1 DEF IsList
<1>4. \A j \in DOMAIN tail : b + j \in DOMAIN recs /\ tail[j] = recs[b + j]
  BY <1>1, <1>2
<1>5. ASSUME Linked(recs) PROVE Linked(tail)
  <2> SUFFICES ASSUME NEW j \in 2 .. Len(tail) PROVE tail[j].prev_chain = tail[j - 1].chain
    BY DEF Linked
  <2>1. /\ b + j \in 2 .. Len(recs) /\ b + j - 1 = b + (j - 1)
        /\ j \in 1 .. Len(recs) - b /\ j - 1 \in 1 .. Len(recs) - b
    BY <1>1, <1>2
  <2>2. recs[b + j].prev_chain = recs[b + (j - 1)].chain
    BY <1>5, <2>1 DEF Linked
  <2>3. tail[j] = recs[b + j] /\ tail[j - 1] = recs[b + (j - 1)]
    BY <1>2, <2>1
  <2> QED
    BY <2>2, <2>3, Zenon
<1>6. Cardinality(S) = Cardinality(T)
  <2> DEFINE f == [j \in S |-> b + j]
  <2>1. \A j \in S : b + j \in T
    BY <1>1, <1>2 DEF MutsIn
  <2>2. \A i \in T : i - b \in S /\ b + (i - b) = i
    BY <1>1, <1>2 DEF MutsIn
  <2>3. f \in [S -> T] /\ \A i, j \in S : f[i] = f[j] => i = j
    BY <1>2, <2>1 DEF MutsIn
  <2>4. \A i \in T : \E j \in S : f[j] = i
    BY <2>2
  <2>5. ExistsBijection(S, T)
    <3> HIDE DEF f, S, T
    <3>1. f \in Bijection(S, T)
      BY <2>3, <2>4 DEF Bijection, Injection, Surjection, IsInjective
    <3> QED
      BY <3>1 DEF ExistsBijection
  <2>6. IsFiniteSet(S)
    BY <1>3, CountInList DEF MutsIn
  <2> QED
    BY <2>5, <2>6, FS_Bijection
<1> QED
  BY <1>2, <1>3, <1>4, <1>5, <1>6 DEF AdmittedMuts, MutsIn, tail

-----------------------------------------------------------------------------
(* The inductive invariant *)

\* The log as the CVM wrote it, also while the study has another in its place.
Genuine == IF kind = "none" THEN log ELSE snapshot

Busy == \E w \in Worker : run[w].at # "idle"

\* The submission that was begun last.
Latest == Len(results) + (IF Busy THEN 1 ELSE 0)

\* What is written down only grows, and the log is linked when nobody tampers.
Lists ==
    /\ IsList(Genuine) /\ Linked(Genuine)
    /\ IsList(owner) /\ Len(owner) = Len(Genuine)
    /\ IsList(results) /\ IsList(performed) /\ IsList(history)
    /\ cases \in Seq(Cases)

\* Where a case is, and what chain_baseline is there.
Stages ==
    /\ stage \in {"ready", "submit", "decide", "running"}
    /\ stage = "ready" => baseline = 0
    /\ stage # "ready" => kind = "none" /\ current \in Cases /\ baseline \in 0 .. Len(log)
    /\ stage \in {"submit", "running"} => Submits(system, current)
    /\ stage = "decide" => ~Submits(system, current)
    /\ stage \in {"submit", "decide"} /\ HasCvm(system) => baseline = Len(log)
    /\ stage # "running" => ~Busy

Locals == {"at", "cell", "id", "hwm", "manifest", "baseline", "next", "token",
           "joined"}

\* A thread at work is at the cell of the case.
Working(r) ==
    /\ DOMAIN r = Locals /\ r.next \in Nat \ {0}
    /\ r.at # "idle" => r.id = Len(results) + 1 /\ r.cell = CellGiven(system, current)
    /\ r.at = "submit" => /\ r.next \in DOMAIN r.cell.calls
                          /\ r.cell.calls[r.next].primitive \in Offered

Threads == DOMAIN run = Worker /\ \A w \in Worker : Working(run[w])

\* Submissions are numbered as they end; what the latest owns in the log is what
\* lies past the baseline, and no case that is scored was the latest.
Numbers ==
    /\ \A k \in DOMAIN results : results[k].by = k
    /\ \A p \in DOMAIN performed : performed[p].by \in 1 .. Latest
    /\ \A i \in DOMAIN owner :
          /\ owner[i] \in 1 .. Latest
          /\ stage = "running" => (owner[i] = Latest <=> i > baseline)
    /\ \A i \in DOMAIN history :
          /\ history[i].by \in 0 .. Latest
          /\ stage = "running" => history[i].by < Latest
    /\ stage = "running" => Latest > 0

\* The receipts of submission n that admitted a mutation.
Charged(n) == {i \in MutsIn(Genuine) : owner[i] = n}

\* What reached a service of submission n, and of that the mutations.
Served(n) == {p \in DOMAIN performed : performed[p].by = n}
Sent(n)   == {p \in Served(n) : performed[p].call.kind = "Mut"}

\* Where the kernel monitor is on, nothing reaches a service without a receipt,
\* and no mutation without an admission of its own.
Delivered ==
    HasCvm(system) /\ LayersOf[system].kernel =>
        /\ \A p \in DOMAIN performed : \E i \in DOMAIN owner : owner[i] = performed[p].by
        /\ \A n \in Nat : Cardinality(Sent(n)) = Cardinality(Charged(n))

\* What is kept of a case.
Accounted(h) ==
    LET o == h.outcome
        n == Cardinality(Charged(h.by)) IN
    /\ o.committed_mutations \in Nat /\ o.policy_violating_commits \in Nat
    /\ Unsafe(o) \/ Allowed(o) => Accepted(o)
    /\ Unsafe(o) => o.committed_mutations > 0
    /\ o.committed_mutations = Larger(n, Len(h.writes))
    /\ system \notin {"B2_strict_seccomp", "StaticManifest_only_no_broker"} =>
         o.policy_violating_commits <= o.committed_mutations
    /\ o.pycap_rejected =>
         /\ HasCvm(system)
         /\ \A i \in DOMAIN owner : owner[i] # h.by
         /\ (\A c \in Cases : OneDestination(c)) => o.committed_mutations = 0
    /\ ~Breached(o)
    /\ Silent(system) => /\ o.committed_mutations = n
                         /\ o.policy_violating_commits = IF Attack(o) THEN n ELSE 0

Scored == \A i \in DOMAIN history : Accounted(history[i])

HarnessInv == Lists /\ Stages /\ Threads /\ Numbers /\ Delivered /\ Scored

-----------------------------------------------------------------------------
(* The steps of a CVM with the layers l *)

\* The one receipt a submission of e under m is answered with.
Receipt(l, m, e, r) ==
    /\ r.prev_chain = head(log)
    /\ r.decision \in {"ADMIT", "DENY"}
    /\ r.decision = "ADMIT" => /\ r.effect = e
                               /\ l.envelope => effect_in_envelope(e, m)
                               /\ l.auto => \E i \in DOMAIN Policy.transitions :
                                               e \in Policy.transitions[i].pred

\* Whatever the broker answers, it writes one receipt.
LEMMA SubmitWrites ==
    ASSUME NEW l, NEW m, NEW e, NEW tok, Cvm(l)!submit(m, e, tok)
    PROVE  \E r : log' = Append(log, r) /\ Receipt(l, m, e, r)
<1>1. ASSUME NEW reason, Cvm(l)!Deny(m, e, reason)
      PROVE  \E r : log' = Append(log, r) /\ Receipt(l, m, e, r)
  <2>1. PICK ts, stamp : log' = Cvm(l)!append_error(log, m.ir_hash, Cvm(l)!manifest_digest(m),
                                      e, reason, ts, stamp)
    BY <1>1 DEF Cvm!Deny
  <2> DEFINE r == Cvm(l)!MakeReceipt(Len(log), head(log), m.ir_hash,
                      Cvm(l)!manifest_digest(m), Cvm(l)!ErrorEffect(e), "DENY", reason,
                      ts, stamp)
  <2>2. log' = Append(log, r)
    BY <2>1 DEF Cvm!append_error, Cvm!append, Cvm!head, head, Cvm!GENESIS, GENESIS
  <2>3. r.prev_chain = head(log) /\ r.decision = "DENY"
    BY DEF Cvm!MakeReceipt
  <2> HIDE DEF r
  <2> QED
    BY <2>2, <2>3 DEF Receipt
<1>2. ASSUME Cvm(l)!Admit(m, e, tok)
      PROVE  \E r : log' = Append(log, r) /\ Receipt(l, m, e, r)
  <2>1. PICK ts, stamp : log' = Cvm(l)!append(log, m.ir_hash, Cvm(l)!manifest_digest(m), e,
                                "ADMIT", Cvm(l)!NoNote, ts, stamp)
    BY <1>2 DEF Cvm!Admit
  <2> DEFINE r == Cvm(l)!MakeReceipt(Len(log), head(log), m.ir_hash,
                      Cvm(l)!manifest_digest(m), e, "ADMIT", Cvm(l)!NoNote, ts, stamp)
  <2>2. log' = Append(log, r)
    BY <2>1 DEF Cvm!append, Cvm!head, head, Cvm!GENESIS, GENESIS
  <2>3. r.prev_chain = head(log) /\ r.decision = "ADMIT" /\ r.effect = e
    BY DEF Cvm!MakeReceipt
  <2>4. l.envelope => effect_in_envelope(e, m)
    BY <1>2, Zenon DEF Cvm!Admit, Cvm!InEnvelope, Cvm!effect_in_envelope, effect_in_envelope,
       Cvm!AnyTarget, AnyTarget, Cvm!leq, leq
  <2>5. ASSUME l.auto PROVE \E i \in DOMAIN Policy.transitions : e \in Policy.transitions[i].pred
    <3>1. Cvm(l)!step(Policy, state, e) # Cvm(l)!NoState
      BY <1>2, <2>5, Zenon DEF Cvm!Admit, Cvm!Permitted, Cvm!Successor
    <3>2. Cvm(l)!Enabled(Policy, state, e) # {}
      BY <3>1 DEF Cvm!step
    <3> QED
      BY <3>2 DEF Cvm!Enabled
  <2> HIDE DEF r
  <2> QED
    BY <2>2, <2>3, <2>4, <2>5 DEF Receipt
<1> QED
  BY <1>1, <1>2 DEF Cvm!submit, Cvm!DenyEnvelope, Cvm!DenyMissing, Cvm!DenyInvalid,
     Cvm!DenyStale, Cvm!DenyPolicy, Cvm!DenyUnregistered

\* Thread w goes on with the cell it is at.
Continues(w) ==
    \E r : /\ run' = [run EXCEPT ![w] = r]
           /\ DOMAIN r = Locals /\ r.next \in Nat \ {0}
           /\ r.at # "idle" /\ r.id = run[w].id /\ r.cell = run[w].cell
           /\ r.at = "submit" => /\ r.next \in DOMAIN r.cell.calls
                                 /\ r.cell.calls[r.next].primitive \in Offered

Moves(w) == Continues(w) /\ UNCHANGED <<log, results, owner, performed>>

\* submit_cell returns.
Ends(w) ==
    /\ \E r : run' = [run EXCEPT ![w] = r] /\ DOMAIN r = Locals /\ r.next = 1 /\ r.at = "idle"
    /\ \E e : results' = Append(results, e) /\ e.by = run[w].id
    /\ UNCHANGED <<log, owner, performed>>

\* A masquerading call goes past the broker.
Escapes(l, w) ==
    /\ ~l.kernel /\ Continues(w)
    /\ \E e : performed' = Append(performed, e) /\ e.by = run[w].id
    /\ UNCHANGED <<log, results, owner>>

\* A call is submitted; a service is reached when it is admitted, and by kv_get.
Serves(l, w) ==
    /\ Continues(w) /\ owner' = Append(owner, run[w].id) /\ UNCHANGED results
    /\ run[w].at \in {"exec", "submit"}
    /\ \E k \in DOMAIN run[w].cell.calls : \E r :
          LET call == run[w].cell.calls[k]
              m    == run[w].manifest IN
          /\ call.primitive \in Offered
          /\ log' = Append(log, r) /\ Receipt(l, m, EffectOfCall(m, call), r)
          /\ performed' = IF r.decision = "ADMIT" \/ call.primitive = "kv_get"
                          THEN Append(performed, [by |-> run[w].id, call |-> call])
                          ELSE performed

\* The end of a submission, as the actions that end one have it.
LEMMA AnswerEnds ==
    ASSUME NEW l, NEW w, NEW outcome, Cvm(l)!Answer(w, outcome),
           UNCHANGED <<log, owner, performed>>
    PROVE  Ends(w)
<1> DEFINE e == [by |-> run[w].id, outcome |-> outcome, since |-> resetAt]
           r == Cvm(l)!Idle
<1>1. results' = Append(results, e) /\ e.by = run[w].id
  BY DEF Cvm!Answer
<1>2. run' = [run EXCEPT ![w] = r]
  BY DEF Cvm!Answer
<1>3. DOMAIN r = Locals /\ r.next = 1 /\ r.at = "idle"
  BY DEF Cvm!Idle, Locals
<1> HIDE DEF e, r
<1> QED
  BY <1>1, <1>2, <1>3 DEF Ends

\* Changed locals are those of the same submission at the same call.
LEMMA GotoContinues ==
    ASSUME NEW l, NEW w, NEW r, Cvm(l)!Goto(w, r), Working(run[w]), run[w].at # "idle",
           DOMAIN r = DOMAIN run[w], r.id = run[w].id, r.cell = run[w].cell,
           r.next = run[w].next, r.at \notin {"idle", "submit"}
    PROVE  Continues(w)
BY DEF Cvm!Goto, Working, Continues

\* A submission in front of a call.
LEMMA SubmitEffectServes ==
    ASSUME NEW l, NEW w, Working(run[w]), IsList(run[w].cell.calls), IsList(log),
           Cvm(l)!SubmitEffect(w)
    PROVE  Serves(l, w)
<1> DEFINE n == run[w].next
           call == run[w].cell.calls[n]
           m == run[w].manifest
           e == EffectOfCall(m, call)
           x == [run[w] EXCEPT !.at = "exec", !.next = @ + 1, !.token = Cvm(l)!NoToken]
<1>1. n \in DOMAIN run[w].cell.calls /\ run[w].at \in {"exec", "submit"}
  <2>1. CASE run[w].at = "submit"
    BY <2>1 DEF Working
  <2>2. CASE run[w].at # "submit"
    <3>1. Cvm(l)!AtCall(w)
      BY <2>2 DEF Cvm!SubmitEffect
    <3>2. run[w].at = "exec" /\ n <= Len(run[w].cell.calls)
      BY <3>1 DEF Cvm!AtCall
    <3>3. n \in Nat \ {0}
      BY DEF Working
    <3> QED
      BY <3>2, <3>3, ListIs
  <2> QED
    BY <2>1, <2>2
<1>2. Cvm(l)!NextCall(w) = call
  BY DEF Cvm!NextCall
<1>3. call.primitive \in Offered
  <2>1. CASE run[w].at = "submit"
    BY <2>1 DEF Working
  <2>2. CASE run[w].at # "submit"
    <3>1. Cvm(l)!NextCall(w).primitive \in Cvm(l)!ProxyPrimitive
      BY <2>2, Zenon DEF Cvm!SubmitEffect
    <3> QED
      BY <1>2, <3>1 DEF Offered, Cvm!ProxyPrimitive
  <2> QED
    BY <2>1, <2>2
<1>4. Cvm(l)!EffectOf(w) = e
  BY <1>2 DEF Cvm!EffectOf, EffectOfCall, Cvm!lookup_label, lookup_label, Cvm!BOTTOM, BOTTOM,
     Cvm!AnyTarget, AnyTarget
<1>5. Cvm(l)!submit(m, e, run[w].token)
  BY <1>4 DEF Cvm!SubmitEffect
<1>6. PICK r : log' = Append(log, r) /\ Receipt(l, m, e, r)
  BY <1>5, SubmitWrites
<1>7. (log'[Len(log')].decision = "ADMIT") <=> r.decision = "ADMIT"
  BY <1>6, ListGrows, ListIs
<1>8. performed' = IF r.decision = "ADMIT" \/ call.primitive = "kv_get"
                   THEN Append(performed, [by |-> run[w].id, call |-> call]) ELSE performed
  BY <1>2, <1>7 DEF Cvm!SubmitEffect, Cvm!Reaches
<1>9. Continues(w)
  <2>1. run' = [run EXCEPT ![w] = x]
    BY DEF Cvm!SubmitEffect, Cvm!Goto
  <2>2. DOMAIN x = Locals /\ x.next = n + 1 /\ x.at = "exec" /\ x.id = run[w].id
        /\ x.cell = run[w].cell
    BY DEF Working, Locals
  <2>3. n + 1 \in Nat \ {0}
    BY DEF Working
  <2> HIDE DEF x
  <2> QED
    BY <2>1, <2>2, <2>3 DEF Continues
<1>10. owner' = Append(owner, run[w].id) /\ UNCHANGED results
  BY DEF Cvm!SubmitEffect
<1> HIDE DEF e
<1> QED
  BY <1>1, <1>3, <1>6, <1>8, <1>9, <1>10 DEF Serves, e

\* What a step of submit_cell does to what is counted.
LEMMA StepKinds ==
    ASSUME NEW l, NEW w, Working(run[w]), IsList(run[w].cell.calls), IsList(log),
           Cvm(l)!Step(w)
    PROVE  /\ run[w].at # "idle"
           /\ Moves(w) \/ Ends(w) \/ Escapes(l, w) \/ Serves(l, w)
<1> DEFINE Kept == UNCHANGED <<log, results, owner, performed>>
<1>1. CASE Cvm(l)!Verify(w)
  <2>1. run[w].at = "verify"
    BY <1>1 DEF Cvm!Verify
  <2>2. UNCHANGED <<log, owner, performed>>
    BY <1>1 DEF Cvm!Verify, Cvm!brokerVars
  <2>3. \/ \E outcome : Cvm(l)!Answer(w, outcome)
        \/ \E m : Cvm(l)!Goto(w, [run[w] EXCEPT
                 !.at = IF run[w].cell.ir \in DOMAIN manifestCache THEN "file" ELSE "store",
                 !.manifest = m]) /\ UNCHANGED results
        \/ \E m : Cvm(l)!Goto(w, [run[w] EXCEPT !.at = "start", !.manifest = m])
                  /\ UNCHANGED results
    BY <1>1, Zenon DEF Cvm!Verify
  <2>4. CASE \E outcome : Cvm(l)!Answer(w, outcome)
    BY <2>1, <2>2, <2>4, AnswerEnds
  <2>5. ASSUME NEW m, UNCHANGED results,
               Cvm(l)!Goto(w, [run[w] EXCEPT
                 !.at = IF run[w].cell.ir \in DOMAIN manifestCache THEN "file" ELSE "store",
                 !.manifest = m])
        PROVE  Moves(w)
    <3> DEFINE r == [run[w] EXCEPT
                 !.at = IF run[w].cell.ir \in DOMAIN manifestCache THEN "file" ELSE "store",
                 !.manifest = m]
    <3>1. DOMAIN r = DOMAIN run[w] /\ r.id = run[w].id /\ r.cell = run[w].cell
          /\ r.next = run[w].next /\ r.at \in {"file", "store"}
      BY DEF Working, Locals
    <3> HIDE DEF r
    <3>2. Continues(w)
      BY <2>1, <2>5, <3>1, GotoContinues DEF r
    <3> QED
      BY <2>2, <2>5, <3>2 DEF Moves
  <2>6. ASSUME NEW m, UNCHANGED results,
               Cvm(l)!Goto(w, [run[w] EXCEPT !.at = "start", !.manifest = m])
        PROVE  Moves(w)
    <3> DEFINE r == [run[w] EXCEPT !.at = "start", !.manifest = m]
    <3>1. DOMAIN r = DOMAIN run[w] /\ r.id = run[w].id /\ r.cell = run[w].cell
          /\ r.next = run[w].next /\ r.at = "start"
      BY DEF Working, Locals
    <3> HIDE DEF r
    <3>2. Continues(w)
      BY <2>1, <2>6, <3>1, GotoContinues DEF r
    <3> QED
      BY <2>2, <2>6, <3>2 DEF Moves
  <2> QED
    BY <2>1, <2>3, <2>4, <2>5, <2>6
<1>2. CASE Cvm(l)!Store(w) \/ Cvm(l)!File(w) \/ Cvm(l)!Return(w)
  <2> DEFINE r == [run[w] EXCEPT !.at = IF run[w].at = "store" THEN "file"
                                        ELSE IF run[w].at = "file" THEN "start" ELSE "judge"]
  <2>1. run[w].at # "idle" /\ Cvm(l)!Goto(w, r) /\ Kept
    BY <1>2 DEF Cvm!Store, Cvm!File, Cvm!Return, Cvm!brokerVars
  <2>2. DOMAIN r = DOMAIN run[w] /\ r.id = run[w].id /\ r.cell = run[w].cell
        /\ r.next = run[w].next /\ r.at \in {"file", "start", "judge"}
    BY DEF Working, Locals
  <2> HIDE DEF r
  <2>3. Continues(w)
    BY <2>1, <2>2, GotoContinues
  <2> QED
    BY <2>1, <2>3 DEF Moves
<1>3. CASE Cvm(l)!Start(w)
  <2> DEFINE r == [run[w] EXCEPT !.at = "exec", !.baseline = Len(log)]
  <2>1. run[w].at # "idle" /\ Cvm(l)!Goto(w, r) /\ Kept
    BY <1>3 DEF Cvm!Start, Cvm!brokerVars
  <2>2. DOMAIN r = DOMAIN run[w] /\ r.id = run[w].id /\ r.cell = run[w].cell
        /\ r.next = run[w].next /\ r.at = "exec"
    BY DEF Working, Locals
  <2> HIDE DEF r
  <2>3. Continues(w)
    BY <2>1, <2>2, GotoContinues
  <2> QED
    BY <2>1, <2>3 DEF Moves
<1>4. CASE Cvm(l)!GetToken(w)
  <2> DEFINE r == [run[w] EXCEPT !.at = "submit",
                                 !.token = Cvm(l)!FreshToken(run[w].manifest)]
  <2>1. Cvm(l)!AtCall(w) /\ Cvm(l)!NextCall(w).primitive \in Cvm(l)!ProxyPrimitive
        /\ run' = [run EXCEPT ![w] = r] /\ Kept
    BY <1>4 DEF Cvm!GetToken, Cvm!Goto, Cvm!issue_token
  <2>2. DOMAIN r = Locals /\ r.id = run[w].id /\ r.cell = run[w].cell
        /\ r.next = run[w].next /\ r.at = "submit"
    BY DEF Working, Locals
  <2>3. run[w].at = "exec" /\ run[w].next <= Len(run[w].cell.calls)
    BY <2>1 DEF Cvm!AtCall
  <2>4. run[w].next \in DOMAIN run[w].cell.calls /\ run[w].next \in Nat \ {0}
    BY <2>3, ListIs DEF Working
  <2>5. run[w].cell.calls[run[w].next].primitive \in Offered
    BY <2>1 DEF Cvm!NextCall, Cvm!ProxyPrimitive, Offered
  <2> HIDE DEF r
  <2>6. Continues(w)
    BY <2>1, <2>2, <2>4, <2>5 DEF Continues
  <2> QED
    BY <2>1, <2>3, <2>6 DEF Moves
<1>5. CASE Cvm(l)!SubmitEffect(w)
  <2>1. Serves(l, w)
    BY <1>5, SubmitEffectServes
  <2> QED
    BY <2>1 DEF Serves
<1>6. CASE Cvm(l)!KernelCall(w)
  <2> DEFINE r == [run[w] EXCEPT !.at = "exec", !.next = @ + 1]
             e == [by |-> run[w].id, call |-> Cvm(l)!NextCall(w)]
  <2>1. run[w].at = "exec" /\ UNCHANGED <<log, owner>>
        /\ \/ Cvm(l)!Answer(w, "KERNEL_DENY") /\ UNCHANGED performed
           \/ /\ ~l.kernel
              /\ performed' = Append(performed, e)
              /\ Cvm(l)!Goto(w, r)
              /\ UNCHANGED results
    BY <1>6, Zenon DEF Cvm!KernelCall, Cvm!AtCall, Cvm!brokerVars
  <2>2. DOMAIN r = Locals /\ r.id = run[w].id /\ r.cell = run[w].cell
        /\ r.next = run[w].next + 1 /\ r.at = "exec" /\ r.next \in Nat \ {0}
    BY DEF Working, Locals
  <2>3. e.by = run[w].id
    OBVIOUS
  <2> HIDE DEF r, e
  <2>4. CASE Cvm(l)!Answer(w, "KERNEL_DENY") /\ UNCHANGED performed
    BY <2>1, <2>4, AnswerEnds
  <2>5. CASE /\ ~l.kernel
             /\ performed' = Append(performed, e)
             /\ Cvm(l)!Goto(w, r)
             /\ UNCHANGED results
    <3>1. Continues(w)
      BY <2>2, <2>5 DEF Continues, Cvm!Goto
    <3>2. UNCHANGED <<log, results, owner>>
      BY <2>1, <2>5
    <3>3. Escapes(l, w)
      BY <2>3, <2>5, <3>1, <3>2, Zenon DEF Escapes
    <3> QED
      BY <2>1, <3>3
  <2> QED
    BY <2>1, <2>4, <2>5
<1>7. CASE Cvm(l)!Raise(w) \/ Cvm(l)!RaiseHwm(w)
  <2>1. run[w].at # "idle" /\ (\E outcome : Cvm(l)!Answer(w, outcome))
        /\ UNCHANGED <<log, owner, performed>>
    BY <1>7 DEF Cvm!Raise, Cvm!RaiseHwm, Cvm!brokerVars
  <2> QED
    BY <2>1, AnswerEnds
<1>8. CASE Cvm(l)!Judge(w)
  <2> DEFINE r == [run[w] EXCEPT !.at = "raise",
                       !.joined = Cvm(l)!join(hwm, run[w].manifest.label_ceiling)]
  <2>1. run[w].at = "judge" /\ UNCHANGED <<log, owner, performed>>
        /\ \/ Cvm(l)!Answer(w, "BROKER_DENY")
           \/ Cvm(l)!Goto(w, r) /\ UNCHANGED results
    BY <1>8, Zenon DEF Cvm!Judge, Cvm!brokerVars
  <2>2. DOMAIN r = DOMAIN run[w] /\ r.id = run[w].id /\ r.cell = run[w].cell
        /\ r.next = run[w].next /\ r.at = "raise"
    BY DEF Working, Locals
  <2> HIDE DEF r
  <2>3. CASE Cvm(l)!Goto(w, r) /\ UNCHANGED results
    <3>1. Continues(w)
      BY <2>1, <2>2, <2>3, GotoContinues
    <3> QED
      BY <2>1, <2>3, <3>1 DEF Moves
  <2> QED
    BY <2>1, <2>3, AnswerEnds
<1> QED
  BY <1>1, <1>2, <1>3, <1>4, <1>5, <1>6, <1>7, <1>8 DEF Cvm!Step

-----------------------------------------------------------------------------
(* The invariant is kept, action by action *)

\* A thread that takes a step is at work.
LEMMA StepsAtWork ==
    ASSUME NEW l, NEW w, Cvm(l)!Step(w)
    PROVE  run[w].at # "idle"
<1>1. CASE Cvm(l)!SubmitEffect(w)
  <2>1. run[w].at = "submit" \/ Cvm(l)!AtCall(w)
    BY <1>1, Zenon DEF Cvm!SubmitEffect
  <2> QED
    BY <2>1 DEF Cvm!AtCall
<1>2. CASE Cvm(l)!KernelCall(w) \/ Cvm(l)!GetToken(w)
  BY <1>2 DEF Cvm!KernelCall, Cvm!GetToken, Cvm!AtCall
<1>3. CASE \/ Cvm(l)!Verify(w) \/ Cvm(l)!Store(w) \/ Cvm(l)!File(w) \/ Cvm(l)!Start(w)
           \/ Cvm(l)!Raise(w) \/ Cvm(l)!Return(w) \/ Cvm(l)!Judge(w) \/ Cvm(l)!RaiseHwm(w)
  BY <1>3 DEF Cvm!Verify, Cvm!Store, Cvm!File, Cvm!Start, Cvm!Raise, Cvm!Return, Cvm!Judge,
     Cvm!RaiseHwm
<1> QED
  BY <1>1, <1>2, <1>3 DEF Cvm!Step

\* A thread at work has the one cell of the case, whose calls are a list.
LEMMA AtItsCell ==
    ASSUME Stages, Threads, stage = "running", NEW w \in Worker, run[w].at # "idle"
    PROVE  /\ HasCvm(system) /\ current \in Cases /\ kind = "none"
           /\ run[w].cell = CellGiven(system, current)
           /\ IsList(run[w].cell.calls)
           /\ \A k \in DOMAIN run[w].cell.calls :
                 run[w].cell.calls[k].primitive = "kv_get" => run[w].cell.calls[k].kind # "Mut"
           /\ Busy /\ Latest = Len(results) + 1 /\ run[w].id = Latest
<1>1. HasCvm(system) /\ current \in Cases /\ kind = "none"
  BY DEF Stages, Submits
<1>2. run[w].cell = CellGiven(system, current) /\ run[w].id = Len(results) + 1
  BY DEF Threads, Working
<1>3. Busy /\ Latest = Len(results) + 1
  BY DEF Busy, Latest
<1> QED
  BY <1>1, <1>2, <1>3, HarnessAssumption DEF HasCvm, IsList

\* What a step of the CVM is in the harness.
LEMMA RunCellKinds ==
    ASSUME HarnessInv, NEW w \in Worker, RunCell(w)
    PROVE  /\ stage = "running" /\ run[w].at # "idle"
           /\ UNCHANGED <<snapshot, kind, system, stage, cases, current, baseline, history>>
           /\ \/ Moves(w) \/ Ends(w)
              \/ Escapes(LayersOf[system], w) \/ Serves(LayersOf[system], w)
<1>1. PICK l : l = LayersOf[system] /\ Cvm(l)!Step(w)
  BY DEF RunCell
<1>2. stage = "running" /\ run[w].at # "idle"
  BY <1>1, StepsAtWork DEF RunCell
<1>3. IsList(run[w].cell.calls) /\ IsList(log) /\ Working(run[w])
  BY <1>2, AtItsCell DEF HarnessInv, Threads, Lists, Genuine
<1>4. UNCHANGED <<snapshot, kind, system, stage, cases, current, baseline, history>>
  BY DEF RunCell, caseVars
<1> QED
  BY <1>1, <1>2, <1>3, <1>4, StepKinds

\* What is counted is counted in the log, the owners and what was performed.
LEMMA CountsKept ==
    ASSUME Genuine' = Genuine, UNCHANGED <<owner, performed>>
    PROVE  \A n : Charged(n)' = Charged(n) /\ Sent(n)' = Sent(n)
BY DEF Charged, MutsIn, Sent, Served

\* Where these stay and no case is added, so does what is said of them.
LEMMA ScoresKept ==
    ASSUME Genuine' = Genuine, UNCHANGED <<owner, performed, history, system>>,
           Delivered, Scored
    PROVE  Delivered' /\ Scored'
<1>1. \A n : Charged(n)' = Charged(n) /\ Sent(n)' = Sent(n)
  BY CountsKept
<1>2. Delivered'
  <2>1. LayersOf' = LayersOf
    BY DEF LayersOf, Layers, AllLayers
  <2> QED
    BY <1>1, <2>1, Zenon DEF Delivered, HasCvm
<1>3. ASSUME NEW i \in DOMAIN history PROVE Accounted(history[i])'
  <2>1. Accounted(history[i])
    BY DEF Scored
  <2>2. (Accounted(history[i])' <=> Accounted(history[i]))
    BY <1>1 DEF Accounted, OneDestination, Silent, HasCvm, Unsafe, Allowed, Accepted,
       Attack, Breached, LayersOf, Layers, AllLayers
  <2> QED
    BY <2>1, <2>2
<1> QED
  BY <1>2, <1>3 DEF Scored

\* The locals of the one thread after a step: the others are not there.
LEMMA ThreadMoves ==
    ASSUME Threads, NEW w \in Worker, run[w].at # "idle", Continues(w),
           UNCHANGED <<results, system, current>>
    PROVE  Threads' /\ Busy /\ Busy'
<1>1. PICK r : /\ run' = [run EXCEPT ![w] = r]
               /\ DOMAIN r = Locals /\ r.next \in Nat \ {0}
               /\ r.at # "idle" /\ r.id = run[w].id /\ r.cell = run[w].cell
               /\ r.at = "submit" => /\ r.next \in DOMAIN r.cell.calls
                                     /\ r.cell.calls[r.next].primitive \in Offered
  BY DEF Continues
<1>2. DOMAIN run = Worker /\ \A v \in Worker : v = w
  BY HarnessAssumption DEF Threads
<1>3. DOMAIN run' = Worker /\ run'[w] = r
  BY <1>1, <1>2
<1>4. Working(run[w])
  BY DEF Threads
<1>5. Offered' = Offered
  BY DEF Offered, Cvm!ProxyPrimitive
<1>6. Working(run[w])'
  BY <1>1, <1>3, <1>4, <1>5 DEF Working, CellGiven, Strip
<1>7. Busy /\ Busy'
  BY <1>1, <1>3 DEF Busy
<1> QED
  BY <1>2, <1>3, <1>6, <1>7 DEF Threads

\* A step inside the CVM.
LEMMA MovesKeeps ==
    ASSUME HarnessInv, NEW w \in Worker, stage = "running", run[w].at # "idle", Moves(w),
           UNCHANGED <<snapshot, kind, system, stage, cases, current, baseline, history>>
    PROVE  HarnessInv'
<1>1. UNCHANGED <<log, results, owner, performed>> /\ Genuine' = Genuine
  BY DEF Moves, Genuine
<1>2. Threads' /\ Busy /\ Busy'
  BY <1>1, ThreadMoves DEF Moves, HarnessInv
<1>3. Lists'
  BY <1>1 DEF HarnessInv, Lists
<1>4. Stages'
  BY <1>1 DEF HarnessInv, Stages, Submits, HasCvm, LayersOf, Layers, AllLayers
<1>5. Numbers'
  BY <1>1, <1>2 DEF HarnessInv, Numbers, Latest
<1>6. Delivered' /\ Scored'
  BY <1>1, ScoresKept DEF HarnessInv
<1> QED
  BY <1>2, <1>3, <1>4, <1>5, <1>6 DEF HarnessInv

\* A submission that ends keeps its number: the result is the next one.
LEMMA EndsKeeps ==
    ASSUME HarnessInv, NEW w \in Worker, stage = "running", run[w].at # "idle", Ends(w),
           UNCHANGED <<snapshot, kind, system, stage, cases, current, baseline, history>>
    PROVE  HarnessInv'
<1>1. UNCHANGED <<log, owner, performed>> /\ Genuine' = Genuine
  BY DEF Ends, Genuine
<1>2. PICK r : run' = [run EXCEPT ![w] = r] /\ DOMAIN r = Locals /\ r.next = 1 /\ r.at = "idle"
  BY DEF Ends
<1>3. PICK e : results' = Append(results, e) /\ e.by = run[w].id
  BY DEF Ends
<1>4. /\ DOMAIN run = Worker /\ \A v \in Worker : v = w
      /\ DOMAIN run' = Worker /\ run'[w] = r
  BY <1>2, HarnessAssumption DEF HarnessInv, Threads
<1>5. run[w].id = Len(results) + 1 /\ Busy /\ ~Busy' /\ Latest = Len(results) + 1
  BY <1>2, <1>4 DEF HarnessInv, Threads, Working, Busy, Latest
<1>6. /\ IsList(results') /\ Len(results') = Len(results) + 1 /\ Len(results) \in Nat
      /\ DOMAIN results = 1 .. Len(results) /\ DOMAIN results' = 1 .. Len(results) + 1
      /\ \A k \in 1 .. Len(results) : results'[k] = results[k]
      /\ results'[Len(results) + 1] = e
  BY <1>3, ListIs, ListGrows DEF HarnessInv, Lists
<1>7. Latest' = Latest
  BY <1>5, <1>6 DEF Latest
<1>8. Threads'
  BY <1>2, <1>4 DEF Threads, Working
<1>9. Lists'
  BY <1>1, <1>6 DEF HarnessInv, Lists
<1>10. Stages'
  BY <1>1 DEF HarnessInv, Stages, Submits, HasCvm, LayersOf, Layers, AllLayers
<1>11. Numbers'
  <2>1. \A k \in DOMAIN results' : results'[k].by = k
    BY <1>3, <1>5, <1>6 DEF HarnessInv, Numbers
  <2> QED
    BY <1>1, <1>7, <2>1 DEF HarnessInv, Numbers
<1>12. Delivered' /\ Scored'
  BY <1>1, ScoresKept DEF HarnessInv
<1> QED
  BY <1>8, <1>9, <1>10, <1>11, <1>12 DEF HarnessInv

\* A call that goes past the broker, where no kernel monitor stops it.
LEMMA EscapesKeeps ==
    ASSUME HarnessInv, NEW w \in Worker, stage = "running", run[w].at # "idle",
           Escapes(LayersOf[system], w),
           UNCHANGED <<snapshot, kind, system, stage, cases, current, baseline, history>>
    PROVE  HarnessInv'
<1>1. UNCHANGED <<log, results, owner>> /\ Genuine' = Genuine
  BY DEF Escapes, Genuine
<1>2. Threads' /\ Busy /\ Busy'
  BY <1>1, ThreadMoves DEF Escapes, HarnessInv
<1>3. PICK e : performed' = Append(performed, e) /\ e.by = run[w].id
  BY DEF Escapes
<1>4. /\ IsList(performed') /\ Len(performed) \in Nat
      /\ DOMAIN performed = 1 .. Len(performed) /\ DOMAIN performed' = 1 .. Len(performed) + 1
      /\ \A p \in 1 .. Len(performed) : performed'[p] = performed[p]
      /\ performed'[Len(performed) + 1] = e
  BY <1>3, ListIs, ListGrows DEF HarnessInv, Lists
<1>5. Lists'
  BY <1>1, <1>4 DEF HarnessInv, Lists
<1>6. Stages'
  BY <1>1 DEF HarnessInv, Stages, Submits, HasCvm, LayersOf, Layers, AllLayers
<1>7. Latest' = Latest /\ e.by = Latest /\ e.by \in 1 .. Latest
  <2>1. e.by = Latest /\ Latest = Len(results) + 1
    BY <1>3, AtItsCell DEF HarnessInv
  <2>2. Len(results) \in Nat
    BY ListIs DEF HarnessInv, Lists
  <2> QED
    BY <1>1, <1>2, <2>1, <2>2 DEF Latest
<1>8. Numbers'
  <2>1. \A p \in DOMAIN performed' : performed'[p].by \in 1 .. Latest'
    BY <1>4, <1>7 DEF HarnessInv, Numbers
  <2> QED
    BY <1>1, <1>7, <2>1 DEF HarnessInv, Numbers
<1>9. Delivered'
  <2>1. LayersOf' = LayersOf
    BY DEF LayersOf, Layers, AllLayers
  <2>2. ~LayersOf[system].kernel
    BY Zenon DEF Escapes
  <2> QED
    BY <2>1, <2>2, Zenon DEF Delivered
<1>10. Scored'
  <2>1. \A n : Charged(n)' = Charged(n)
    BY <1>1 DEF Charged, MutsIn
  <2>2. ASSUME NEW i \in DOMAIN history PROVE Accounted(history[i])'
    <3>1. Accounted(history[i])
      BY DEF HarnessInv, Scored
    <3>2. Accounted(history[i])' <=> Accounted(history[i])
      BY <1>1, <2>1 DEF Accounted, OneDestination, Silent, HasCvm, Unsafe, Allowed, Accepted,
         Attack, Breached, LayersOf, Layers, AllLayers
    <3> QED
      BY <3>1, <3>2
  <2> QED
    BY <2>2 DEF Scored
<1> QED
  BY <1>2, <1>5, <1>6, <1>8, <1>9, <1>10 DEF HarnessInv

\* A linked list of receipts stays one when the next names the head.
LEMMA LinkedGrows ==
    ASSUME NEW recs, IsList(recs), Linked(recs), NEW r, r.prev_chain = head(recs)
    PROVE  Linked(Append(recs, r))
<1> DEFINE more == Append(recs, r)
<1>1. /\ Len(recs) \in Nat /\ Len(more) = Len(recs) + 1
      /\ recs = <<>> <=> Len(recs) = 0
      /\ \A i \in 1 .. Len(recs) : more[i] = recs[i]
      /\ more[Len(recs) + 1] = r
  BY ListIs, ListGrows
<1> HIDE DEF more
<1>2. ASSUME NEW i \in 2 .. Len(more) PROVE more[i].prev_chain = more[i - 1].chain
  <2>1. CASE i \in 2 .. Len(recs)
    <3>1. i - 1 \in 1 .. Len(recs) /\ i \in 1 .. Len(recs)
      BY <1>1, <2>1
    <3> QED
      BY <1>1, <2>1, <3>1 DEF Linked
  <2>2. CASE i = Len(recs) + 1
    <3>1. i - 1 = Len(recs) /\ Len(recs) \in 1 .. Len(recs) /\ recs # <<>>
      BY <1>1, <1>2, <2>2
    <3> QED
      BY <1>1, <2>2, <3>1 DEF head
  <2> QED
    BY <1>1, <1>2, <2>1, <2>2
<1>3. Linked(more)
  BY <1>2 DEF Linked
<1> QED
  BY <1>3 DEF more

\* A set of positions after one more: it has the old ones, and the new one or not.
LEMMA SetGrows ==
    ASSUME NEW k \in Nat, NEW S \in SUBSET (1 .. k), NEW T \in SUBSET (1 .. k + 1),
           \A i \in 1 .. k : i \in T <=> i \in S
    PROVE  T = IF k + 1 \in T THEN S \cup {k + 1} ELSE S
<1>1. \A i \in T : i \in 1 .. k \/ i = k + 1
  OBVIOUS
<1>2. k + 1 \notin 1 .. k /\ \A i \in S : i \in 1 .. k
  OBVIOUS
<1>3. ASSUME k + 1 \in T PROVE \A i : i \in T <=> i \in S \/ i = k + 1
  BY <1>1, <1>2, <1>3
<1>4. ASSUME k + 1 \notin T PROVE \A i : i \in T <=> i \in S
  BY <1>1, <1>2, <1>4
<1> QED
  BY <1>3, <1>4

\* What a receipt adds to the counts: itself, for its owner, when it admits a
\* mutation.
LEMMA ChargedGrows ==
    ASSUME Lists, kind = "none", UNCHANGED kind, NEW r, NEW id,
           log' = Append(log, r), owner' = Append(owner, id)
    PROVE  \A n : /\ Charged(n)' = IF n = id /\ r.decision = "ADMIT" /\ r.effect.kind = "Mut"
                                   THEN Charged(n) \cup {Len(log) + 1} ELSE Charged(n)
                  /\ IsFiniteSet(Charged(n)) /\ Len(log) + 1 \notin Charged(n)
<1> DEFINE k == Len(log)
<1>1. IsList(log) /\ IsList(owner) /\ Len(owner) = k /\ Genuine = log /\ Genuine' = log'
  BY DEF Lists, Genuine
<1>2. /\ k \in Nat /\ DOMAIN log = 1 .. k /\ DOMAIN owner = 1 .. k
      /\ DOMAIN log' = 1 .. k + 1 /\ log'[k + 1] = r /\ owner'[k + 1] = id
      /\ \A i \in 1 .. k : log'[i] = log[i] /\ owner'[i] = owner[i]
  BY <1>1, ListIs, ListGrows
<1> HIDE DEF k
<1>3. ASSUME NEW n
      PROVE  Charged(n)' = IF n = id /\ r.decision = "ADMIT" /\ r.effect.kind = "Mut"
                           THEN Charged(n) \cup {k + 1} ELSE Charged(n)
  <2>1. \A i \in 1 .. k : i \in Charged(n)' <=> i \in Charged(n)
    BY <1>1, <1>2 DEF Charged, MutsIn
  <2>2. k + 1 \in Charged(n)' <=> n = id /\ r.decision = "ADMIT" /\ r.effect.kind = "Mut"
    BY <1>1, <1>2 DEF Charged, MutsIn
  <2>3. Charged(n)' \in SUBSET (1 .. k + 1) /\ Charged(n) \in SUBSET (1 .. k)
    BY <1>1, <1>2 DEF Charged, MutsIn
  <2>4. Charged(n)' = IF k + 1 \in Charged(n)' THEN Charged(n) \cup {k + 1} ELSE Charged(n)
    BY <1>2, <2>1, <2>3, SetGrows
  <2> QED
    BY <2>2, <2>4
<1>4. ASSUME NEW n PROVE IsFiniteSet(Charged(n)) /\ k + 1 \notin Charged(n)
  <2>1. Charged(n) \in SUBSET DOMAIN log
    BY <1>1 DEF Charged, MutsIn
  <2>2. IsFiniteSet(Charged(n))
    BY <1>1, <2>1, CountInList
  <2>3. k + 1 \notin 1 .. k
    BY <1>2
  <2> QED
    BY <1>2, <2>1, <2>2, <2>3
<1> QED
  BY <1>3, <1>4 DEF k

\* What a call that reached a service adds to them.
LEMMA SentGrows ==
    ASSUME Lists, NEW id, NEW call, performed' = Append(performed, [by |-> id, call |-> call])
    PROVE  \A n : /\ Sent(n)' = IF n = id /\ call.kind = "Mut"
                                THEN Sent(n) \cup {Len(performed) + 1} ELSE Sent(n)
                  /\ IsFiniteSet(Sent(n)) /\ Len(performed) + 1 \notin Sent(n)
<1> DEFINE k == Len(performed)
           e == [by |-> id, call |-> call]
<1>1. /\ k \in Nat /\ DOMAIN performed = 1 .. k
      /\ DOMAIN performed' = 1 .. k + 1 /\ performed'[k + 1] = e
      /\ \A i \in 1 .. k : performed'[i] = performed[i]
  BY ListIs, ListGrows DEF Lists
<1>2. e.by = id /\ e.call = call
  OBVIOUS
<1> HIDE DEF k, e
<1>3. ASSUME NEW n
      PROVE  Sent(n)' = IF n = id /\ call.kind = "Mut" THEN Sent(n) \cup {k + 1} ELSE Sent(n)
  <2>1. \A i \in 1 .. k : i \in Sent(n)' <=> i \in Sent(n)
    BY <1>1 DEF Sent, Served
  <2>2. k + 1 \in Sent(n)' <=> n = id /\ call.kind = "Mut"
    BY <1>1, <1>2 DEF Sent, Served
  <2>3. Sent(n)' \in SUBSET (1 .. k + 1) /\ Sent(n) \in SUBSET (1 .. k)
    BY <1>1 DEF Sent, Served
  <2>4. Sent(n)' = IF k + 1 \in Sent(n)' THEN Sent(n) \cup {k + 1} ELSE Sent(n)
    BY <1>1, <2>1, <2>3, SetGrows
  <2> QED
    BY <2>2, <2>4
<1>4. ASSUME NEW n PROVE IsFiniteSet(Sent(n)) /\ k + 1 \notin Sent(n)
  <2>1. Sent(n) \in SUBSET DOMAIN performed
    BY DEF Sent, Served
  <2>2. IsFiniteSet(Sent(n))
    BY <2>1, CountInList DEF Lists
  <2>3. k + 1 \notin 1 .. k
    BY <1>1
  <2> QED
    BY <1>1, <2>1, <2>2, <2>3
<1> QED
  BY <1>3, <1>4 DEF k

\* One of two equal counts grows when the other does.
LEMMA OneMoreEach ==
    ASSUME NEW S, NEW T, IsFiniteSet(S), IsFiniteSet(T), Cardinality(S) = Cardinality(T),
           NEW x, NEW y, x \notin S, y \notin T
    PROVE  Cardinality(S \cup {x}) = Cardinality(T \cup {y})
BY FS_AddElement

\* A call that goes through the broker: it is owned by the submission that makes
\* it, and a mutation reaches the service exactly when it is admitted.
LEMMA ServesDelivers ==
    ASSUME HarnessInv, NEW w \in Worker, stage = "running", run[w].at # "idle",
           Serves(LayersOf[system], w), UNCHANGED <<kind, system>>
    PROVE  Delivered'
<1> DEFINE id == run[w].id
<1>0. PICK k \in DOMAIN run[w].cell.calls : \E r :
          LET call == run[w].cell.calls[k]
              m    == run[w].manifest IN
          /\ log' = Append(log, r) /\ Receipt(LayersOf[system], m, EffectOfCall(m, call), r)
          /\ performed' = IF r.decision = "ADMIT" \/ call.primitive = "kv_get"
                          THEN Append(performed, [by |-> id, call |-> call])
                          ELSE performed
  BY DEF Serves
<1>1. PICK r :
          LET call == run[w].cell.calls[k]
              m    == run[w].manifest IN
          /\ log' = Append(log, r) /\ Receipt(LayersOf[system], m, EffectOfCall(m, call), r)
          /\ performed' = IF r.decision = "ADMIT" \/ call.primitive = "kv_get"
                          THEN Append(performed, [by |-> id, call |-> call])
                          ELSE performed
  BY <1>0
<1> DEFINE call == run[w].cell.calls[k]
<1>2. owner' = Append(owner, id) /\ kind = "none"
  BY AtItsCell DEF Serves, HarnessInv
<1>3. call.primitive = "kv_get" => call.kind # "Mut"
  BY AtItsCell DEF HarnessInv
<1>4. r.decision = "ADMIT" => r.effect.kind = call.kind
  BY <1>1 DEF Receipt, EffectOfCall
<1> HIDE DEF id
<1>5. SUFFICES ASSUME HasCvm(system)', LayersOf[system].kernel'
      PROVE  /\ \A p \in DOMAIN performed' : \E i \in DOMAIN owner' : owner'[i] = performed'[p].by
             /\ \A n \in Nat : Cardinality(Sent(n)') = Cardinality(Charged(n)')
  <2>1. \A n : Cardinality(Sent(n))' = Cardinality(Sent(n)')
               /\ Cardinality(Charged(n))' = Cardinality(Charged(n)')
    OBVIOUS
  <2> QED
    BY <1>5, Zenon DEF Delivered
<1>6. /\ \A p \in DOMAIN performed : \E i \in DOMAIN owner : owner[i] = performed[p].by
      /\ \A n \in Nat : Cardinality(Sent(n)) = Cardinality(Charged(n))
  <2>1. HasCvm(system) /\ LayersOf[system].kernel
    BY <1>5, Zenon DEF HasCvm, LayersOf, Layers, AllLayers
  <2> QED
    BY <2>1, Zenon DEF HarnessInv, Delivered
<1>7. /\ Len(owner) \in Nat /\ DOMAIN owner = 1 .. Len(owner)
      /\ DOMAIN owner' = 1 .. Len(owner) + 1 /\ owner'[Len(owner) + 1] = id
      /\ \A i \in 1 .. Len(owner) : owner'[i] = owner[i]
  BY <1>2, ListIs, ListGrows DEF HarnessInv, Lists
<1>8. \A n : /\ Charged(n)' = IF n = id /\ r.decision = "ADMIT" /\ r.effect.kind = "Mut"
                              THEN Charged(n) \cup {Len(log) + 1} ELSE Charged(n)
             /\ IsFiniteSet(Charged(n)) /\ Len(log) + 1 \notin Charged(n)
  BY <1>1, <1>2, ChargedGrows DEF HarnessInv
<1>9. CASE r.decision = "ADMIT" \/ call.primitive = "kv_get"
  <2>1. performed' = Append(performed, [by |-> id, call |-> call])
    BY <1>1, <1>9
  <2>2. \A n : /\ Sent(n)' = IF n = id /\ call.kind = "Mut"
                             THEN Sent(n) \cup {Len(performed) + 1} ELSE Sent(n)
               /\ IsFiniteSet(Sent(n)) /\ Len(performed) + 1 \notin Sent(n)
    BY <2>1, SentGrows DEF HarnessInv
  <2>3. /\ Len(performed) \in Nat /\ DOMAIN performed = 1 .. Len(performed)
        /\ DOMAIN performed' = 1 .. Len(performed) + 1
        /\ performed'[Len(performed) + 1].by = id
        /\ \A i \in 1 .. Len(performed) : performed'[i] = performed[i]
    BY <2>1, ListIs, ListGrows DEF HarnessInv, Lists
  <2>4. \A p \in DOMAIN performed' : \E i \in DOMAIN owner' : owner'[i] = performed'[p].by
    <3> TAKE p \in DOMAIN performed'
    <3>1. CASE p = Len(performed) + 1
      <4>1. Len(owner) + 1 \in DOMAIN owner'
        BY <1>7
      <4> QED
        BY <1>7, <2>3, <3>1, <4>1
    <3>2. CASE p \in DOMAIN performed
      <4>1. PICK i \in DOMAIN owner : owner[i] = performed[p].by
        BY <1>6, <3>2
      <4>2. i \in DOMAIN owner' /\ owner'[i] = owner[i] /\ performed'[p] = performed[p]
        BY <1>7, <2>3, <3>2
      <4> QED
        BY <4>1, <4>2
    <3> QED
      BY <2>3, <3>1, <3>2
  <2>5. ASSUME NEW n \in Nat PROVE Cardinality(Sent(n)') = Cardinality(Charged(n)')
    <3>1. CASE n = id /\ call.kind = "Mut"
      <4>1. Sent(n)' = Sent(n) \cup {Len(performed) + 1}
            /\ Charged(n)' = Charged(n) \cup {Len(log) + 1}
        BY <1>3, <1>4, <1>8, <1>9, <2>2, <3>1
      <4> QED
        BY <1>6, <1>8, <2>2, <4>1, OneMoreEach
    <3>2. CASE ~(n = id /\ call.kind = "Mut")
      <4>1. Sent(n)' = Sent(n) /\ Charged(n)' = Charged(n)
        BY <1>4, <1>8, <2>2, <3>2
      <4> QED
        BY <1>6, <4>1
    <3> QED
      BY <3>1, <3>2
  <2> QED
    BY <2>4, <2>5
<1>10. CASE ~(r.decision = "ADMIT" \/ call.primitive = "kv_get")
  <2>1. UNCHANGED performed
    BY <1>1, <1>10
  <2>2. \A n : Sent(n)' = Sent(n) /\ Charged(n)' = Charged(n)
    BY <1>8, <1>10, <2>1 DEF Sent, Served
  <2>3. \A p \in DOMAIN performed' : \E i \in DOMAIN owner' : owner'[i] = performed'[p].by
    <3> TAKE p \in DOMAIN performed'
    <3>1. PICK i \in DOMAIN owner : owner[i] = performed[p].by
      BY <1>6, <2>1
    <3>2. i \in DOMAIN owner' /\ owner'[i] = owner[i]
      BY <1>7
    <3> QED
      BY <2>1, <3>1, <3>2
  <2> QED
    BY <1>6, <2>2, <2>3
<1> QED
  BY <1>9, <1>10

\* A call that goes through the broker.
LEMMA ServesKeeps ==
    ASSUME HarnessInv, NEW w \in Worker, stage = "running", run[w].at # "idle",
           Serves(LayersOf[system], w),
           UNCHANGED <<snapshot, kind, system, stage, cases, current, baseline, history>>
    PROVE  HarnessInv'
<1> DEFINE id == run[w].id
<1>0. PICK k \in DOMAIN run[w].cell.calls : \E r :
          LET call == run[w].cell.calls[k]
              m    == run[w].manifest IN
          /\ log' = Append(log, r) /\ Receipt(LayersOf[system], m, EffectOfCall(m, call), r)
          /\ performed' = IF r.decision = "ADMIT" \/ call.primitive = "kv_get"
                          THEN Append(performed, [by |-> id, call |-> call])
                          ELSE performed
  BY DEF Serves
<1>1. PICK r :
          LET call == run[w].cell.calls[k]
              m    == run[w].manifest IN
          /\ log' = Append(log, r) /\ Receipt(LayersOf[system], m, EffectOfCall(m, call), r)
          /\ performed' = IF r.decision = "ADMIT" \/ call.primitive = "kv_get"
                          THEN Append(performed, [by |-> id, call |-> call])
                          ELSE performed
  BY <1>0
<1> DEFINE e == [by |-> id, call |-> run[w].cell.calls[k]]
<1>2. owner' = Append(owner, id) /\ UNCHANGED results
  BY DEF Serves
<1>3. Threads' /\ Busy /\ Busy'
  BY <1>2, ThreadMoves DEF Serves, HarnessInv
<1>4. id = Latest /\ Latest = Len(results) + 1 /\ kind = "none"
  BY AtItsCell DEF HarnessInv
<1>5. Latest' = Latest /\ Latest \in Nat /\ Latest \in 1 .. Latest
  <2>1. Len(results) \in Nat
    BY ListIs DEF HarnessInv, Lists
  <2> QED
    BY <1>2, <1>3, <1>4, <2>1 DEF Latest
<1>6. r.prev_chain = head(log)
  BY <1>1 DEF Receipt
<1>7. IsList(log) /\ Linked(log) /\ Len(owner) = Len(log) /\ Genuine' = log'
  BY <1>4 DEF HarnessInv, Lists, Genuine
<1>8. /\ IsList(log') /\ Linked(log') /\ Len(log') = Len(log) + 1 /\ Len(log) \in Nat
  BY <1>1, <1>6, <1>7, LinkedGrows, ListGrows, ListIs
<1>9. /\ IsList(owner') /\ Len(owner') = Len(owner) + 1
      /\ DOMAIN owner = 1 .. Len(owner)
      /\ DOMAIN owner' = 1 .. Len(owner) + 1 /\ owner'[Len(owner) + 1] = id
      /\ \A i \in 1 .. Len(owner) : owner'[i] = owner[i]
  BY <1>2, ListIs, ListGrows DEF HarnessInv, Lists
<1>10. /\ IsList(performed')
       /\ \A p \in DOMAIN performed' : \/ performed'[p] = e
                                       \/ p \in DOMAIN performed /\ performed'[p] = performed[p]
  <2>1. performed' = Append(performed, e) \/ performed' = performed
    BY <1>1
  <2> HIDE DEF e
  <2>2. ASSUME performed' = Append(performed, e)
        PROVE  /\ IsList(performed')
               /\ \A p \in DOMAIN performed' : \/ performed'[p] = e
                                               \/ p \in DOMAIN performed
                                                  /\ performed'[p] = performed[p]
    <3>1. /\ IsList(performed') /\ Len(performed) \in Nat
          /\ DOMAIN performed = 1 .. Len(performed)
          /\ DOMAIN performed' = 1 .. Len(performed) + 1
          /\ \A p \in 1 .. Len(performed) : performed'[p] = performed[p]
          /\ performed'[Len(performed) + 1] = e
      BY <2>2, ListIs, ListGrows DEF HarnessInv, Lists
    <3> QED
      BY <3>1
  <2> QED
    BY <2>1, <2>2 DEF HarnessInv, Lists
<1>11. Lists'
  BY <1>7, <1>8, <1>9, <1>10, <1>2 DEF HarnessInv, Lists
<1>12. Stages'
  <2>1. baseline \in 0 .. Len(log') /\ UNCHANGED <<kind, current, baseline, stage, system>>
    BY <1>8 DEF HarnessInv, Stages
  <2>2. Submits(system, current) /\ current \in Cases /\ kind = "none"
    BY DEF HarnessInv, Stages
  <2> QED
    BY <2>1, <2>2 DEF Stages, Submits, HasCvm, LayersOf, Layers, AllLayers
<1>13. Numbers'
  <2>1. \A p \in DOMAIN performed' : performed'[p].by \in 1 .. Latest
    <3>1. e.by = id
      OBVIOUS
    <3> HIDE DEF e
    <3> QED
      BY <1>4, <1>5, <1>10, <3>1 DEF HarnessInv, Numbers
  <2>2. baseline \in 0 .. Len(log)
    BY DEF HarnessInv, Stages
  <2>3. \A i \in DOMAIN owner' : owner'[i] \in 1 .. Latest /\ (owner'[i] = Latest <=> i > baseline)
    <3> TAKE i \in DOMAIN owner'
    <3>1. CASE i = Len(owner) + 1
      BY <1>4, <1>5, <1>7, <1>8, <1>9, <2>2, <3>1
    <3>2. CASE i \in 1 .. Len(owner)
      BY <1>9, <3>2 DEF HarnessInv, Numbers
    <3> QED
      BY <1>9, <1>7, <1>8, <3>1, <3>2
  <2> QED
    BY <1>2, <1>5, <2>1, <2>3 DEF HarnessInv, Numbers
<1>14. Delivered'
  BY ServesDelivers
<1>15. Scored'
  <2>1. \A n : n # id => Charged(n)' = Charged(n)
    BY <1>1, <1>2, <1>4, ChargedGrows DEF HarnessInv
  <2>2. ASSUME NEW i \in DOMAIN history PROVE Accounted(history[i])'
    <3> DEFINE h == history[i]
    <3>1. Accounted(h)
      BY DEF HarnessInv, Scored
    <3>2. h.by # id
      BY <1>4, <1>5 DEF HarnessInv, Numbers
    <3>3. Charged(h.by)' = Charged(h.by)
      BY <2>1, <3>2
    <3>4. (\A j \in DOMAIN owner : owner[j] # h.by) => \A j \in DOMAIN owner' : owner'[j] # h.by
      BY <1>7, <1>8, <1>9, <3>2
    <3>5. h' = h
      OBVIOUS
    <3> HIDE DEF h, id
    <3>6. Accounted(h)'
      BY <3>1, <3>3, <3>4, <3>5 DEF Accounted, OneDestination, Silent, HasCvm, Unsafe, Allowed,
         Accepted, Attack, Breached, LayersOf, Layers, AllLayers
    <3> QED
      BY <3>6 DEF h
  <2> QED
    BY <2>2 DEF Scored
<1> QED
  BY <1>3, <1>11, <1>12, <1>13, <1>14, <1>15 DEF HarnessInv

\* A step of the CVM.
LEMMA RunCellKeeps ==
    ASSUME HarnessInv, NEW w \in Worker, RunCell(w)
    PROVE  HarnessInv'
BY RunCellKinds, MovesKeeps, EndsKeeps, EscapesKeeps, ServesKeeps

\* The cell of a case is submitted, under the next number: what the log holds
\* already is not its own.
LEMMA SubmitCellKeeps ==
    ASSUME HarnessInv, NEW w \in Worker, SubmitCell(w)
    PROVE  HarnessInv'
<1>1. PICK l : l = LayersOf[system] /\ Cvm(l)!Submit(w, CellGiven(system, current))
  BY DEF SubmitCell
<1>2. /\ stage = "submit" /\ stage' = "running"
      /\ UNCHANGED <<snapshot, kind, system, cases, current, baseline, history>>
  BY DEF SubmitCell
<1>3. UNCHANGED <<log, results, owner, performed>> /\ Genuine' = Genuine
  BY <1>1, <1>2 DEF Cvm!Submit, Cvm!brokerVars, Genuine
<1>4. ~Busy /\ kind = "none" /\ current \in Cases /\ Submits(system, current)
      /\ HasCvm(system) /\ baseline = Len(log) /\ baseline \in 0 .. Len(log)
  BY <1>2 DEF HarnessInv, Stages, Submits
<1>5. Latest = Len(results) /\ Latest \in Nat
  BY <1>4, ListIs DEF HarnessInv, Lists, Latest
<1> DEFINE c == CellGiven(system, current)
           new == [Cvm(l)!Idle EXCEPT !.at = "verify", !.cell = c, !.hwm = hwm,
                       !.id = Len(results) + Cvm(l)!Cardinality(Cvm(l)!Running) + 1]
           known == [new EXCEPT !.at = "start", !.manifest = sourceCache[c.source]]
<1>6. Cvm(l)!Cardinality(Cvm(l)!Running) = 0
  <2>1. Cvm(l)!Running = {}
    BY <1>4 DEF Cvm!Running, Busy
  <2>2. Cvm(l)!Cardinality({}) = Cardinality({})
    BY DEF Cvm!Cardinality, Cardinality
  <2> QED
    BY <2>1, <2>2, FS_EmptySet
<1>7. PICK r : /\ run' = [run EXCEPT ![w] = r]
               /\ DOMAIN r = Locals /\ r.next = 1 /\ r.at \in {"verify", "start"}
               /\ r.id = Len(results) + 1 /\ r.cell = c
  <2>1. run' = [run EXCEPT ![w] = new] \/ run' = [run EXCEPT ![w] = known]
    BY <1>1, Zenon DEF Cvm!Submit, Cvm!Goto
  <2>2. /\ DOMAIN new = Locals /\ new.next = 1 /\ new.at = "verify"
        /\ new.id = Len(results) + 1 /\ new.cell = c
    BY <1>5, <1>6 DEF Cvm!Idle, Locals
  <2>3. /\ DOMAIN known = Locals /\ known.next = 1 /\ known.at = "start"
        /\ known.id = new.id /\ known.cell = c
    BY DEF Cvm!Idle, Locals
  <2> HIDE DEF new, known
  <2> QED
    BY <2>1, <2>2, <2>3
<1>8. DOMAIN run = Worker /\ DOMAIN run' = Worker /\ run'[w] = r /\ \A v \in Worker : v = w
  BY <1>7, HarnessAssumption DEF HarnessInv, Threads
<1>9. Busy' /\ Latest' = Len(results) + 1
  BY <1>3, <1>7, <1>8 DEF Busy, Latest
<1>10. Threads'
  <2>1. c' = c
    BY <1>2 DEF CellGiven, Strip
  <2> QED
    BY <1>2, <1>3, <1>7, <1>8, <2>1 DEF Threads, Working
<1>11. Lists'
  BY <1>2, <1>3 DEF HarnessInv, Lists
<1>12. Stages'
  BY <1>2, <1>3, <1>4 DEF HarnessInv, Stages, Submits, HasCvm, LayersOf, Layers, AllLayers
<1>13. Numbers'
  <2>1. \A i \in DOMAIN owner : owner[i] \in 1 .. Latest' /\ owner[i] # Latest' /\ ~(i > baseline)
    <3>1. Len(owner) = Len(log) /\ DOMAIN owner = 1 .. Len(owner) /\ Len(owner) \in Nat
      BY <1>4, ListIs DEF HarnessInv, Lists, Genuine
    <3> QED
      BY <1>4, <1>5, <1>9, <3>1 DEF HarnessInv, Numbers
  <2>2. \A p \in DOMAIN performed : performed[p].by \in 1 .. Latest'
    BY <1>5, <1>9 DEF HarnessInv, Numbers
  <2>3. \A i \in DOMAIN history : history[i].by \in 0 .. Latest' /\ history[i].by < Latest'
    BY <1>5, <1>9 DEF HarnessInv, Numbers
  <2>4. Latest' > 0
    BY <1>5, <1>9
  <2> QED
    BY <1>2, <1>3, <2>1, <2>2, <2>3, <2>4 DEF HarnessInv, Numbers
<1>14. Delivered' /\ Scored'
  BY <1>2, <1>3, ScoresKept DEF HarnessInv
<1> QED
  BY <1>10, <1>11, <1>12, <1>13, <1>14 DEF HarnessInv

\* A case begins.
LEMMA BeginKeeps ==
    ASSUME HarnessInv, Begin
    PROVE  HarnessInv'
<1>1. /\ stage = "ready" /\ kind = "none" /\ cases # <<>>
      /\ current' = Head(cases) /\ cases' = Tail(cases)
      /\ baseline' = IF HasCvm(system) THEN Len(log) ELSE 0
      /\ stage' = IF Submits(system, Head(cases)) THEN "submit" ELSE "decide"
      /\ UNCHANGED <<snapshot, kind, system, history>>
  BY DEF Begin
<1>2. UNCHANGED <<log, run, results, owner, performed>>
  <2>1. CASE HasCvm(system)
    <3>1. PICK l : Cvm(l)!ResetSession
      BY <2>1 DEF Begin
    <3> QED
      BY <3>1 DEF Cvm!ResetSession, Cvm!reset_session
  <2>2. CASE ~HasCvm(system)
    BY <2>2 DEF Begin, cvmLocals
  <2> QED
    BY <2>1, <2>2
<1>3. Genuine' = Genuine /\ ~Busy /\ Busy' = Busy /\ Latest' = Latest
  BY <1>1, <1>2 DEF Genuine, HarnessInv, Stages, Busy, Latest
<1>4. current' \in Cases /\ cases' \in Seq(Cases)
  BY <1>1, HeadTailProperties DEF HarnessInv, Lists
<1>5. Lists'
  BY <1>1, <1>2, <1>3, <1>4 DEF HarnessInv, Lists
<1>6. Stages'
  <2>1. Submits(system, current)' <=> Submits(system, current')
    BY <1>1 DEF Submits, HasCvm, LayersOf, Layers, AllLayers
  <2>2. HasCvm(system)' <=> HasCvm(system)
    BY <1>1 DEF HasCvm, LayersOf, Layers, AllLayers
  <2>3. Len(log) \in Nat
    BY <1>1, ListIs DEF HarnessInv, Lists, Genuine
  <2>4. baseline' \in 0 .. Len(log)
    BY <1>1, <2>3
  <2>5. Submits(system, current') => HasCvm(system)
    BY DEF Submits
  <2> QED
    BY <1>1, <1>2, <1>3, <1>4, <2>1, <2>2, <2>4, <2>5 DEF Stages
<1>7. Threads'
  BY <1>2, <1>3 DEF HarnessInv, Threads, Working, Busy, Offered, Cvm!ProxyPrimitive
<1>8. Numbers'
  <2>1. stage' # "running"
    BY <1>1
  <2> QED
    BY <1>1, <1>2, <1>3, <2>1 DEF HarnessInv, Numbers
<1>9. Delivered' /\ Scored'
  BY <1>1, <1>2, <1>3, ScoresKept DEF HarnessInv
<1> QED
  BY <1>5, <1>6, <1>7, <1>8, <1>9 DEF HarnessInv

\* The study has a copy of the log while it tampers with it.
LEMMA StudyKeeps ==
    ASSUME HarnessInv, Study
    PROVE  HarnessInv'
<1>1. stage = "ready" /\ UNCHANGED <<run, results, owner, performed, system, stage, cases,
                                     current, baseline, history>>
  BY DEF Study, cvmLocals, caseVars
<1>2. Genuine' = Genuine
  <2>1. CASE Trial
    <3>1. PICK name, changed : Perturb(name, changed) /\ name # "none"
      BY <2>1 DEF Trial, _tamper, _replay, _splice, _visible_gap, _p4_forge
    <3> QED
      BY <3>1 DEF Perturb, Genuine
  <2>2. CASE Restore
    BY <2>2 DEF Restore, Genuine
  <2> QED
    BY <2>1, <2>2 DEF Study
<1>3. Busy' = Busy /\ Latest' = Latest
  BY <1>1 DEF Busy, Latest
<1>4. Lists'
  BY <1>1, <1>2 DEF HarnessInv, Lists
<1>5. Stages'
  BY <1>1, <1>3 DEF HarnessInv, Stages
<1>6. Threads'
  BY <1>1 DEF HarnessInv, Threads, Working, Offered, Cvm!ProxyPrimitive, CellGiven, Strip
<1>7. Numbers'
  BY <1>1, <1>3 DEF HarnessInv, Numbers
<1>8. Delivered' /\ Scored'
  BY <1>1, <1>2, ScoresKept DEF HarnessInv
<1> QED
  BY <1>4, <1>5, <1>6, <1>7, <1>8 DEF HarnessInv

\* The receipts since the baseline are those of the submission of the case.
LEMMA SinceIsOwn ==
    ASSUME HarnessInv, ~Busy, stage \in {"decide", "running"},
           NEW by, by = IF stage = "running" THEN results[Len(results)].by ELSE 0
    PROVE  /\ IsList(Since(baseline)) /\ Linked(Since(baseline))
           /\ by \in 0 .. Latest
           /\ AdmittedMuts(Mine(system, Since(baseline))) = Cardinality(Charged(by))
           /\ Since(baseline) = <<>> => \A i \in DOMAIN owner : owner[i] # by
           /\ stage = "decide" => Cardinality(Charged(by)) = 0
<1> DEFINE recs == Since(baseline)
           past == {i \in MutsIn(log) : i > baseline}
<1>1. /\ kind = "none" /\ IsList(log) /\ Linked(log) /\ Len(owner) = Len(log)
      /\ baseline \in 0 .. Len(log) /\ Genuine = log
      /\ Len(log) \in Nat /\ DOMAIN log = 1 .. Len(log) /\ DOMAIN owner = 1 .. Len(log)
  BY ListIs DEF HarnessInv, Lists, Stages, Genuine
<1>2. /\ IsList(recs) /\ Len(recs) = Len(log) - baseline
      /\ Linked(recs) /\ AdmittedMuts(recs) = Cardinality(past)
  BY <1>1, CountSince DEF Since
<1> HIDE DEF recs
<1>3. Latest = Len(results) /\ Latest \in Nat
  BY ListIs DEF HarnessInv, Lists, Latest
<1>4. \A i \in DOMAIN owner : owner[i] \in 1 .. Latest
  BY DEF HarnessInv, Numbers
<1>5. CASE stage = "running"
  <2>1. by = Latest /\ Latest > 0 /\ HasCvm(system)
    <3>1. Latest > 0
      BY <1>5 DEF HarnessInv, Numbers
    <3>2. Len(results) \in DOMAIN results
      BY <1>3, <3>1, ListIs DEF HarnessInv, Lists
    <3> QED
      BY <1>3, <1>5, <3>1, <3>2 DEF HarnessInv, Numbers, Stages, Submits
  <2>2. Charged(by) = past
    BY <1>1, <1>5, <2>1 DEF HarnessInv, Numbers, Charged, MutsIn
  <2>3. Mine(system, recs) = recs
    BY <2>1 DEF Mine
  <2>4. recs = <<>> => \A i \in DOMAIN owner : owner[i] # by
    <3>1. recs = <<>> => Len(log) - baseline = 0
      BY <1>2, ListIs
    <3>2. recs = <<>> => \A i \in DOMAIN owner : ~(i > baseline)
      BY <1>1, <3>1
    <3> QED
      BY <1>5, <2>1, <3>2 DEF HarnessInv, Numbers
  <2>5. by \in 0 .. Latest /\ stage # "decide"
    BY <1>3, <1>5, <2>1
  <2>6. AdmittedMuts(Mine(system, recs)) = Cardinality(Charged(by))
    BY <1>2, <2>2, <2>3
  <2> HIDE DEF past
  <2> QED
    BY <1>2, <2>4, <2>5, <2>6 DEF recs
<1>6. CASE stage = "decide"
  <2>1. by = 0 /\ \A i \in DOMAIN owner : owner[i] # by
    BY <1>3, <1>4, <1>6
  <2>2. Charged(by) = {}
    BY <1>1, <2>1 DEF Charged, MutsIn
  <2>3. HasCvm(system) => past = {}
    BY <1>1, <1>6 DEF HarnessInv, Stages, MutsIn
  <2>4. AdmittedMuts(<<>>) = Cardinality({})
    BY DEF AdmittedMuts
  <2>5. AdmittedMuts(Mine(system, recs)) = Cardinality({})
    BY <1>2, <2>3, <2>4 DEF Mine
  <2>6. by \in 0 .. Latest
    BY <1>3, <2>1
  <2>7. /\ AdmittedMuts(Mine(system, recs)) = Cardinality(Charged(by))
        /\ Cardinality(Charged(by)) = 0
    BY <2>2, <2>5, FS_EmptySet
  <2> QED
    BY <1>2, <2>1, <2>6, <2>7 DEF recs
<1> QED
  BY <1>5, <1>6

\* A decided case is accounted for.
LEMMA ScoreKeeps ==
    ASSUME HarnessInv, NEW w \in Worker, Score(w)
    PROVE  HarnessInv'
<1> DEFINE submitted == stage = "running"
           last == results[Len(results)]
           by == IF submitted THEN last.by ELSE 0
           given == IF submitted THEN last.outcome ELSE "none"
           d == decide(system, current, given)
           recs == Since(baseline)
           o == Outcome(system, current, d.decision, recs, d.writes, Len(history))
           h == [case |-> current, by |-> by, writes |-> d.writes, outcome |-> o]
           n == AdmittedMuts(Mine(system, recs))
<1>1. /\ stage \in {"decide", "running"} /\ run[w].at = "idle"
      /\ history' = Append(history, h)
      /\ stage' = "ready" /\ baseline' = 0
      /\ UNCHANGED <<log, run, results, owner, performed, snapshot, kind, system, cases>>
  BY Zenon DEF Score, cvmLocals
<1>2. ~Busy /\ Busy' = Busy /\ Latest' = Latest /\ Genuine' = Genuine
  BY <1>1, HarnessAssumption DEF Busy, Latest, Genuine
<1>3. /\ IsList(recs) /\ Linked(recs) /\ by \in 0 .. Latest
      /\ n = Cardinality(Charged(by))
      /\ recs = <<>> => \A i \in DOMAIN owner : owner[i] # by
      /\ stage = "decide" => n = 0
  <2>1. by = IF stage = "running" THEN results[Len(results)].by ELSE 0
    OBVIOUS
  <2> HIDE DEF by
  <2> QED
    BY <1>1, <1>2, <2>1, SinceIsOwn
<1>4. current \in Cases /\ current.dests \in Seq(STRING)
  BY <1>1, HarnessAssumption DEF HarnessInv, Stages
<1>5. /\ n \in Nat /\ o.committed_mutations = Larger(n, Len(d.writes))
      /\ o.committed_mutations \in Nat /\ o.policy_violating_commits \in Nat
      /\ Unsafe(o) \/ Allowed(o) => Accepted(o)
      /\ Unsafe(o) => o.committed_mutations > 0
      /\ o.pycap_rejected => /\ HasCvm(system) /\ recs = <<>>
                             /\ OneDestination(current) => o.committed_mutations = 0
      /\ n = 0 \/ d.writes = <<>> => o.policy_violating_commits <= o.committed_mutations
      /\ ~Breached(o)
      /\ Silent(system) => /\ o.committed_mutations = n
                           /\ o.policy_violating_commits = IF Attack(o) THEN n ELSE 0
  <2> HIDE DEF recs, given
  <2> QED
    BY <1>3, <1>4, OutcomeIs
<1>6. Silent(system) => d.writes = <<>>
  <2> HIDE DEF given
  <2> QED
    BY <1>4, DecisionAnswers
<1>7. system \notin {"B2_strict_seccomp", "StaticManifest_only_no_broker"} =>
        n = 0 \/ d.writes = <<>>
  <2> SUFFICES ASSUME system \notin {"B2_strict_seccomp", "StaticManifest_only_no_broker"},
                      ~Silent(system)
               PROVE  n = 0
    BY <1>6
  <2>1. CASE ~HasCvm(system)
    <3>1. stage = "decide"
      BY <1>1, <2>1 DEF HarnessInv, Stages, Submits
    <3> QED
      BY <1>3, <3>1
  <2>2. CASE HasCvm(system)
    <3>1. system \in {"Sandbox_only", "Policy_only_no_manifest"}
      BY <2>2 DEF Silent
    <3>2. stage = "decide"
      BY <1>1, <3>1 DEF HarnessInv, Stages, Submits
    <3> QED
      BY <1>3, <3>2
  <2> QED
    BY <2>1, <2>2
<1> HIDE DEF n, o, by, recs, d
<1>8. h.by = by /\ h.outcome = o /\ h.writes = d.writes
  OBVIOUS
<1> HIDE DEF h
<1>9. Accounted(h)
  BY <1>3, <1>4, <1>5, <1>7, <1>8 DEF Accounted
<1>10. /\ IsList(history') /\ Len(history) \in Nat /\ DOMAIN history = 1 .. Len(history)
       /\ DOMAIN history' = 1 .. Len(history) + 1
       /\ \A i \in 1 .. Len(history) : history'[i] = history[i]
       /\ history'[Len(history) + 1] = h
  BY <1>1, ListIs, ListGrows DEF HarnessInv, Lists
<1>11. \A n_ : Charged(n_)' = Charged(n_) /\ Sent(n_)' = Sent(n_)
  BY <1>1, <1>2, CountsKept
<1>12. Scored'
  <2> SUFFICES ASSUME NEW i \in DOMAIN history' PROVE Accounted(history[i])'
    BY DEF Scored
  <2>1. PICK e : e = history'[i] /\ Accounted(e)
    <3>1. CASE i = Len(history) + 1
      BY <1>9, <1>10, <3>1
    <3>2. CASE i \in DOMAIN history
      BY <1>10, <3>2 DEF HarnessInv, Scored
    <3> QED
      BY <1>10, <3>1, <3>2
  <2> QED
    BY <1>1, <1>11, <2>1 DEF Accounted, OneDestination, Silent, HasCvm, Unsafe, Allowed,
       Accepted, Attack, Breached, LayersOf, Layers, AllLayers
<1>13. Delivered'
  <2>1. LayersOf' = LayersOf
    BY DEF LayersOf, Layers, AllLayers
  <2> QED
    BY <1>1, <1>11, <2>1, Zenon DEF HarnessInv, Delivered, HasCvm
<1>14. Lists'
  BY <1>1, <1>2, <1>10 DEF HarnessInv, Lists
<1>15. Stages'
  BY <1>1, <1>2 DEF Stages
<1>16. Threads'
  BY <1>1, <1>2 DEF HarnessInv, Threads, Working, Busy, Offered, Cvm!ProxyPrimitive
<1>17. Numbers'
  <2>1. \A i \in DOMAIN history' : history'[i].by \in 0 .. Latest
    BY <1>3, <1>8, <1>10 DEF HarnessInv, Numbers
  <2> QED
    BY <1>1, <1>2, <2>1 DEF HarnessInv, Numbers
<1> QED
  BY <1>12, <1>13, <1>14, <1>15, <1>16, <1>17 DEF HarnessInv

\* Nothing has happened yet.
LEMMA HarnessStart == HarnessInit => HarnessInv
<1> SUFFICES ASSUME HarnessInit PROVE HarnessInv
  OBVIOUS
<1>1. /\ log = <<>> /\ snapshot = <<>> /\ kind = "none" /\ stage = "ready" /\ baseline = 0
      /\ history = <<>> /\ results = <<>> /\ owner = <<>> /\ performed = <<>>
      /\ run = [w \in Worker |-> Cvm(AllLayers)!Idle]
  BY DEF HarnessInit, StudyInit, Cvm!CvmInit, Cvm!Init
<1>2. cases \in Seq(Cases)
  <2>1. cases \in [1 .. MaxCases -> Cases]
    BY DEF HarnessInit
  <2> QED
    BY <2>1, HarnessAssumption, SeqDef
<1>3. IsList(<<>>) /\ Len(<<>>) = 0 /\ DOMAIN <<>> = {}
  BY EmptySeq DEF IsList
<1>4. Genuine = <<>> /\ ~Busy /\ Latest = 0
  BY <1>1, <1>3 DEF Genuine, Busy, Latest, Cvm!Idle
<1>5. Lists
  BY <1>1, <1>2, <1>3, <1>4 DEF Lists, Linked
<1>6. Stages
  BY <1>1, <1>4 DEF Stages
<1>7. Threads
  BY <1>1 DEF Threads, Working, Cvm!Idle, Locals
<1>8. Numbers
  BY <1>1, <1>3 DEF Numbers
<1>9. Delivered
  <2>1. \A n : Sent(n) = {} /\ Charged(n) = {}
    BY <1>1, <1>3, <1>4 DEF Sent, Served, Charged, MutsIn
  <2> QED
    BY <1>1, <1>3, <2>1 DEF Delivered
<1>10. Scored
  BY <1>1, <1>3 DEF Scored
<1> QED
  BY <1>5, <1>6, <1>7, <1>8, <1>9, <1>10 DEF HarnessInv

\* Nothing moves in a stuttering step.
LEMMA StuttersKeep ==
    ASSUME HarnessInv, UNCHANGED harnessVars
    PROVE  HarnessInv'
<1>1. UNCHANGED <<log, run, results, owner, performed, snapshot, kind, system, stage, cases,
                  current, baseline, history>>
  BY DEF harnessVars, cvmLocals, caseVars
<1>2. Genuine' = Genuine /\ Busy' = Busy /\ Latest' = Latest
  BY <1>1 DEF Genuine, Busy, Latest
<1>3. Lists' /\ Stages' /\ Numbers'
  BY <1>1, <1>2 DEF HarnessInv, Lists, Stages, Numbers, Submits, HasCvm, LayersOf, Layers,
     AllLayers
<1>4. Threads'
  BY <1>1 DEF HarnessInv, Threads, Working, Offered, Cvm!ProxyPrimitive, CellGiven, Strip
<1>5. Delivered' /\ Scored'
  BY <1>1, <1>2, ScoresKept DEF HarnessInv
<1> QED
  BY <1>3, <1>4, <1>5 DEF HarnessInv

\* The invariant that the theorems below rest on, for any systems, cases and
\* policy: the log and the owners, performed and the history tell one story.
THEOREM HarnessInvariant == HarnessSpec => []HarnessInv
<1>1. HarnessInv /\ [HarnessNext]_harnessVars => HarnessInv'
  BY BeginKeeps, SubmitCellKeeps, RunCellKeeps, ScoreKeeps, StudyKeeps, StuttersKeep
     DEF HarnessNext, Work
<1> QED
  BY <1>1, HarnessStart, PTL DEF HarnessSpec

-----------------------------------------------------------------------------
(* What the tables report *)

\* The outcomes are coherent.
LEMMA OutcomesCohere == HarnessInv => Coherent(Outcomes)
<1> SUFFICES ASSUME HarnessInv PROVE Coherent(Outcomes)
  OBVIOUS
<1>1. DOMAIN Outcomes = DOMAIN history /\ \A i \in DOMAIN history : Outcomes[i] = history[i].outcome
  BY DEF Outcomes
<1>2. IsFiniteSet(DOMAIN history)
  BY CountInList DEF HarnessInv, Lists
<1> HIDE DEF Outcomes
<1>3. ASSUME NEW i \in DOMAIN history
      PROVE  LET o == Outcomes[i] IN
             /\ o.policy_violating_commits \in Nat /\ o.committed_mutations \in Nat
             /\ Unsafe(o) \/ Allowed(o) => Accepted(o)
             /\ Unsafe(o) => o.committed_mutations > 0
  <2>1. Accounted(history[i])
    BY DEF HarnessInv, Scored
  <2> QED
    BY <1>1, <2>1 DEF Accounted
<1> QED
  BY <1>1, <1>2, <1>3 DEF Coherent

\* The rates of the several tables tell one story.
THEOREM TablesTellOneStory == HarnessSpec => []AperturesAgree
<1>1. HarnessInv => AperturesAgree
  BY OutcomesCohere, UnsafeSplits, SuccessAmongAccepted, AllowedSucceeds, CompletionIsSuccess,
     BlockedFails, TablesAgree DEF AperturesAgree
<1> QED
  BY <1>1, HarnessInvariant, PTL

\* A case is charged with the mutations of its own submission and of no other.
THEOREM CasesPayForThemselves == HarnessSpec => []AccountingIsLocal
<1>1. HarnessInv => AccountingIsLocal
  <2> SUFFICES ASSUME HarnessInv, kind = "none", NEW i \in DOMAIN history
               PROVE  LET o == history[i].outcome IN
                      /\ o.committed_mutations
                           = Larger(AdmittedBy(history[i].by), Len(history[i].writes))
                      /\ system \notin {"B2_strict_seccomp", "StaticManifest_only_no_broker"} =>
                           o.policy_violating_commits <= o.committed_mutations
    BY DEF AccountingIsLocal
  <2>1. Accounted(history[i])
    BY DEF HarnessInv, Scored
  <2>2. DOMAIN owner = DOMAIN log /\ Genuine = log
    BY ListIs DEF HarnessInv, Lists, Genuine
  <2>3. \A n : {k \in DOMAIN owner : /\ owner[k] = n /\ k \in DOMAIN log
                                     /\ log[k].decision = "ADMIT"
                                     /\ log[k].effect.kind = "Mut"} = Charged(n)
    BY <2>2 DEF Charged, MutsIn
  <2>4. AdmittedBy(history[i].by) = Cardinality(Charged(history[i].by))
    BY <2>3 DEF AdmittedBy
  <2> QED
    BY <2>1, <2>4 DEF Accounted
<1> QED
  BY <1>1, HarnessInvariant, PTL

\* "rejected units do not reach the Broker, so they cannot be policy-violating"
\* (common.py:359-361), provided no case spells two destinations that differ: the
\* policy baseline writes the one before it is stopped at the other, and counts
\* as rejected with a commit.
THEOREM RejectedAreNotRun ==
    (\A c \in Cases : OneDestination(c)) => (HarnessSpec => []RejectedStayOut)
<1> SUFFICES ASSUME \A c \in Cases : OneDestination(c)
             PROVE  HarnessSpec => []RejectedStayOut
  OBVIOUS
<1>1. HarnessInv => RejectedStayOut
  <2> SUFFICES ASSUME HarnessInv, NEW i \in DOMAIN history,
                      history[i].outcome.pycap_rejected
               PROVE  /\ history[i].outcome.committed_mutations = 0
                      /\ LayersOf[system].kernel =>
                           \A p \in DOMAIN performed : performed[p].by # history[i].by
    BY DEF RejectedStayOut
  <2>1. /\ history[i].outcome.committed_mutations = 0
        /\ \A k \in DOMAIN owner : owner[k] # history[i].by
    BY DEF HarnessInv, Scored, Accounted
  <2>2. HasCvm(system) /\ LayersOf[system].kernel =>
           \A p \in DOMAIN performed : \E k \in DOMAIN owner : owner[k] = performed[p].by
    BY Zenon DEF HarnessInv, Delivered
  <2>3. HasCvm(system)
    BY DEF HarnessInv, Scored, Accounted
  <2> QED
    BY <2>1, <2>2, <2>3, Zenon
<1> QED
  BY <1>1, HarnessInvariant, PTL

\* The full systems have a CVM with all layers, which has the last word.
LEMMA FullIsSilent ==
    ASSUME system \in FullSystems
    PROVE  /\ HasCvm(system) /\ LayersOf[system] = AllLayers /\ Silent(system)
           /\ \A c \in Cases : Submits(system, c)
BY DEF FullSystems, HasCvm, LayersOf, Silent, Submits

\* Where no outcome is breached both ghost rates are zero.
LEMMA NoGhosts ==
    ASSUME NEW outs, \A i \in DOMAIN outs : ~Breached(outs[i])
    PROVE  umec_rate(outs)[1] = 0 /\ unit_umec_rate(outs)[1] = 0
<1> DEFINE T == {i \in DOMAIN outs : Attack(outs[i])}
           A == {i \in DOMAIN outs : AcceptedAttack(outs[i])}
<1>1. {i \in T : Breached(outs[i])} = {} /\ {i \in A : Breached(outs[i])} = {}
  OBVIOUS
<1>2. Cardinality({}) = 0 /\ Units(outs, {}) = {}
  BY FS_EmptySet DEF Units
<1>3. umec_rate(outs) = IF T = {} THEN <<0, 1>> ELSE <<0, Cardinality(T)>>
  BY <1>1, <1>2 DEF umec_rate, Rate
<1>4. unit_umec_rate(outs) = IF A = {} THEN <<0, 1>> ELSE <<0, Cardinality(Units(outs, A))>>
  BY <1>1, <1>2 DEF unit_umec_rate
<1> HIDE DEF T, A
<1> QED
  BY <1>3, <1>4

\* The ghost rates are zero, and in the full system zero is what happened: as
\* many mutations reached a service as the broker admitted.
THEOREM GhostsAreTrue == HarnessSpec => []ReportedGhostsAreTrue
<1>1. HarnessInv => ReportedGhostsAreTrue
  <2> SUFFICES ASSUME HarnessInv, system \in FullSystems, NEW i \in DOMAIN history
               PROVE  LET sent == {p \in DOMAIN performed :
                                     /\ performed[p].by = history[i].by
                                     /\ performed[p].call.kind = "Mut"} IN
                      /\ umec_rate(Outcomes)[1] + unit_umec_rate(Outcomes)[1] = 0
                      /\ Cardinality(sent) = history[i].outcome.committed_mutations
    BY DEF ReportedGhostsAreTrue
  <2>1. Accounted(history[i])
    BY DEF HarnessInv, Scored
  <2>2. umec_rate(Outcomes)[1] = 0 /\ unit_umec_rate(Outcomes)[1] = 0
    <3>1. \A k \in DOMAIN Outcomes : ~Breached(Outcomes[k])
      BY DEF Outcomes, HarnessInv, Scored, Accounted
    <3> HIDE DEF Outcomes
    <3> QED
      BY <3>1, NoGhosts
  <2>3. {p \in DOMAIN performed : /\ performed[p].by = history[i].by
                                  /\ performed[p].call.kind = "Mut"} = Sent(history[i].by)
    BY DEF Sent, Served
  <2>4. history[i].by \in Nat
    <3>1. Latest \in Nat
      BY ListIs DEF HarnessInv, Lists, Latest
    <3> QED
      BY <3>1 DEF HarnessInv, Numbers
  <2>5. HasCvm(system) /\ LayersOf[system].kernel /\ Silent(system)
    BY FullIsSilent DEF AllLayers, Layers
  <2>6. Cardinality(Sent(history[i].by)) = Cardinality(Charged(history[i].by))
    BY <2>4, <2>5, Zenon DEF HarnessInv, Delivered
  <2>7. history[i].outcome.committed_mutations = Cardinality(Charged(history[i].by))
    BY <2>1, <2>5 DEF Accounted
  <2>8. umec_rate(Outcomes)[1] + unit_umec_rate(Outcomes)[1] = 0
    BY <2>2
  <2>9. Cardinality({p \in DOMAIN performed : /\ performed[p].by = history[i].by
                                              /\ performed[p].call.kind = "Mut"})
          = history[i].outcome.committed_mutations
    BY <2>3, <2>6, <2>7, Zenon
  <2> QED
    BY <2>8, <2>9, Zenon
<1> QED
  BY <1>1, HarnessInvariant, PTL

-----------------------------------------------------------------------------
(* The full system and the attacks *)

\* Whatever manifest the full system holds for a cell, the verifier gave it to
\* the IR of that cell, in whatever session and at whatever mark.
Judged ==
    system \in FullSystems =>
        /\ hwm \in Label
        /\ \A ir \in DOMAIN manifestCache : manifestCache[ir] \in VerdictsFor(system, Cases, ir)
        /\ \A c \in Cases :
              LET cell == CellGiven(system, c) IN
              cell.source \in DOMAIN sourceCache =>
                  sourceCache[cell.source] \in VerdictsFor(system, Cases, cell.ir)
        /\ \A w \in Worker :
              /\ run[w].at \notin {"idle", "verify"} =>
                    run[w].manifest \in VerdictsFor(system, Cases, run[w].cell.ir)
              /\ run[w].at = "raise" => run[w].joined \in Label

\* A verdict is a manifest with a ceiling.
LEMMA VerdictHasCeiling ==
    ASSUME system \in FullSystems, NEW ir, NEW m \in VerdictsFor(system, Cases, ir)
    PROVE  m.label_ceiling \in Label /\ m # Rejected
<1>1. PICK c \in Cases, lb \in Label :
         m = CellGiven(system, c).verdict[lb] /\ m # Rejected
  BY DEF VerdictsFor
<1>2. system \in DOMAIN LayersOf
  BY FullIsSilent DEF HasCvm
<1> QED
  BY <1>1, <1>2, HarnessAssumption

\* What the verifier says now of the cell of the case is one.
LEMMA VerdictIsOne ==
    ASSUME system \in FullSystems, current \in Cases, hwm \in Label,
           NEW cell, cell = CellGiven(system, current), cell.verdict[hwm] # Rejected
    PROVE  cell.verdict[hwm] \in VerdictsFor(system, Cases, cell.ir)
BY DEF VerdictsFor

\* The locals r hold a verdict on their cell.
HoldsVerdict(r) ==
    /\ r.at \notin {"idle", "verify"} => r.manifest \in VerdictsFor(system, Cases, r.cell.ir)
    /\ r.at = "raise" => r.joined \in Label

\* What is to be shown after a step that keeps the system.
LEMMA JudgedAfter ==
    ASSUME system \in FullSystems, UNCHANGED system, DOMAIN run' = Worker,
           hwm' \in Label,
           \A ir \in DOMAIN manifestCache' :
              manifestCache'[ir] \in VerdictsFor(system, Cases, ir),
           \A c \in Cases :
              CellGiven(system, c).source \in DOMAIN sourceCache' =>
                  sourceCache'[CellGiven(system, c).source]
                     \in VerdictsFor(system, Cases, CellGiven(system, c).ir),
           \A w \in Worker : HoldsVerdict(run'[w])
    PROVE  Judged'
BY DEF Judged, HoldsVerdict

\* A step of the CVM keeps to the verdicts: what goes into a cache is one, and
\* what is found there is one, as the source determines the IR.
LEMMA RunCellKeepsVerdicts ==
    ASSUME HarnessInv, Judged, NEW w \in Worker, RunCell(w)
    PROVE  Judged'
<1>1. /\ stage = "running" /\ run[w].at # "idle" /\ UNCHANGED system
      /\ DOMAIN run = Worker /\ DOMAIN run' = Worker
  BY RunCellKinds, RunCellKeeps DEF HarnessInv, Threads
<1> SUFFICES ASSUME system \in FullSystems PROVE Judged'
  BY <1>1 DEF Judged
<1> DEFINE l == AllLayers
           cell == CellGiven(system, current)
           V(ir) == VerdictsFor(system, Cases, ir)
<1>2. Cvm(l)!Step(w)
  BY FullIsSilent DEF RunCell
<1>3. run[w].cell = cell /\ current \in Cases
  BY <1>1, AtItsCell DEF HarnessInv
<1>4. /\ hwm \in Label
      /\ \A ir \in DOMAIN manifestCache : manifestCache[ir] \in V(ir)
      /\ \A c \in Cases : CellGiven(system, c).source \in DOMAIN sourceCache =>
            sourceCache[CellGiven(system, c).source] \in V(CellGiven(system, c).ir)
      /\ run[w].at # "verify" => run[w].manifest \in V(cell.ir)
      /\ run[w].at = "raise" => run[w].joined \in Label
  BY <1>1, <1>3 DEF Judged
<1>5. \A v \in Worker : v = w
  BY HarnessAssumption
<1>6. DOMAIN run[w] = Locals
  BY DEF HarnessInv, Threads, Working
<1>7. ASSUME UNCHANGED <<hwm, manifestCache, sourceCache>>, HoldsVerdict(run'[w])
      PROVE  Judged'
  BY <1>1, <1>4, <1>5, <1>7, JudgedAfter
<1>8. ASSUME NEW outcome, Cvm(l)!Answer(w, outcome) PROVE HoldsVerdict(run'[w])
  <2>1. run'[w] = Cvm(l)!Idle
    BY <1>1, <1>8 DEF Cvm!Answer
  <2> QED
    BY <2>1 DEF HoldsVerdict, Cvm!Idle
<1>9. CASE Cvm(l)!Verify(w)
  <2>1. run[w].at = "verify" /\ UNCHANGED <<hwm, manifestCache, sourceCache>>
    BY <1>9 DEF Cvm!Verify, Cvm!caches
  <2>2. Cvm(l)!UsesVerifier
    BY DEF Cvm!UsesVerifier, AllLayers, Layers
  <2> DEFINE m == Cvm(l)!KnownManifest(cell)
  <2>3. \/ \E outcome : Cvm(l)!Answer(w, outcome)
        \/ \E at \in {"store", "file"} :
              m # Cvm(l)!Rejected /\ Cvm(l)!Goto(w, [run[w] EXCEPT !.at = at, !.manifest = m])
    BY <1>3, <1>9, <2>2, Zenon DEF Cvm!Verify
  <2>4. m # Cvm(l)!Rejected => m \in V(cell.ir)
    BY <1>3, <1>4, VerdictIsOne DEF Cvm!KnownManifest, Cvm!Rejected, Rejected
  <2> HIDE DEF m
  <2>5. ASSUME NEW at \in {"store", "file"}, m # Cvm(l)!Rejected,
               Cvm(l)!Goto(w, [run[w] EXCEPT !.at = at, !.manifest = m])
        PROVE  HoldsVerdict(run'[w])
    <3>1. run'[w] = [run[w] EXCEPT !.at = at, !.manifest = m]
      BY <1>1, <2>5 DEF Cvm!Goto
    <3>2. run'[w].at = at /\ run'[w].manifest = m /\ run'[w].cell = cell
      BY <1>3, <1>6, <3>1 DEF Locals
    <3> QED
      BY <2>4, <2>5, <3>2 DEF HoldsVerdict
  <2> QED
    BY <1>7, <1>8, <2>1, <2>3, <2>5
<1>10. CASE Cvm(l)!Store(w) \/ Cvm(l)!File(w)
  <2> DEFINE m == run[w].manifest
  <2> DEFINE at == IF run[w].at = "store" THEN "file" ELSE "start"
  <2>1. /\ run[w].at \in {"store", "file"} /\ UNCHANGED hwm
        /\ sourceCache' = sourceCache
           \/ sourceCache' = Cvm(l)!Put(sourceCache, cell.source, m)
        /\ manifestCache' = manifestCache
           \/ manifestCache' = Cvm(l)!Put(manifestCache, cell.ir, m)
        /\ run' = [run EXCEPT ![w] = [run[w] EXCEPT !.at = at]]
    BY <1>3, <1>10, Zenon DEF Cvm!Store, Cvm!File, Cvm!Goto
  <2>2. m \in V(cell.ir)
    BY <1>4, <2>1
  <2>3. HoldsVerdict(run'[w])
    <3>1. run'[w].at = at /\ run'[w].manifest = m /\ run'[w].cell = cell
      BY <1>1, <1>3, <1>6, <2>1 DEF Locals
    <3> QED
      BY <2>2, <3>1 DEF HoldsVerdict
  <2>4. \A ir \in DOMAIN manifestCache' : manifestCache'[ir] \in V(ir)
    <3>1. CASE manifestCache' = manifestCache
      BY <1>4, <3>1
    <3>2. CASE manifestCache' = Cvm(l)!Put(manifestCache, cell.ir, m)
      BY <1>4, <2>2, <3>2 DEF Cvm!Put
    <3> QED
      BY <2>1, <3>1, <3>2
  <2>5. \A c \in Cases : CellGiven(system, c).source \in DOMAIN sourceCache' =>
            sourceCache'[CellGiven(system, c).source] \in V(CellGiven(system, c).ir)
    <3> SUFFICES ASSUME NEW c \in Cases, CellGiven(system, c).source \in DOMAIN sourceCache'
                 PROVE  sourceCache'[CellGiven(system, c).source] \in V(CellGiven(system, c).ir)
      OBVIOUS
    <3> DEFINE other == CellGiven(system, c)
    <3>1. cell.source = other.source => cell.ir = other.ir
      BY <1>3, FullIsSilent, HarnessAssumption DEF HasCvm
    <3> HIDE DEF m, V
    <3>2. CASE sourceCache' = sourceCache
      BY <1>4, <3>2
    <3>3. ASSUME sourceCache' = Cvm(l)!Put(sourceCache, cell.source, m),
                 other.source = cell.source
          PROVE  sourceCache'[other.source] \in V(other.ir)
      BY <2>2, <3>1, <3>3 DEF Cvm!Put
    <3>4. ASSUME sourceCache' = Cvm(l)!Put(sourceCache, cell.source, m),
                 other.source # cell.source
          PROVE  sourceCache'[other.source] \in V(other.ir)
      BY <1>4, <3>4 DEF Cvm!Put, other
    <3> QED
      BY <2>1, <3>2, <3>3, <3>4 DEF other
  <2> QED
    BY <1>1, <1>4, <1>5, <2>1, <2>3, <2>4, <2>5, JudgedAfter
<1>11. CASE Cvm(l)!Start(w) \/ Cvm(l)!Return(w) \/ Cvm(l)!GetToken(w) \/ Cvm(l)!SubmitEffect(w)
  <2>1. /\ run[w].at \notin {"idle", "verify"} /\ UNCHANGED <<hwm, manifestCache, sourceCache>>
        /\ \/ run' = [run EXCEPT ![w] = [run[w] EXCEPT !.at = "exec", !.baseline = Len(log)]]
           \/ run' = [run EXCEPT ![w] = [run[w] EXCEPT !.at = "judge"]]
           \/ run' = [run EXCEPT ![w] =
                 [run[w] EXCEPT !.at = "submit", !.token = Cvm(l)!FreshToken(run[w].manifest)]]
           \/ run' = [run EXCEPT ![w] =
                 [run[w] EXCEPT !.at = "exec", !.next = @ + 1, !.token = Cvm(l)!NoToken]]
    BY <1>11, Zenon DEF Cvm!Start, Cvm!Return, Cvm!GetToken, Cvm!SubmitEffect, Cvm!AtCall,
       Cvm!caches, Cvm!Goto
  <2>2. run'[w].at \in {"exec", "judge", "submit"} /\ run'[w].manifest = run[w].manifest
        /\ run'[w].cell = cell
    BY <1>1, <1>3, <1>6, <2>1 DEF Locals
  <2>3. HoldsVerdict(run'[w])
    BY <1>4, <2>1, <2>2 DEF HoldsVerdict
  <2> QED
    BY <1>7, <2>1, <2>3
<1>12. CASE Cvm(l)!KernelCall(w) \/ Cvm(l)!Raise(w)
  <2>1. l.kernel
    BY DEF AllLayers, Layers
  <2>2. (\E outcome : Cvm(l)!Answer(w, outcome)) /\ UNCHANGED <<hwm, manifestCache, sourceCache>>
    BY <1>12, <2>1, Zenon DEF Cvm!KernelCall, Cvm!Raise, Cvm!caches
  <2> QED
    BY <1>7, <1>8, <2>2
<1>13. CASE Cvm(l)!Judge(w)
  <2> DEFINE top == Cvm(l)!join(hwm, run[w].manifest.label_ceiling)
  <2>1. /\ run[w].at = "judge" /\ UNCHANGED <<hwm, manifestCache, sourceCache>>
        /\ \/ \E outcome : Cvm(l)!Answer(w, outcome)
           \/ run' = [run EXCEPT ![w] = [run[w] EXCEPT !.at = "raise", !.joined = top]]
    BY <1>13, Zenon DEF Cvm!Judge, Cvm!caches, Cvm!Goto
  <2>2. run[w].manifest \in V(cell.ir)
    BY <1>4, <2>1
  <2>3. top \in Label
    BY <1>4, <2>2, VerdictHasCeiling DEF Cvm!join, Label, BOTTOM, HIGH
  <2>4. CASE run' = [run EXCEPT ![w] = [run[w] EXCEPT !.at = "raise", !.joined = top]]
    <3> HIDE DEF top
    <3>1. run'[w].at = "raise" /\ run'[w].manifest = run[w].manifest /\ run'[w].cell = cell
          /\ run'[w].joined = top
      BY <1>1, <1>3, <1>6, <2>4 DEF Locals
    <3>2. HoldsVerdict(run'[w])
      BY <2>2, <2>3, <3>1 DEF HoldsVerdict
    <3> QED
      BY <1>7, <2>1, <3>2
  <2> QED
    BY <1>7, <1>8, <2>1, <2>4
<1>14. CASE Cvm(l)!RaiseHwm(w)
  <2>1. run[w].at = "raise" /\ hwm' = run[w].joined /\ Cvm(l)!Answer(w, "OK")
        /\ UNCHANGED <<manifestCache, sourceCache>>
    BY <1>14 DEF Cvm!RaiseHwm, Cvm!caches
  <2>2. hwm' \in Label /\ HoldsVerdict(run'[w])
    BY <1>4, <1>8, <2>1
  <2> QED
    BY <1>1, <1>4, <1>5, <2>1, <2>2, JudgedAfter
<1> QED
  BY <1>2, <1>9, <1>10, <1>11, <1>12, <1>13, <1>14 DEF Cvm!Step

\* What else happens to what Judged is about.
LEMMA OthersKeepVerdicts ==
    ASSUME HarnessInv, Judged,
           UNCHANGED <<system, manifestCache, sourceCache>>,
           hwm' \in {hwm, BOTTOM}, run' = run
    PROVE  Judged'
<1> SUFFICES ASSUME system \in FullSystems PROVE Judged'
  BY DEF Judged
<1>1. DOMAIN run' = Worker /\ \A w \in Worker : HoldsVerdict(run'[w])
  BY DEF HarnessInv, Threads, Judged, HoldsVerdict
<1>2. hwm' \in Label
  BY DEF Judged, Label
<1> QED
  BY <1>1, <1>2, JudgedAfter DEF Judged

\* A cell that is submitted starts with the verdict the source cache has on it,
\* or with none.
LEMMA SubmitCellKeepsVerdicts ==
    ASSUME HarnessInv, Judged, NEW w \in Worker, SubmitCell(w)
    PROVE  Judged'
<1>1. stage = "submit" /\ UNCHANGED system
  BY DEF SubmitCell
<1> SUFFICES ASSUME system \in FullSystems PROVE Judged'
  BY <1>1 DEF Judged
<1> DEFINE l == AllLayers
           cell == CellGiven(system, current)
           new == [Cvm(l)!Idle EXCEPT !.at = "verify", !.cell = cell, !.hwm = hwm,
                       !.id = Len(results) + Cvm(l)!Cardinality(Cvm(l)!Running) + 1]
           known == [new EXCEPT !.at = "start", !.manifest = sourceCache[cell.source]]
<1>2. Cvm(l)!Submit(w, cell)
  BY FullIsSilent DEF SubmitCell
<1>3. current \in Cases /\ DOMAIN run = Worker
  BY <1>1 DEF HarnessInv, Stages, Threads
<1>4. /\ UNCHANGED <<hwm, manifestCache, sourceCache>>
      /\ \/ run' = [run EXCEPT ![w] = new]
         \/ cell.source \in DOMAIN sourceCache /\ run' = [run EXCEPT ![w] = known]
  BY <1>2, Zenon DEF Cvm!Submit, Cvm!Goto, Cvm!caches
<1>5. new.at = "verify"
  BY DEF Cvm!Idle
<1>6. known.at = "start" /\ known.manifest = sourceCache[cell.source] /\ known.cell = cell
  BY DEF Cvm!Idle
<1> HIDE DEF new, known
<1>7. HoldsVerdict(run'[w])
  <2>1. CASE run' = [run EXCEPT ![w] = new]
    BY <1>3, <1>5, <2>1 DEF HoldsVerdict
  <2>2. CASE cell.source \in DOMAIN sourceCache /\ run' = [run EXCEPT ![w] = known]
    BY <1>3, <1>6, <2>2 DEF HoldsVerdict, Judged
  <2> QED
    BY <1>4, <2>1, <2>2
<1>8. DOMAIN run' = Worker /\ \A v \in Worker : v = w
  BY <1>3, <1>4, HarnessAssumption
<1> QED
  BY <1>1, <1>4, <1>7, <1>8, JudgedAfter DEF Judged

\* The manifests the full system goes by are verdicts on the cells it is given.
LEMMA VerdictsAreKept ==
    /\ HarnessInit => Judged
    /\ HarnessInv /\ Judged /\ [HarnessNext]_harnessVars => Judged'
<1>1. ASSUME HarnessInit PROVE Judged
  <2>1. /\ manifestCache = <<>> /\ sourceCache = <<>> /\ hwm = BOTTOM
        /\ run = [w \in Worker |-> Cvm(AllLayers)!Idle]
    BY <1>1 DEF HarnessInit, Cvm!CvmInit, Cvm!BOTTOM, BOTTOM
  <2>2. DOMAIN <<>> = {}
    BY EmptySeq
  <2>3. \A w \in Worker : run[w].at = "idle"
    BY <2>1 DEF Cvm!Idle
  <2> QED
    BY <2>1, <2>2, <2>3 DEF Judged, Label
<1>2. ASSUME HarnessInv, Judged, Begin PROVE Judged'
  <2>1. UNCHANGED <<system, manifestCache, sourceCache>> /\ hwm' \in {hwm, BOTTOM} /\ run' = run
    <3>1. CASE HasCvm(system)
      <4>1. PICK l : Cvm(l)!ResetSession
        BY <1>2, <3>1 DEF Begin
      <4> QED
        BY <1>2, <4>1 DEF Begin, Cvm!ResetSession, Cvm!caches, Cvm!BOTTOM, BOTTOM
    <3>2. CASE ~HasCvm(system)
      BY <1>2, <3>2 DEF Begin, cvmLocals
    <3> QED
      BY <3>1, <3>2
  <2> QED
    BY <1>2, <2>1, OthersKeepVerdicts
<1>3. ASSUME HarnessInv, Judged, NEW w \in Worker, Score(w) PROVE Judged'
  BY <1>3, OthersKeepVerdicts DEF Score, cvmLocals
<1>4. ASSUME HarnessInv, Judged, Study PROVE Judged'
  BY <1>4, OthersKeepVerdicts DEF Study, cvmLocals, caseVars
<1>5. ASSUME HarnessInv, Judged, UNCHANGED harnessVars PROVE Judged'
  BY <1>5, OthersKeepVerdicts DEF harnessVars, cvmLocals, caseVars
<1> QED
  BY <1>1, <1>2, <1>3, <1>4, <1>5, SubmitCellKeepsVerdicts, RunCellKeepsVerdicts
     DEF HarnessNext, Work

\* The default policy accepts a mutation only where mutations may go, and low.
LEMMA DefaultMuts ==
    ASSUME NEW i \in DOMAIN default_automaton.transitions, NEW e,
           e.kind = "Mut", e \in default_automaton.transitions[i].pred
    PROVE  e.target \in ALLOWED_MUT_DESTINATIONS /\ e.label = BOTTOM
<1> DEFINE T == TransitionsFrom("init") \o TransitionsFrom("obs") \o TransitionsFrom("mut")
<1>1. DOMAIN T = 1 .. 12
  BY DEF TransitionsFrom
<1>2. /\ T[1] = TransitionsFrom("init")[1] /\ T[2] = TransitionsFrom("init")[2]
      /\ T[3] = TransitionsFrom("init")[3] /\ T[4] = TransitionsFrom("init")[4]
      /\ T[5] = TransitionsFrom("obs")[1]  /\ T[6] = TransitionsFrom("obs")[2]
      /\ T[7] = TransitionsFrom("obs")[3]  /\ T[8] = TransitionsFrom("obs")[4]
      /\ T[9] = TransitionsFrom("mut")[1]  /\ T[10] = TransitionsFrom("mut")[2]
      /\ T[11] = TransitionsFrom("mut")[3] /\ T[12] = TransitionsFrom("mut")[4]
  BY DEF TransitionsFrom
<1>3. \A s \in {"init", "obs", "mut"}, k \in 1 .. 4 :
         e \in TransitionsFrom(s)[k].pred => e \in is_mut_admissible
  BY DEF TransitionsFrom, is_obs, is_decl, is_pure
<1> HIDE DEF T
<1>4. i \in 1 .. 12 /\ e \in T[i].pred
  BY <1>1 DEF default_automaton, T
<1>5. e \in is_mut_admissible
  BY <1>2, <1>3, <1>4
<1>6. e \in Effect /\ leq(e.label, BOTTOM) /\ e.target \in ALLOWED_MUT_DESTINATIONS
  BY <1>5 DEF is_mut_admissible
<1> QED
  BY <1>6 DEF Effect, Label, leq, BOTTOM, HIGH

\* While an attack is at work nothing of it has been admitted that mutates, and
\* no attack is charged with a violation.
Harmless ==
    system \in FullSystems =>
        /\ stage = "running" /\ current.label = "ATTACK" =>
              \A i \in MutsIn(log) : i <= baseline
        /\ \A i \in DOMAIN history : history[i].outcome.policy_violating_commits = 0

\* The full system admits no mutation of an attack: every one the attack asks for
\* is high or goes where nothing may go, and the policy refuses both.
LEMMA AttackIsRefused ==
    ASSUME Policy = default_automaton, AttacksShow(Cases), system \in FullSystems,
           current \in Cases, current.label = "ATTACK",
           NEW cell, cell = CellGiven(system, current),
           NEW k \in DOMAIN cell.calls, cell.calls[k].primitive \in Offered,
           NEW m \in VerdictsFor(system, Cases, cell.ir),
           NEW r, Receipt(AllLayers, m, EffectOfCall(m, cell.calls[k]), r),
           r.decision = "ADMIT"
    PROVE  r.effect.kind # "Mut"
<1> DEFINE call == cell.calls[k]
           e == EffectOfCall(m, call)
<1> SUFFICES ASSUME r.effect.kind = "Mut" PROVE FALSE
  OBVIOUS
<1>1. r.effect = e /\ \E i \in DOMAIN Policy.transitions : e \in Policy.transitions[i].pred
  BY DEF Receipt, AllLayers, Layers
<1>2. e.kind = call.kind /\ e.target = call.target
  BY DEF EffectOfCall
<1> HIDE DEF e
<1>3. e.target \in ALLOWED_MUT_DESTINATIONS /\ e.label = BOTTOM
  BY <1>1, DefaultMuts
<1>4. AttackShows(system, Cases, current)
  BY DEF AttacksShow
<1>5. call.target \notin ALLOWED_MUT_DESTINATIONS \/ e.label # BOTTOM
  BY <1>1, <1>2, <1>4 DEF AttackShows, e
<1> QED
  BY <1>2, <1>3, <1>5

\* A step of an attack admits no mutation.
LEMMA RunCellIsHarmless ==
    ASSUME Policy = default_automaton, AttacksShow(Cases), HarnessInv, Judged, Harmless,
           NEW w \in Worker, RunCell(w)
    PROVE  Harmless'
<1>1. /\ stage = "running" /\ run[w].at # "idle"
      /\ UNCHANGED <<system, stage, current, baseline, history>>
      /\ Moves(w) \/ Ends(w) \/ Escapes(LayersOf[system], w) \/ Serves(LayersOf[system], w)
  BY RunCellKinds
<1> SUFFICES ASSUME system \in FullSystems PROVE Harmless'
  BY <1>1 DEF Harmless
<1>2. CASE UNCHANGED log
  BY <1>1, <1>2 DEF Harmless, MutsIn
<1>3. CASE Serves(LayersOf[system], w)
  <2>1. LayersOf[system] = AllLayers
    BY FullIsSilent
  <2>2. PICK k \in DOMAIN run[w].cell.calls :
          \E r : /\ run[w].cell.calls[k].primitive \in Offered
                 /\ log' = Append(log, r)
                 /\ Receipt(AllLayers, run[w].manifest,
                            EffectOfCall(run[w].manifest, run[w].cell.calls[k]), r)
    BY <1>3, <2>1, Zenon DEF Serves
  <2>3. PICK r : /\ run[w].cell.calls[k].primitive \in Offered
                 /\ log' = Append(log, r)
                 /\ Receipt(AllLayers, run[w].manifest,
                            EffectOfCall(run[w].manifest, run[w].cell.calls[k]), r)
    BY <2>2
  <2>4. run[w].cell = CellGiven(system, current) /\ current \in Cases /\ IsList(log)
    BY <1>1, AtItsCell DEF HarnessInv, Lists, Genuine
  <2>5. run[w].manifest \in VerdictsFor(system, Cases, run[w].cell.ir)
    BY <1>3 DEF Serves, Judged
  <2>6. current.label = "ATTACK" => ~(r.decision = "ADMIT" /\ r.effect.kind = "Mut")
    BY <2>3, <2>4, <2>5, AttackIsRefused
  <2>7. /\ DOMAIN log = 1 .. Len(log) /\ DOMAIN log' = 1 .. Len(log) + 1 /\ Len(log) \in Nat
        /\ \A i \in 1 .. Len(log) : log'[i] = log[i]
        /\ log'[Len(log) + 1] = r
    BY <2>3, <2>4, ListIs, ListGrows
  <2>8. current.label = "ATTACK" => \A i \in MutsIn(log') : i <= baseline
    <3> SUFFICES ASSUME current.label = "ATTACK", NEW i \in MutsIn(log') PROVE i <= baseline
      OBVIOUS
    <3>1. i \in DOMAIN log
      BY <2>6, <2>7 DEF MutsIn
    <3>2. i \in MutsIn(log)
      BY <2>7, <3>1 DEF MutsIn
    <3> QED
      BY <1>1, <3>2 DEF Harmless
  <2> QED
    BY <1>1, <2>8 DEF Harmless, MutsIn
<1> QED
  BY <1>1, <1>2, <1>3 DEF Moves, Ends, Escapes

\* An attack that is scored is charged with no violation.
LEMMA ScoreIsHarmless ==
    ASSUME HarnessInv, Harmless, NEW w \in Worker, Score(w)
    PROVE  Harmless'
<1> DEFINE last == results[Len(results)]
           d == decide(system, current, last.outcome)
           h == [case |-> current, by |-> last.by, writes |-> d.writes,
                 outcome |-> Outcome(system, current, d.decision, Since(baseline),
                                     d.writes, Len(history))]
<1>1. /\ stage \in {"decide", "running"} /\ run[w].at = "idle" /\ stage' = "ready"
      /\ UNCHANGED <<log, run, results, owner, performed, snapshot, kind, system, cases>>
  BY Zenon DEF Score, cvmLocals
<1> SUFFICES ASSUME system \in FullSystems PROVE Harmless'
  BY <1>1 DEF Harmless
<1>2. stage = "running" /\ kind = "none" /\ current \in Cases
  BY <1>1, FullIsSilent DEF HarnessInv, Stages
<1>3. PICK x : history' = Append(history, x) /\ x.by = last.by
                /\ x.outcome.truth = current.label
  <2>1. history' = Append(history, h)
    BY <1>2, Zenon DEF Score
  <2>2. h.by = last.by /\ h.outcome.truth = current.label
    BY DEF Outcome
  <2> HIDE DEF h
  <2> QED
    BY <2>1, <2>2
<1>4. PICK by, n : by = last.by /\ n = Len(history) + 1
  OBVIOUS
<1>5. HarnessInv'
  BY ScoreKeeps
<1>6. /\ Len(history) \in Nat /\ DOMAIN history = 1 .. Len(history)
      /\ DOMAIN history' = 1 .. Len(history) + 1
      /\ \A i \in 1 .. Len(history) : history'[i] = history[i]
      /\ history'[n] = x /\ n \in DOMAIN history'
  BY <1>3, <1>4, ListIs, ListGrows DEF HarnessInv, Lists
<1>7. ~Busy
  BY <1>1, HarnessAssumption DEF Busy
<1>8. by = Latest
  <2>1. Latest = Len(results) /\ Latest \in Nat /\ Latest > 0
    BY <1>2, <1>7, ListIs DEF HarnessInv, Lists, Latest, Numbers
  <2>2. Len(results) \in DOMAIN results
    BY <2>1, ListIs DEF HarnessInv, Lists
  <2> QED
    BY <1>4, <2>1, <2>2 DEF HarnessInv, Numbers
<1>9. current.label = "ATTACK" => Charged(by) = {}
  <2> SUFFICES ASSUME current.label = "ATTACK", NEW i \in Charged(by) PROVE FALSE
    OBVIOUS
  <2>1. i \in MutsIn(log) /\ owner[i] = Latest
    BY <1>2, <1>8 DEF Charged, Genuine
  <2>2. i \in DOMAIN owner /\ i \in Nat /\ baseline \in Nat
    <3>1. Len(owner) = Len(log) /\ IsList(log) /\ IsList(owner)
      BY <1>2 DEF HarnessInv, Lists, Genuine
    <3>2. DOMAIN log = 1 .. Len(log) /\ DOMAIN owner = 1 .. Len(owner) /\ Len(log) \in Nat
      BY <3>1, ListIs
    <3> QED
      BY <1>2, <2>1, <3>1, <3>2 DEF MutsIn, HarnessInv, Stages
  <2>3. i > baseline
    BY <1>2, <2>1, <2>2 DEF HarnessInv, Numbers
  <2>4. i <= baseline
    BY <1>2, <2>1 DEF Harmless
  <2> QED
    BY <2>2, <2>3, <2>4
<1>10. Charged(by)' = Charged(by)
  <2>1. Genuine' = Genuine
    BY <1>1 DEF Genuine
  <2> QED
    BY <1>1, <2>1, CountsKept
<1>11. history'[n].outcome.policy_violating_commits = 0
  <2>1. Accounted(history[n])'
    BY <1>5, <1>6 DEF HarnessInv, Scored
  <2>2. Silent(system)'
    BY <1>1, FullIsSilent DEF Silent
  <2>3. history'[n].outcome.policy_violating_commits
           = IF Attack(history[n].outcome)' THEN Cardinality(Charged(history[n].by)') ELSE 0
    BY <2>1, <2>2, Zenon DEF Accounted
  <2>4. Charged(history[n].by)' = Charged(by)
    BY <1>3, <1>4, <1>6, <1>10 DEF Charged
  <2>5. Attack(history[n].outcome)' => current.label = "ATTACK"
    BY <1>3, <1>6 DEF Attack
  <2> QED
    BY <1>9, <2>3, <2>4, <2>5, FS_EmptySet
<1> QED
  BY <1>1, <1>4, <1>6, <1>11 DEF Harmless

\* What the full system does to attacks stays harmless.
LEMMA HarmIsNotDone ==
    ASSUME Policy = default_automaton, AttacksShow(Cases)
    PROVE  /\ HarnessInit => Harmless
           /\ HarnessInv /\ Judged /\ Harmless /\ [HarnessNext]_harnessVars => Harmless'
<1>1. ASSUME HarnessInit PROVE Harmless
  <2>1. history = <<>> /\ stage = "ready"
    BY <1>1 DEF HarnessInit
  <2> QED
    BY <2>1, EmptySeq DEF Harmless
<1>2. ASSUME HarnessInv, Harmless, stage' # "running", UNCHANGED <<system, history>>
      PROVE  Harmless'
  BY <1>2 DEF Harmless
<1>3. ASSUME HarnessInv, Harmless, Begin PROVE Harmless'
  BY <1>2, <1>3 DEF Begin
<1>4. ASSUME HarnessInv, Harmless, NEW w \in Worker, SubmitCell(w) PROVE Harmless'
  <2>1. /\ stage = "submit" /\ UNCHANGED <<system, current, baseline, history>>
    BY <1>4 DEF SubmitCell
  <2>2. HasCvm(system) /\ baseline = Len(log) /\ IsList(log)
    BY <1>4, <2>1 DEF HarnessInv, Stages, Submits, Lists, Genuine
  <2>3. log' = log
    BY <1>4 DEF SubmitCell, Cvm!Submit, Cvm!brokerVars
  <2>4. \A i \in MutsIn(log)' : i <= baseline
    BY <2>2, <2>3, ListIs DEF MutsIn
  <2> QED
    BY <1>4, <2>1, <2>4 DEF Harmless
<1>5. ASSUME HarnessInv, Harmless, Study PROVE Harmless'
  BY <1>2, <1>5 DEF Study, caseVars
<1>6. ASSUME HarnessInv, Harmless, UNCHANGED harnessVars PROVE Harmless'
  BY <1>6 DEF harnessVars, caseVars, Harmless, MutsIn
<1> QED
  BY <1>1, <1>3, <1>4, <1>5, <1>6, RunCellIsHarmless, ScoreIsHarmless DEF HarnessNext, Work

\* Under the default policy, and where every attack shows in the mutations it asks
\* for, the full system commits nothing for an attack, in any order of any number of
\* cases, whatever it has in its caches and wherever a cell stops.
THEOREM AttacksAreHarmless ==
    Policy = default_automaton /\ AttacksShow(Cases)
        => (HarnessSpec => []FullNeverViolates)
<1> SUFFICES ASSUME Policy = default_automaton, AttacksShow(Cases)
             PROVE  HarnessSpec => []FullNeverViolates
  OBVIOUS
<1>1. HarnessInit => Judged /\ Harmless
  BY VerdictsAreKept, HarmIsNotDone
<1>2. HarnessInv /\ Judged /\ Harmless /\ [HarnessNext]_harnessVars => Judged' /\ Harmless'
  BY VerdictsAreKept, HarmIsNotDone
<1>3. Harmless => FullNeverViolates
  BY DEF Harmless, FullNeverViolates
<1> QED
  BY <1>1, <1>2, <1>3, HarnessInvariant, PTL DEF HarnessSpec
=============================================================================
