--------------------------- MODULE ConcurrentProofs ---------------------------
(***************************************************************************)
(* Theorems about ConcurrentBroker, for any number of threads, calls of    *)
(* any length of overlap, every policy, registry and setting of the knobs. *)
(***************************************************************************)
EXTENDS ConcurrentBroker, BrokerProofs

\* The link after the first k of the receipts rs.
LinkOf(rs, k) == IF k = 0 THEN GENESIS ELSE rs[k].chain

\* A link of rs that was the head after its first `from' receipts or later.
Follows(prev, from, rs) ==
    prev \in Chain /\ \E k \in from .. Len(rs) : prev = LinkOf(rs, k)

\* The link that covers prev and a body about eff.
Covers(chain, prev, eff) ==
    /\ chain \in Chain
    /\ Len(chain) = Len(prev) + 1
    /\ SubSeq(chain, 1, Len(prev)) = prev
    /\ chain[Len(chain)].effect = eff

\* The state after the first k of the moves ms, and one move of a call that
\* began when there were `since': from a state no older, into an accepting one.
StateOf(ms, k) == IF k = 0 THEN Policy.initial ELSE ms[k].to

Steps(ms, since, upto, e, to) ==
    /\ \E j \in since .. upto : step(Policy, StateOf(ms, j), e) = to
    /\ accepts(Policy, to)

MoveType == [since : Nat, effect : Effects, to : StatesOf(Policy)]

\* The move that an admission of e refers to.
MoveOf(ms, k, e) == k \in DOMAIN ms /\ ms[k].effect = e

\* The locals of a call in flight: those it always has ...
CommonLocals == {"at", "manifest", "effect", "token", "started", "since"}

Common(c, rs, iss, ms) ==
    /\ CommonLocals \subseteq DOMAIN c
    /\ c.at \in Where
    /\ c.manifest \in Manifests /\ c.effect \in Effects
    /\ c.started \in 0 .. Len(rs) /\ c.since \in 0 .. Len(ms)
    /\ IF EnableCapability
       THEN /\ c.token \in iss
            /\ c.token.manifest_digest = c.manifest
       ELSE c.token = NoToken

\* ... the decision once there is one ...
Decided(c, ms) ==
    /\ {"decision", "note"} \subseteq DOMAIN c
    /\ c.decision \in Decision /\ c.note \in Reason \cup {NoNote}
    /\ c.decision = "ADMIT" => "move" \in DOMAIN c /\ MoveOf(ms, c.move, c.effect)

\* ... the link read and the link made ...
Linking(c, rs)  == "prev" \in DOMAIN c /\ Follows(c.prev, c.started, rs)
Hashed(c)       == "chain" \in DOMAIN c /\ Covers(c.chain, c.prev, ReceiptEffectOf(c))

\* ... and the receipt that is about to be pushed.
Stamped(c, rs) ==
    /\ "receipt" \in DOMAIN c
    /\ c.receipt \in ReceiptType
    /\ Follows(c.receipt.prev_chain, c.started, rs)
    /\ Covers(c.receipt.chain, c.receipt.prev_chain, c.receipt.effect)
    /\ c.receipt.decision = c.decision /\ c.receipt.manifest_digest = c.manifest
    /\ c.receipt.effect = ReceiptEffectOf(c)

\* A call in flight over the receipts rs, the tokens iss and the moves ms.
Frame(c, rs, iss, ms) ==
    /\ Common(c, rs, iss, ms)
    /\ c.at = "advance" =>
          /\ "next" \in DOMAIN c /\ c.next \in StatesOf(Policy)
          /\ EnableAutomaton => Steps(ms, c.since, Len(ms), c.effect, c.next)
    /\ c.at \in {"link", "hash", "number", "push"} => Decided(c, ms)
    /\ c.at \in {"hash", "number"} => Linking(c, rs)
    /\ c.at = "number" => Hashed(c)
    /\ c.at = "push" => Stamped(c, rs)

\* The receipt at place i extends a link from in front of it and no earlier
\* than the start of its call.
WellLinked(i, rs, sts) ==
    /\ sts[i] \in Nat
    /\ \E k \in sts[i] .. i - 1 : rs[i].prev_chain = LinkOf(rs, k)
    /\ Covers(rs[i].chain, rs[i].prev_chain, rs[i].effect)
    /\ Len(rs[i].chain) <= i

\* The k-th move was made by a call that was under way.
WellStepped(k, ms) == Steps(ms, ms[k].since, k - 1, ms[k].effect, ms[k].to)

\* The inductive invariant.
Histories ==
    /\ started \in Seq(Nat) /\ Len(started) = Len(receipts) /\ Len(granted) = Len(receipts)
    /\ moveOf \in Seq(Nat) /\ Len(moveOf) = Len(receipts)
    /\ moves \in Seq(MoveType)

Frames ==
    /\ DOMAIN call = Thread
    /\ \A t \in InFlight : Frame(call[t], receipts, issued, moves)

Links == \A i \in DOMAIN receipts : WellLinked(i, receipts, started)

Admissions == \A i \in AdmittedAt : MoveOf(moves, moveOf[i], receipts[i].effect)

Stepped ==
    EnableAutomaton => /\ state = StateOf(moves, Len(moves))
                       /\ \A k \in DOMAIN moves : WellStepped(k, moves)

ConcurrentInv ==
    /\ TypeOK /\ Histories /\ Frames /\ Links /\ Admissions /\ Stepped

-----------------------------------------------------------------------------
(* Frames *)

\* The frame c, gone on at `where' with the locals in upd set (Goto) ...
Went(c, where, upd) == Updated([c EXCEPT !.at = where], upd)

\* ... and what is known of it.
Moved(w, c, where, upd, rs, iss, ms) ==
    /\ Common(w, rs, iss, ms)
    /\ w.at = where /\ w.manifest = c.manifest /\ w.effect = c.effect
    /\ w.token = c.token /\ w.started = c.started /\ w.since = c.since
    /\ DOMAIN w = DOMAIN c \cup DOMAIN upd
    /\ \A f \in DOMAIN upd : w[f] = upd[f]
    /\ \A f \in DOMAIN c \ (DOMAIN upd \cup {"at"}) : w[f] = c[f]

\* A frame that goes on keeps what it always has.
LEMMA FrameMoves ==
    ASSUME NEW c, NEW rs, NEW iss, NEW ms, Common(c, rs, iss, ms),
           NEW where \in Where, NEW upd, DOMAIN upd \cap CommonLocals = {},
           NEW w, w = Went(c, where, upd)
    PROVE  Moved(w, c, where, upd, rs, iss, ms)
<1>1. CommonLocals \subseteq DOMAIN c
  BY DEF Common
<1>2. /\ DOMAIN w = DOMAIN c \cup DOMAIN upd
      /\ \A f \in DOMAIN upd : w[f] = upd[f]
      /\ \A f \in DOMAIN c \ (DOMAIN upd \cup {"at"}) : w[f] = c[f]
  BY DEF Went, Updated
<1>3. w.at = where
  BY <1>1 DEF Went, Updated, CommonLocals
<1>4. /\ w.manifest = c.manifest /\ w.effect = c.effect
      /\ w.token = c.token /\ w.started = c.started /\ w.since = c.since
  BY <1>1, <1>2 DEF CommonLocals
<1>5. CommonLocals \subseteq DOMAIN w
  BY <1>1, <1>2
<1> QED
  BY <1>2, <1>3, <1>4, <1>5 DEF Common, Moved

\* The links of a log stay when it grows.
LEMMA LinkStays ==
    ASSUME NEW rs \in Seq(ReceiptType), NEW r \in ReceiptType, NEW k \in 0 .. Len(rs)
    PROVE  LinkOf(Append(rs, r), k) = LinkOf(rs, k)
<1>1. k # 0 => Append(rs, r)[k] = rs[k]
  OBVIOUS
<1> QED
  BY <1>1 DEF LinkOf

\* So does what follows one of them.
LEMMA FollowsStays ==
    ASSUME NEW rs \in Seq(ReceiptType), NEW r \in ReceiptType, NEW prev,
           NEW from \in Nat, Follows(prev, from, rs)
    PROVE  Follows(prev, from, Append(rs, r))
<1>1. PICK k \in from .. Len(rs) : prev = LinkOf(rs, k)
  BY DEF Follows
<1>2. Len(Append(rs, r)) = Len(rs) + 1 /\ Len(rs) \in Nat
  OBVIOUS
<1>3. prev = LinkOf(Append(rs, r), k)
  BY <1>1, <1>2, LinkStays
<1> QED
  BY <1>1, <1>2, <1>3 DEF Follows

\* A call in flight is not disturbed by tokens that others are issued.
LEMMA FrameKeepsTokens ==
    ASSUME NEW c, NEW rs, NEW iss, NEW ms, NEW more, iss \subseteq more, Frame(c, rs, iss, ms)
    PROVE  Frame(c, rs, more, ms)
<1>1. Common(c, rs, more, ms)
  BY DEF Frame, Common
<1> QED
  BY <1>1 DEF Frame

\* Nor by receipts that others push.
LEMMA FrameKeepsReceipts ==
    ASSUME NEW c, NEW rs \in Seq(ReceiptType), NEW iss, NEW ms, NEW r \in ReceiptType,
           Frame(c, rs, iss, ms)
    PROVE  Frame(c, Append(rs, r), iss, ms)
<1> DEFINE log == Append(rs, r)
<1>1. Len(log) = Len(rs) + 1 /\ Len(rs) \in Nat
  OBVIOUS
<1>2. c.started \in Nat
  BY DEF Frame, Common
<1> HIDE DEF log
<1>3. Common(c, log, iss, ms)
  BY <1>1 DEF Frame, Common
<1>4. c.at \in {"hash", "number"} => Linking(c, log)
  BY <1>2, FollowsStays DEF Frame, Linking, log
<1>5. c.at = "push" => Stamped(c, log)
  BY <1>2, FollowsStays DEF Frame, Stamped, log
<1> QED
  BY <1>3, <1>4, <1>5 DEF Frame, log

\* The states that moves led to stay when there is one more ...
LEMMA StateStays ==
    ASSUME NEW ms \in Seq(MoveType), NEW v \in MoveType
    PROVE  /\ Append(ms, v) \in Seq(MoveType) /\ Len(Append(ms, v)) = Len(ms) + 1
           /\ Len(ms) \in Nat /\ DOMAIN ms = 1 .. Len(ms)
           /\ DOMAIN Append(ms, v) = 1 .. Len(ms) + 1
           /\ Append(ms, v)[Len(ms) + 1] = v
           /\ \A k \in 1 .. Len(ms) : Append(ms, v)[k] = ms[k]
           /\ \A k \in 0 .. Len(ms) : StateOf(Append(ms, v), k) = StateOf(ms, k)
<1>1. /\ Append(ms, v) \in Seq(MoveType) /\ Len(Append(ms, v)) = Len(ms) + 1
      /\ Len(ms) \in Nat /\ DOMAIN ms = 1 .. Len(ms)
      /\ DOMAIN Append(ms, v) = 1 .. Len(ms) + 1
      /\ Append(ms, v)[Len(ms) + 1] = v
      /\ \A k \in 1 .. Len(ms) : Append(ms, v)[k] = ms[k]
  BY AppendProperties, LenProperties
<1> QED
  BY <1>1 DEF StateOf

\* ... and so do the calls in flight.
LEMMA FrameKeepsMoves ==
    ASSUME NEW c, NEW rs, NEW iss, NEW ms \in Seq(MoveType), NEW v \in MoveType,
           Frame(c, rs, iss, ms)
    PROVE  Frame(c, rs, iss, Append(ms, v))
<1> DEFINE more == Append(ms, v)
<1>1. /\ Len(more) = Len(ms) + 1 /\ Len(ms) \in Nat
      /\ DOMAIN ms = 1 .. Len(ms) /\ DOMAIN more = 1 .. Len(ms) + 1
      /\ \A k \in 1 .. Len(ms) : more[k] = ms[k]
      /\ \A k \in 0 .. Len(ms) : StateOf(more, k) = StateOf(ms, k)
  BY StateStays
<1> HIDE DEF more
<1>2. Common(c, rs, iss, more) /\ c.since \in Nat
  BY <1>1 DEF Frame, Common
<1>3. ASSUME NEW e, NEW to, Steps(ms, c.since, Len(ms), e, to)
      PROVE  Steps(more, c.since, Len(more), e, to)
  <2>1. PICK j \in c.since .. Len(ms) : step(Policy, StateOf(ms, j), e) = to
    BY <1>3 DEF Steps
  <2>2. j \in c.since .. Len(more) /\ StateOf(more, j) = StateOf(ms, j)
    BY <1>1, <1>2
  <2> QED
    BY <1>3, <2>1, <2>2 DEF Steps
<1>4. Decided(c, ms) => Decided(c, more)
  BY <1>1 DEF Decided, MoveOf
<1> QED
  BY <1>2, <1>3, <1>4 DEF Frame, more

-----------------------------------------------------------------------------
(* Steps inside a call *)

\* A thread whose program counter is in a call is in that call.
LEMMA InCall ==
    ASSUME ConcurrentInv, NEW t \in Thread, call[t].at \in Where
    PROVE  t \in InFlight /\ Frame(call[t], receipts, issued, moves)
<1>1. call[t] # NoCall
  BY DEF NoCall, Where
<1> QED
  BY <1>1 DEF InFlight, ConcurrentInv, Frames

\* A step that changes the thread's frame, and of the shared variables the
\* state of the automaton at most, keeps the invariant if it keeps the frame.
LEMMA LocalStep ==
    ASSUME ConcurrentInv, NEW t \in InFlight, NEW w,
           call' = [call EXCEPT ![t] = w],
           Frame(w, receipts, issued, moves'),
           UNCHANGED <<state, moves>> \/ \E v \in MoveType : moves' = Append(moves, v),
           state' \in StatesOf(Policy), Stepped',
           UNCHANGED <<receipts, issued, now, granted, resetAt, started, moveOf>>
    PROVE  ConcurrentInv'
<1>1. t \in Thread /\ DOMAIN call = Thread /\ moves \in Seq(MoveType)
  BY DEF InFlight, ConcurrentInv, Frames, Histories
<1>2. w # NoCall
  BY DEF Frame, Common, Where, NoCall
<1>3. DOMAIN call' = Thread /\ call'[t] = w /\ \A u \in Thread \ {t} : call'[u] = call[u]
  BY <1>1
<1>4. InFlight' = InFlight
  BY <1>1, <1>2, <1>3 DEF InFlight
<1>5. TypeOK' /\ Histories'
  <2>1. moves' \in Seq(MoveType)
    BY <1>1, StateStays
  <2> QED
    BY <2>1 DEF ConcurrentInv, TypeOK, Histories
<1>6. Frames'
  <2> SUFFICES ASSUME NEW u \in InFlight PROVE Frame(call'[u], receipts, issued, moves')
    BY <1>3, <1>4 DEF Frames
  <2>1. CASE u = t
    BY <1>3, <2>1
  <2>2. CASE u # t
    <3>1. call'[u] = call[u] /\ Frame(call[u], receipts, issued, moves)
      BY <1>3, <2>2 DEF InFlight, ConcurrentInv, Frames
    <3>2. Frame(call[u], receipts, issued, moves')
      BY <1>1, <3>1, FrameKeepsMoves
    <3> QED
      BY <3>1, <3>2
  <2> QED
    BY <2>1, <2>2
<1>7. Links' /\ AdmittedAt' = AdmittedAt
  BY DEF ConcurrentInv, Links, AdmittedAt
<1>8. Admissions'
  <2>1. \A k, e : MoveOf(moves, k, e) => MoveOf(moves', k, e)
    BY <1>1, StateStays DEF MoveOf
  <2> QED
    BY <1>7, <2>1 DEF ConcurrentInv, Admissions
<1> QED
  BY <1>5, <1>6, <1>7, <1>8 DEF ConcurrentInv

\* A step that leaves the automaton alone too.
LEMMA QuietStep ==
    ASSUME ConcurrentInv, NEW t \in InFlight, NEW w,
           call' = [call EXCEPT ![t] = w],
           Frame(w, receipts, issued, moves),
           UNCHANGED <<brokerVars, histories>>
    PROVE  ConcurrentInv'
<1>1. /\ UNCHANGED <<state, moves>>
      /\ UNCHANGED <<receipts, issued, now, granted, resetAt, started, moveOf>>
  BY DEF brokerVars, histories
<1>2. state' \in StatesOf(Policy) /\ Stepped'
  BY <1>1 DEF ConcurrentInv, TypeOK, Stepped
<1>3. Frame(w, receipts, issued, moves')
  BY <1>1
<1> QED
  BY <1>1, <1>2, <1>3, LocalStep

\* A refusal: the frame is on its way to the link.
LEMMA RefusalFrame ==
    ASSUME NEW c, NEW more, Common(c, receipts, issued, more), NEW reason \in Reason
    PROVE  Frame(Went(c, "link", [decision |-> "DENY", note |-> reason]),
                 receipts, issued, more)
<1> DEFINE upd == [decision |-> "DENY", note |-> reason]
           w   == Went(c, "link", upd)
<1>1. DOMAIN upd = {"decision", "note"} /\ upd["decision"] = "DENY" /\ upd["note"] = reason
  OBVIOUS
<1>2. DOMAIN upd \cap CommonLocals = {} /\ "link" \in Where
  BY <1>1 DEF CommonLocals, Where
<1> HIDE DEF upd
<1>3. Moved(w, c, "link", upd, receipts, issued, more)
  BY <1>2, FrameMoves
<1> HIDE DEF w
<1>4. Decided(w, more)
  BY <1>1, <1>3 DEF Decided, Moved, Decision
<1>5. Frame(w, receipts, issued, more)
  BY <1>3, <1>4 DEF Frame, Moved
<1> QED
  BY <1>5 DEF w, upd

LEMMA RefusalStep ==
    ASSUME ConcurrentInv, NEW t \in InFlight, NEW reason \in Reason, Refuse(t, reason),
           UNCHANGED <<brokerVars, histories>>
    PROVE  ConcurrentInv'
<1>1. Common(call[t], receipts, issued, moves)
  BY DEF ConcurrentInv, Frames, Frame
<1>2. call' = [call EXCEPT ![t] = Went(@, "link", [decision |-> "DENY", note |-> reason])]
  BY DEF Refuse, Goto, Went
<1> QED
  BY <1>1, <1>2, RefusalFrame, QuietStep

\* Steps 1 and 2 of submit (broker.py:81-125).
LEMMA CheckTokenKeeps ==
    ASSUME ConcurrentInv, NEW t \in Thread, CheckToken(t)
    PROVE  ConcurrentInv'
<1>1. t \in InFlight /\ Frame(call[t], receipts, issued, moves)
  BY InCall DEF CheckToken, Where
<1>2. UNCHANGED <<brokerVars, histories>>
  BY DEF CheckToken
<1>3. ASSUME NEW reason \in Reason, Refuse(t, reason) PROVE ConcurrentInv'
  BY <1>1, <1>2, <1>3, RefusalStep
<1>4. CASE Goto(t, "policy", <<>>)
  <2> DEFINE w == Went(call[t], "policy", <<>>)
  <2>1. DOMAIN <<>> \cap CommonLocals = {} /\ "policy" \in Where
    BY DEF Where
  <2>2. Common(call[t], receipts, issued, moves)
    BY <1>1 DEF Frame
  <2>3. Moved(w, call[t], "policy", <<>>, receipts, issued, moves)
    BY <2>1, <2>2, FrameMoves
  <2>4. call' = [call EXCEPT ![t] = w]
    BY <1>4 DEF Goto, Went
  <2> HIDE DEF w
  <2>5. Frame(w, receipts, issued, moves)
    BY <2>3 DEF Frame, Moved
  <2> QED
    BY <1>1, <1>2, <2>4, <2>5, QuietStep
<1> QED
  BY <1>3, <1>4 DEF CheckToken, Reason

\* Step 3 reads the state (broker.py:127-139).
LEMMA ReadStateKeeps ==
    ASSUME ConcurrentInv, NEW t \in Thread, ReadState(t)
    PROVE  ConcurrentInv'
<1> DEFINE e == call[t].effect
<1>1. t \in InFlight /\ Frame(call[t], receipts, issued, moves)
  BY InCall DEF ReadState, Where
<1>2. UNCHANGED <<brokerVars, histories>>
  BY DEF ReadState
<1>3. CASE ~Permitted(e)
  BY <1>1, <1>2, <1>3, RefusalStep DEF ReadState, Reason
<1>4. CASE Permitted(e)
  <2> DEFINE upd == [next |-> StateAfterPolicy(e)]
             w   == Went(call[t], "advance", upd)
  <2>1. DOMAIN upd = {"next"} /\ upd["next"] = StateAfterPolicy(e)
    OBVIOUS
  <2>2. DOMAIN upd \cap CommonLocals = {} /\ "advance" \in Where
    BY <2>1 DEF CommonLocals, Where
  <2>3. Common(call[t], receipts, issued, moves) /\ state \in StatesOf(Policy)
    BY <1>1 DEF Frame, ConcurrentInv, TypeOK
  <2>4. call' = [call EXCEPT ![t] = w]
    BY <1>4 DEF ReadState, Goto, Went
  <2> HIDE DEF upd
  <2>5. Moved(w, call[t], "advance", upd, receipts, issued, moves)
    BY <2>2, <2>3, FrameMoves
  <2> HIDE DEF w
  <2>6. StateAfterPolicy(e) \in StatesOf(Policy)
    BY <1>4, <2>3, StepType DEF Permitted, StateAfterPolicy, Successor
  <2>7. ASSUME EnableAutomaton
        PROVE  Steps(moves, call[t].since, Len(moves), e, StateAfterPolicy(e))
    <3>1. Len(moves) \in call[t].since .. Len(moves)
      BY <2>3, LenProperties DEF Common, ConcurrentInv, Histories
    <3>2. /\ step(Policy, StateOf(moves, Len(moves)), e) = StateAfterPolicy(e)
          /\ accepts(Policy, StateAfterPolicy(e))
      BY <1>4, <2>7 DEF Permitted, StateAfterPolicy, Successor, ConcurrentInv, Stepped
    <3> QED
      BY <3>1, <3>2 DEF Steps
  <2>8. "next" \in DOMAIN w /\ w.next = StateAfterPolicy(e)
        /\ w.effect = e /\ w.since = call[t].since /\ w.at = "advance"
    BY <2>1, <2>5 DEF Moved
  <2>9. Common(w, receipts, issued, moves)
    BY <2>5 DEF Moved
  <2> HIDE DEF e
  <2>10. Frame(w, receipts, issued, moves)
    BY <2>6, <2>7, <2>8, <2>9 DEF Frame
  <2> QED
    BY <1>1, <1>2, <2>4, <2>10, QuietStep
<1> QED
  BY <1>3, <1>4

\* Step 3 writes it, whatever it is by now, and step 4 routes (broker.py:140-153).
LEMMA WriteStateKeeps ==
    ASSUME ConcurrentInv, NEW t \in Thread, WriteState(t)
    PROVE  ConcurrentInv'
<1> DEFINE c == call[t]
           n == Len(moves)
           v == [since |-> c.since, effect |-> c.effect, to |-> state']
<1>1. t \in InFlight /\ Frame(c, receipts, issued, moves) /\ c.at = "advance"
  BY InCall DEF WriteState, Where
<1>2. moves \in Seq(MoveType) /\ n \in Nat /\ state \in StatesOf(Policy)
  BY LenProperties DEF ConcurrentInv, Histories, TypeOK
<1>3. /\ Common(c, receipts, issued, moves) /\ c.next \in StatesOf(Policy)
      /\ EnableAutomaton => Steps(moves, c.since, n, c.effect, c.next)
  BY <1>1 DEF Frame
<1>4. /\ state' = IF EnableAutomaton THEN c.next ELSE state
      /\ moves' = Append(moves, v)
      /\ UNCHANGED <<receipts, issued, now, granted, resetAt, started, moveOf>>
  BY DEF WriteState
<1>5. state' \in StatesOf(Policy) /\ c.effect \in Effects /\ c.since \in 0 .. n
  BY <1>2, <1>3, <1>4 DEF Common
<1>6. v \in MoveType
  BY <1>2, <1>5 DEF MoveType
<1>7. v.since = c.since /\ v.effect = c.effect /\ v.to = state'
  OBVIOUS
<1> HIDE DEF v
<1>8. /\ Len(moves') = n + 1 /\ DOMAIN moves = 1 .. n /\ DOMAIN moves' = 1 .. n + 1
      /\ moves'[n + 1] = v /\ \A k \in 1 .. n : moves'[k] = moves[k]
      /\ \A k \in 0 .. n : StateOf(moves', k) = StateOf(moves, k)
  BY <1>2, <1>4, <1>6, StateStays
<1>9. ASSUME EnableAutomaton PROVE Stepped'
  <2>1. state' = StateOf(moves', Len(moves'))
    BY <1>2, <1>7, <1>8 DEF StateOf
  <2>2. ASSUME NEW k \in 1 .. n PROVE WellStepped(k, moves')
    <3>1. WellStepped(k, moves) /\ moves[k].since \in Nat /\ moves'[k] = moves[k]
      <4>1. moves[k] \in MoveType
        BY <1>2, <2>2, ElementOfSeq
      <4>2. WellStepped(k, moves)
        BY <1>8, <1>9, <2>2 DEF ConcurrentInv, Stepped
      <4> QED
        BY <1>8, <2>2, <4>1, <4>2 DEF MoveType
    <3>2. PICK j \in moves[k].since .. k - 1 :
              step(Policy, StateOf(moves, j), moves[k].effect) = moves[k].to
      BY <3>1 DEF WellStepped, Steps
    <3>3. j \in 0 .. n
      BY <1>2, <3>1
    <3>4. StateOf(moves', j) = StateOf(moves, j)
      BY <1>8, <3>3
    <3>5. accepts(Policy, moves[k].to)
      BY <3>1 DEF WellStepped, Steps
    <3>6. /\ j \in moves'[k].since .. k - 1
          /\ step(Policy, StateOf(moves', j), moves'[k].effect) = moves'[k].to
      BY <3>1, <3>2, <3>4
    <3> QED
      BY <3>1, <3>5, <3>6 DEF WellStepped, Steps
  <2>3. WellStepped(n + 1, moves')
    <3>1. Steps(moves, c.since, n, c.effect, c.next) /\ state' = c.next
      BY <1>3, <1>4, <1>9
    <3>2. PICK j \in c.since .. n : step(Policy, StateOf(moves, j), c.effect) = c.next
      BY <3>1 DEF Steps
    <3>3. j \in 0 .. n /\ j \in c.since .. (n + 1) - 1
      BY <1>2, <1>5
    <3>4. StateOf(moves', j) = StateOf(moves, j)
      BY <1>8, <3>3
    <3> QED
      BY <1>7, <1>8, <3>1, <3>2, <3>3, <3>4 DEF WellStepped, Steps
  <2> QED
    BY <1>2, <1>8, <2>1, <2>2, <2>3 DEF Stepped
<1>10. Stepped'
  BY <1>9 DEF Stepped
<1>11. Common(c, receipts, issued, moves')
  BY <1>2, <1>3, <1>8 DEF Common
<1>12. CASE DeclRouted(c.effect)
  <2> DEFINE upd == [decision |-> "ADMIT", note |-> NoNote, move |-> n + 1]
             w   == Went(c, "link", upd)
  <2>1. /\ DOMAIN upd = {"decision", "note", "move"} /\ upd["decision"] = "ADMIT"
        /\ upd["note"] = NoNote /\ upd["move"] = n + 1
    OBVIOUS
  <2>2. DOMAIN upd \cap CommonLocals = {} /\ "link" \in Where
    BY <2>1 DEF CommonLocals, Where
  <2>3. call' = [call EXCEPT ![t] = w]
    BY <1>12 DEF WriteState, Goto, Went
  <2> HIDE DEF upd
  <2>4. Moved(w, c, "link", upd, receipts, issued, moves')
    BY <1>11, <2>2, FrameMoves
  <2> HIDE DEF w
  <2>5. /\ {"decision", "note", "move"} \subseteq DOMAIN w /\ w.decision = "ADMIT"
        /\ w.note = NoNote /\ w.move = n + 1 /\ w.effect = c.effect
    BY <2>1, <2>4 DEF Moved
  <2>6. MoveOf(moves', w.move, w.effect)
    BY <1>2, <1>7, <1>8, <2>5 DEF MoveOf
  <2>7. Decided(w, moves')
    BY <2>5, <2>6 DEF Decided, Decision
  <2>8. Frame(w, receipts, issued, moves')
    BY <2>4, <2>7 DEF Frame, Moved
  <2> QED
    BY <1>1, <1>4, <1>5, <1>6, <1>10, <2>3, <2>8, LocalStep
<1>13. CASE ~DeclRouted(c.effect)
  <2> DEFINE w == Went(c, "link", [decision |-> "DENY", note |-> "unregistered_declassifier"])
  <2>1. call' = [call EXCEPT ![t] = w]
    BY <1>13 DEF WriteState, Refuse, Goto, Went
  <2>2. Frame(w, receipts, issued, moves')
    BY <1>11, RefusalFrame DEF Reason
  <2> HIDE DEF w
  <2> QED
    BY <1>1, <1>4, <1>5, <1>6, <1>10, <2>1, <2>2, LocalStep
<1> QED
  BY <1>12, <1>13

\* append reads the head: the last link of the moment (audit.py:59).
LEMMA ReadHeadKeeps ==
    ASSUME ConcurrentInv, NEW t \in Thread, ReadHead(t)
    PROVE  ConcurrentInv'
<1>1. t \in InFlight /\ Frame(call[t], receipts, issued, moves) /\ call[t].at = "link"
  BY InCall DEF ReadHead, Where
<1>2. UNCHANGED <<brokerVars, histories>>
  BY DEF ReadHead
<1> DEFINE upd == [prev |-> head(receipts)]
           w   == Went(call[t], "hash", upd)
<1>3. DOMAIN upd = {"prev"} /\ upd["prev"] = head(receipts)
  OBVIOUS
<1>4. DOMAIN upd \cap CommonLocals = {} /\ "hash" \in Where
  BY <1>3 DEF CommonLocals, Where
<1>5. Common(call[t], receipts, issued, moves) /\ Decided(call[t], moves)
  BY <1>1 DEF Frame
<1>6. call' = [call EXCEPT ![t] = w]
  BY DEF ReadHead, Goto, Went
<1> HIDE DEF upd
<1>7. Moved(w, call[t], "hash", upd, receipts, issued, moves)
  BY <1>4, <1>5, FrameMoves
<1> HIDE DEF w
<1>8. Decided(w, moves)
  BY <1>3, <1>5, <1>7 DEF Decided, Moved
<1>9. Linking(w, receipts)
  <2>1. receipts \in Seq(ReceiptType) /\ Len(receipts) \in Nat
    BY DEF ConcurrentInv, TypeOK
  <2>2. head(receipts) = LinkOf(receipts, Len(receipts)) /\ head(receipts) \in Chain
    BY <2>1, HeadType, EmptySeq DEF head, LinkOf
  <2>3. Len(receipts) \in w.started .. Len(receipts)
    BY <1>7, <2>1 DEF Common, Moved
  <2>4. "prev" \in DOMAIN w /\ w.prev = head(receipts)
    BY <1>3, <1>7 DEF Moved
  <2> QED
    BY <2>2, <2>3, <2>4 DEF Linking, Follows
<1>10. Frame(w, receipts, issued, moves)
  BY <1>7, <1>8, <1>9 DEF Frame, Moved
<1> QED
  BY <1>1, <1>2, <1>6, <1>10, QuietStep

\* What a call in flight puts into a body or a receipt is typed.
LEMMA ContentTyped ==
    ASSUME ConcurrentInv, NEW t \in InFlight, Decided(call[t], moves)
    PROVE  /\ ReceiptEffectOf(call[t]) \in ReceiptEffect
           /\ call[t].manifest \in Manifests /\ call[t].manifest.ir_hash \in IRHash
           /\ call[t].decision \in Decision /\ call[t].note \in Reason \cup {NoNote}
           /\ Len(receipts) \in Nat /\ now \in Nat
           /\ BodyAt(Len(receipts), call[t]) \in BodyType
<1>1. call[t].manifest \in Manifests /\ call[t].effect \in Effects
  BY DEF ConcurrentInv, Frames, Frame, Common
<1>2. call[t].effect \in Effect /\ call[t].manifest \in ManifestType
  BY <1>1, BrokerAssumption
<1>3. ReceiptEffectOf(call[t]) \in ReceiptEffect
  BY <1>2 DEF ReceiptEffectOf, ErrorEffect, ReceiptEffect, Effect, EffectKind, Label, BOTTOM
<1>4. call[t].manifest.ir_hash \in IRHash
  BY <1>2 DEF ManifestType
<1>5. Len(receipts) \in Nat /\ now \in Nat
  BY LenProperties DEF ConcurrentInv, TypeOK
<1>6. call[t].decision \in Decision /\ call[t].note \in Reason \cup {NoNote}
  BY DEF Decided
<1>7. BodyAt(Len(receipts), call[t]) \in BodyType
  BY <1>1, <1>3, <1>4, <1>5, <1>6 DEF BodyAt, Body, BodyType, manifest_digest
<1> QED
  BY <1>1, <1>3, <1>4, <1>5, <1>6, <1>7

\* A hash covers the link in front of it and the body.
LEMMA HashCovers ==
    ASSUME NEW prev \in Chain, NEW body \in BodyType
    PROVE  Covers(sha256(prev, body), prev, body.effect)
<1>1. /\ Append(prev, body) \in Seq(BodyType) /\ Len(prev) \in Nat
      /\ Len(Append(prev, body)) = Len(prev) + 1
      /\ Append(prev, body)[Len(prev) + 1] = body
  BY AppendProperties, LenProperties DEF Chain
<1>2. SubSeq(Append(prev, body), 1, Len(prev)) = prev
  BY <1>1 DEF Chain
<1> QED
  BY <1>1, <1>2 DEF Covers, sha256, Chain

\* append hashes the link it has read, not the head of now (audit.py:60-65).
LEMMA HashBodyKeeps ==
    ASSUME ConcurrentInv, NEW t \in Thread, HashBody(t)
    PROVE  ConcurrentInv'
<1> DEFINE body == BodyAt(Len(receipts), call[t])
           upd  == [chain |-> sha256(call[t].prev, body)]
           w    == Went(call[t], "number", upd)
<1>1. t \in InFlight /\ Frame(call[t], receipts, issued, moves) /\ call[t].at = "hash"
  BY InCall DEF HashBody, Where
<1>2. UNCHANGED <<brokerVars, histories>>
  BY DEF HashBody
<1>3. DOMAIN upd = {"chain"} /\ upd["chain"] = sha256(call[t].prev, body)
  OBVIOUS
<1>4. DOMAIN upd \cap CommonLocals = {} /\ "number" \in Where
  BY <1>3 DEF CommonLocals, Where
<1>5. Common(call[t], receipts, issued, moves) /\ Decided(call[t], moves) /\ Linking(call[t], receipts)
  BY <1>1 DEF Frame
<1>6. call' = [call EXCEPT ![t] = w]
  BY DEF HashBody, Goto, Went
<1>7. body \in BodyType /\ body.effect = ReceiptEffectOf(call[t])
  BY <1>1, <1>5, ContentTyped DEF BodyAt, Body
<1> HIDE DEF body
<1>8. Covers(sha256(call[t].prev, body), call[t].prev, ReceiptEffectOf(call[t]))
  <2>1. call[t].prev \in Chain
    BY <1>5 DEF Linking, Follows
  <2> QED
    BY <1>7, <2>1, HashCovers
<1> HIDE DEF upd
<1>9. Moved(w, call[t], "number", upd, receipts, issued, moves)
  BY <1>4, <1>5, FrameMoves
<1> HIDE DEF w
<1>10. Decided(w, moves)
  BY <1>3, <1>5, <1>9 DEF Decided, Moved
<1>11. Linking(w, receipts)
  <2>1. "prev" \in DOMAIN w /\ w.prev = call[t].prev /\ w.started = call[t].started
    BY <1>3, <1>5, <1>9 DEF Linking, Moved
  <2> QED
    BY <1>5, <2>1 DEF Linking
<1>12. Hashed(w)
  <2>1. "prev" \in DOMAIN w /\ w.prev = call[t].prev
    BY <1>3, <1>5, <1>9 DEF Linking, Moved
  <2>2. "chain" \in DOMAIN w /\ w.chain = sha256(call[t].prev, body)
    BY <1>3, <1>9 DEF Moved
  <2>3. w.decision = call[t].decision /\ w.effect = call[t].effect
    BY <1>3, <1>5, <1>9 DEF Moved, Decided
  <2>4. ReceiptEffectOf(w) = ReceiptEffectOf(call[t])
    BY <2>3 DEF ReceiptEffectOf
  <2> QED
    BY <1>8, <2>1, <2>2, <2>4 DEF Hashed
<1>13. Frame(w, receipts, issued, moves)
  BY <1>9, <1>10, <1>11, <1>12 DEF Frame, Moved
<1> QED
  BY <1>1, <1>2, <1>6, <1>13, QuietStep

\* The receipt is built: length and clock of now, links of before (audit.py:66-68).
LEMMA StampKeeps ==
    ASSUME ConcurrentInv, NEW t \in Thread, Stamp(t)
    PROVE  ConcurrentInv'
<1> DEFINE c   == call[t]
           r   == [MakeReceipt(Len(receipts), c.prev, c.manifest.ir_hash,
                               manifest_digest(c.manifest), ReceiptEffectOf(c),
                               c.decision, c.note, now, now)
                   EXCEPT !.chain = c.chain]
           upd == [receipt |-> r]
           w   == Went(c, "push", upd)
<1>1. t \in InFlight /\ Frame(c, receipts, issued, moves) /\ c.at = "number"
  BY InCall DEF Stamp, Where
<1>2. UNCHANGED <<brokerVars, histories>>
  BY DEF Stamp
<1>3. DOMAIN upd = {"receipt"} /\ upd["receipt"] = r
  OBVIOUS
<1>4. DOMAIN upd \cap CommonLocals = {} /\ "push" \in Where
  BY <1>3 DEF CommonLocals, Where
<1>5. /\ Common(c, receipts, issued, moves) /\ Decided(c, moves) /\ Linking(c, receipts) /\ Hashed(c)
  BY <1>1 DEF Frame
<1>6. call' = [call EXCEPT ![t] = w]
  BY DEF Stamp, Goto, Went
<1>7. r = [seq |-> Len(receipts), ir_hash |-> c.manifest.ir_hash,
           manifest_digest |-> c.manifest, effect |-> ReceiptEffectOf(c),
           decision |-> c.decision, note |-> c.note, prev_chain |-> c.prev,
           chain |-> c.chain, timestamp |-> now]
  BY DEF MakeReceipt, manifest_digest
<1>8. r \in ReceiptType
  <2>1. c.prev \in Chain /\ c.chain \in Chain
    BY <1>5 DEF Linking, Follows, Hashed, Covers
  <2>2. /\ ReceiptEffectOf(c) \in ReceiptEffect
        /\ c.manifest \in Manifests /\ c.manifest.ir_hash \in IRHash
        /\ c.decision \in Decision /\ c.note \in Reason \cup {NoNote}
        /\ Len(receipts) \in Nat /\ now \in Nat
    BY <1>1, <1>5, ContentTyped
  <2> QED
    BY <1>7, <2>1, <2>2 DEF ReceiptType
<1>9. /\ r.prev_chain = c.prev /\ r.chain = c.chain /\ r.effect = ReceiptEffectOf(c)
      /\ r.decision = c.decision /\ r.manifest_digest = c.manifest
  BY <1>7
<1> HIDE DEF r, upd
<1>10. Moved(w, c, "push", upd, receipts, issued, moves)
  BY <1>4, <1>5, FrameMoves
<1> HIDE DEF w
<1>11. Decided(w, moves)
  BY <1>3, <1>5, <1>10 DEF Decided, Moved
<1>12. Stamped(w, receipts)
  <2>1. "receipt" \in DOMAIN w /\ w.receipt = r
    BY <1>3, <1>10 DEF Moved
  <2>2. /\ w.decision = c.decision /\ w.effect = c.effect
        /\ w.manifest = c.manifest /\ w.started = c.started
    BY <1>3, <1>5, <1>10 DEF Moved, Decided
  <2>3. ReceiptEffectOf(w) = ReceiptEffectOf(c)
    BY <2>2 DEF ReceiptEffectOf
  <2>4. Follows(r.prev_chain, w.started, receipts)
    BY <1>5, <1>9, <2>2 DEF Linking
  <2>5. Covers(r.chain, r.prev_chain, r.effect)
    BY <1>5, <1>9 DEF Hashed
  <2> QED
    BY <1>8, <1>9, <2>1, <2>2, <2>3, <2>4, <2>5 DEF Stamped
<1>13. Frame(w, receipts, issued, moves)
  BY <1>10, <1>11, <1>12 DEF Frame, Moved
<1> QED
  BY <1>1, <1>2, <1>6, <1>13, QuietStep

-----------------------------------------------------------------------------
(* Steps that a log or the table of tokens grows by *)

\* What Push does to the histories, and to the threads in flight.
Pushes(t, n, r) ==
    /\ t \in InFlight /\ Frame(call[t], receipts, issued, moves) /\ Stamped(call[t], receipts)
    /\ Decided(call[t], moves)
    /\ r = call[t].receipt /\ r \in ReceiptType
    /\ n = Len(receipts) /\ n \in Nat
    /\ receipts' = Append(receipts, r) /\ Len(receipts') = n + 1
    /\ \A i \in 1 .. n : /\ receipts'[i] = receipts[i] /\ started'[i] = started[i]
                         /\ moveOf'[i] = moveOf[i]
    /\ receipts'[n + 1] = r /\ started'[n + 1] = call[t].started
    /\ r.decision = "ADMIT" => moveOf'[n + 1] = call[t].move
    /\ InFlight' = InFlight \ {t}
    /\ DOMAIN call' = Thread /\ \A u \in InFlight' : call'[u] = call[u]
    /\ AdmittedAt' = AdmittedAt \cup (IF r.decision = "ADMIT" THEN {n + 1} ELSE {})
    /\ AdmittedAt \subseteq 1 .. n

\* What the last step of a call adds to the log (audit.py append).
LEMMA PushShape ==
    ASSUME ConcurrentInv, NEW t \in Thread, Push(t)
    PROVE  /\ TypeOK' /\ Histories'
           /\ Pushes(t, Len(receipts), call[t].receipt)
<1> DEFINE n == Len(receipts)
           c == call[t]
           r == c.receipt
           g == IF c.decision = "ADMIT" THEN c.token ELSE NoToken
           v == IF c.decision = "ADMIT" THEN c.move ELSE 0
<1>1. t \in InFlight /\ Frame(c, receipts, issued, moves) /\ c.at = "push"
  BY InCall DEF Push, Where
<1>2. Common(c, receipts, issued, moves) /\ Decided(c, moves) /\ Stamped(c, receipts)
  BY <1>1 DEF Frame
<1>3. r \in ReceiptType /\ r.decision = c.decision
  BY <1>2 DEF Stamped
<1>4. /\ receipts \in Seq(ReceiptType) /\ n \in Nat
      /\ granted \in Seq(TokenType \cup ForeignTokens \cup {NoToken}) /\ Len(granted) = n
      /\ started \in Seq(Nat) /\ Len(started) = n
      /\ moveOf \in Seq(Nat) /\ Len(moveOf) = n /\ moves \in Seq(MoveType)
      /\ issued \subseteq TokenType
  BY LenProperties DEF ConcurrentInv, TypeOK, Histories
<1>5. g \in TokenType \cup ForeignTokens \cup {NoToken}
  BY <1>2, <1>4 DEF Common
<1>6. c.started \in Nat /\ v \in Nat
  BY <1>2, <1>4, LenProperties DEF Common, Decided, MoveOf
<1>7. /\ receipts' = Append(receipts, r) /\ granted' = Append(granted, g)
      /\ started' = Append(started, c.started) /\ moveOf' = Append(moveOf, v)
  BY DEF Push
<1> HIDE DEF g, v
<1>8. /\ receipts' \in Seq(ReceiptType) /\ Len(receipts') = n + 1
      /\ receipts'[n + 1] = r /\ \A i \in 1 .. n : receipts'[i] = receipts[i]
  BY <1>3, <1>4, <1>7, AppendProperties
<1>9. /\ granted' \in Seq(TokenType \cup ForeignTokens \cup {NoToken})
      /\ Len(granted') = n + 1
      /\ granted'[n + 1] = g /\ \A i \in 1 .. n : granted'[i] = granted[i]
  BY <1>4, <1>5, <1>7, AppendProperties
<1>10. /\ started' \in Seq(Nat) /\ Len(started') = n + 1
       /\ started'[n + 1] = c.started /\ \A i \in 1 .. n : started'[i] = started[i]
       /\ moveOf' \in Seq(Nat) /\ Len(moveOf') = n + 1
       /\ moveOf'[n + 1] = v /\ \A i \in 1 .. n : moveOf'[i] = moveOf[i]
  BY <1>4, <1>6, <1>7, AppendProperties
<1>11. TypeOK' /\ Histories'
  BY <1>8, <1>9, <1>10 DEF Push, ConcurrentInv, TypeOK, Histories
<1>12. DOMAIN call' = Thread /\ call'[t] = NoCall /\ \A u \in Thread \ {t} : call'[u] = call[u]
  BY DEF Push, ConcurrentInv, Frames
<1>13. InFlight' = InFlight \ {t} /\ \A u \in InFlight' : call'[u] = call[u]
  BY <1>12 DEF InFlight
<1>14. DOMAIN receipts = 1 .. n /\ DOMAIN receipts' = 1 .. n + 1
  BY <1>4, <1>8, LenProperties
<1>15. /\ AdmittedAt \subseteq 1 .. n
       /\ AdmittedAt' = AdmittedAt \cup (IF r.decision = "ADMIT" THEN {n + 1} ELSE {})
  BY <1>4, <1>8, <1>14 DEF AdmittedAt
<1>16. r.decision = "ADMIT" => v = c.move
  BY <1>3 DEF v
<1> HIDE DEF n, c, r
<1>17. Pushes(t, n, r)
  BY <1>1, <1>2, <1>3, <1>4, <1>7, <1>8, <1>9, <1>10, <1>12, <1>13, <1>15, <1>16
  DEF Pushes, n, c, r
<1> QED
  BY <1>11, <1>17 DEF n, c, r

\* The new receipt is linked to the log it joins, the old ones stay linked.
LEMMA PushLinks ==
    ASSUME ConcurrentInv, NEW t, NEW n, NEW r, Pushes(t, n, r)
    PROVE  Links'
<1>1. receipts \in Seq(ReceiptType) /\ r \in ReceiptType /\ n = Len(receipts) /\ n \in Nat
  BY DEF Pushes, ConcurrentInv, TypeOK
<1>2. \A k \in 0 .. n : LinkOf(receipts', k) = LinkOf(receipts, k)
  BY <1>1, LinkStays DEF Pushes
<1>3. DOMAIN receipts = 1 .. n /\ DOMAIN receipts' = 1 .. n + 1
  BY <1>1, AppendProperties, LenProperties DEF Pushes
<1>4. \A k \in 0 .. n : Len(LinkOf(receipts, k)) <= k
  <2> TAKE k \in 0 .. n
  <2>1. CASE k = 0
    BY <2>1, EmptySeq DEF LinkOf, GENESIS
  <2>2. CASE k # 0
    <3>1. WellLinked(k, receipts, started)
      BY <1>1, <1>3, <2>2 DEF ConcurrentInv, Links
    <3> QED
      BY <2>2, <3>1 DEF WellLinked, LinkOf
  <2> QED
    BY <2>1, <2>2
<1>5. ASSUME NEW i \in 1 .. n PROVE WellLinked(i, receipts', started')
  <2>1. WellLinked(i, receipts, started)
    BY <1>3 DEF ConcurrentInv, Links
  <2>2. receipts'[i] = receipts[i] /\ started'[i] = started[i]
    BY DEF Pushes
  <2>3. started[i] \in Nat
    BY <2>1 DEF WellLinked
  <2>4. PICK k \in started[i] .. i - 1 : receipts[i].prev_chain = LinkOf(receipts, k)
    BY <2>1 DEF WellLinked
  <2>5. k \in 0 .. n
    BY <1>1, <2>3
  <2>6. receipts'[i].prev_chain = LinkOf(receipts', k)
    BY <1>2, <2>2, <2>4, <2>5
  <2> QED
    BY <2>1, <2>2, <2>4, <2>6 DEF WellLinked
<1>6. WellLinked(n + 1, receipts', started')
  <2>1. /\ receipts'[n + 1] = r /\ started'[n + 1] = call[t].started
        /\ Follows(r.prev_chain, call[t].started, receipts)
        /\ Covers(r.chain, r.prev_chain, r.effect)
    BY DEF Pushes, Stamped
  <2>2. call[t].started \in Nat
    BY <1>1 DEF Pushes, Frame, Common
  <2>3. PICK k \in call[t].started .. n : r.prev_chain = LinkOf(receipts, k)
    BY <1>1, <2>1 DEF Follows
  <2>4. k \in 0 .. n /\ k \in call[t].started .. (n + 1) - 1
    BY <1>1, <2>2
  <2>5. r.prev_chain = LinkOf(receipts', k)
    BY <1>2, <2>3, <2>4
  <2>6. r.prev_chain \in Chain
    BY <2>1 DEF Follows
  <2>7. Len(r.prev_chain) <= n /\ Len(r.prev_chain) \in Nat
    BY <1>1, <1>4, <2>3, <2>4, <2>6, LenProperties DEF Chain
  <2>8. Len(r.chain) <= n + 1
    BY <1>1, <2>1, <2>7 DEF Covers
  <2> QED
    BY <2>1, <2>2, <2>4, <2>5, <2>8 DEF WellLinked
<1> QED
  BY <1>1, <1>3, <1>5, <1>6 DEF Links

\* Its admission refers to the move of the call that ends.
LEMMA PushAdmissions ==
    ASSUME ConcurrentInv, NEW t, NEW n, NEW r, Pushes(t, n, r), UNCHANGED moves
    PROVE  Admissions'
<1>1. \A i \in AdmittedAt : receipts'[i] = receipts[i] /\ moveOf'[i] = moveOf[i]
  BY DEF Pushes
<1>2. r.decision = "ADMIT" => MoveOf(moves, moveOf'[n + 1], r.effect)
  BY DEF Pushes, Stamped, Decided, ReceiptEffectOf
<1>3. receipts'[n + 1] = r
  BY DEF Pushes
<1> QED
  BY <1>1, <1>2, <1>3 DEF Pushes, Admissions, ConcurrentInv

\* The receipt joins the log and the call returns (audit.py:69).
LEMMA PushKeeps ==
    ASSUME ConcurrentInv, NEW t \in Thread, Push(t)
    PROVE  ConcurrentInv'
<1> DEFINE n == Len(receipts)
           r == call[t].receipt
<1>1. /\ TypeOK' /\ Histories' /\ Pushes(t, n, r)
      /\ UNCHANGED <<issued, state, moves>>
  BY PushShape DEF Push
<1> HIDE DEF n, r
<1>2. Frames'
  <2>1. receipts \in Seq(ReceiptType) /\ r \in ReceiptType
    BY <1>1 DEF Pushes, ConcurrentInv, TypeOK
  <2>2. ASSUME NEW u \in InFlight' PROVE Frame(call'[u], receipts', issued', moves')
    <3>1. u \in InFlight /\ call'[u] = call[u] /\ receipts' = Append(receipts, r)
      BY <1>1 DEF Pushes
    <3>2. Frame(call[u], receipts, issued, moves)
      BY <3>1 DEF ConcurrentInv, Frames
    <3>3. Frame(call[u], Append(receipts, r), issued, moves)
      BY <2>1, <3>2, FrameKeepsReceipts
    <3> QED
      BY <1>1, <3>1, <3>3
  <2> QED
    BY <1>1, <2>2 DEF Frames, Pushes
<1>3. Links' /\ Admissions'
  BY <1>1, PushLinks, PushAdmissions
<1>4. Stepped'
  BY <1>1 DEF ConcurrentInv, Stepped
<1> QED
  BY <1>1, <1>2, <1>3, <1>4 DEF ConcurrentInv

\* The token a call is issued is for m.
LEMMA IssuedIsTyped ==
    ASSUME ConcurrentInv, NEW m \in Manifests, issue_token(m)
    PROVE  /\ issued' = issued \cup {FreshToken(m)}
           /\ issued' \subseteq TokenType /\ IsFiniteSet(issued')
           /\ FreshToken(m).manifest_digest = m
<1>1. TypeOK
  BY DEF ConcurrentInv
<1>2. FreshToken(m) \in TokenType /\ issued' = issued \cup {FreshToken(m)}
  BY <1>1, IssuedType DEF FreshToken
<1>3. FreshToken(m).manifest_digest = m
  BY DEF FreshToken, sign_token, manifest_digest
<1>4. IsFiniteSet(issued')
  BY <1>1, <1>2, FS_AddElement DEF TypeOK
<1> QED
  BY <1>1, <1>2, <1>3, <1>4 DEF TypeOK

\* A call begins: its token is issued and it is in flight (worker.py _submit).
LEMMA RequestKeeps ==
    ASSUME ConcurrentInv, NEW t \in Thread, NEW m \in Manifests, NEW e \in Effects,
           Request(t, m, e)
    PROVE  ConcurrentInv'
<1> DEFINE tok == IF EnableCapability THEN FreshToken(m) ELSE NoToken
           w   == [at |-> "check", manifest |-> m, effect |-> e, token |-> tok,
                   started |-> Len(receipts), since |-> Len(moves)]
<1>1. /\ call[t] = NoCall /\ call' = [call EXCEPT ![t] = w]
      /\ UNCHANGED <<receipts, state, now, granted, resetAt, started, moves, moveOf>>
      /\ IF EnableCapability THEN issue_token(m) ELSE UNCHANGED issued
  BY DEF Request, brokerVars, histories, issue_token
<1>2. DOMAIN call = Thread /\ Len(receipts) \in Nat /\ Len(moves) \in Nat
  BY LenProperties DEF ConcurrentInv, Frames, TypeOK, Histories
<1>3. /\ issued \subseteq issued' /\ issued' \subseteq TokenType /\ IsFiniteSet(issued')
      /\ EnableCapability => tok \in issued' /\ tok.manifest_digest = m
  <2>1. CASE EnableCapability
    BY <1>1, <2>1, IssuedIsTyped
  <2>2. CASE ~EnableCapability
    BY <1>1, <2>2 DEF ConcurrentInv, TypeOK
  <2> QED
    BY <2>1, <2>2
<1>4. ~EnableCapability => tok = NoToken
  OBVIOUS
<1>5. TypeOK' /\ Histories'
  BY <1>1, <1>3 DEF ConcurrentInv, TypeOK, Histories
<1>6. /\ DOMAIN w = CommonLocals
      /\ w.at = "check" /\ w.manifest = m /\ w.effect = e /\ w.token = tok
      /\ w.started = Len(receipts) /\ w.since = Len(moves)
  BY DEF CommonLocals
<1> HIDE DEF tok, w
<1>7. Frame(w, receipts', issued', moves')
  <2>1. Common(w, receipts', issued', moves')
    BY <1>1, <1>2, <1>3, <1>4, <1>6 DEF Common, Where
  <2> QED
    BY <1>6, <2>1 DEF Frame
<1>8. /\ DOMAIN call' = Thread /\ call'[t] = w
      /\ \A u \in Thread \ {t} : call'[u] = call[u]
  BY <1>1, <1>2
<1>9. w # NoCall
  BY <1>6 DEF CommonLocals, NoCall
<1>10. t \notin InFlight /\ InFlight' = InFlight \cup {t}
  BY <1>1, <1>8, <1>9 DEF InFlight
<1>11. \A u \in InFlight : call'[u] = call[u] /\ Frame(call[u], receipts, issued, moves)
  BY <1>8, <1>10 DEF InFlight, ConcurrentInv, Frames
<1>12. Frames'
  <2>1. ASSUME NEW u \in InFlight' PROVE Frame(call'[u], receipts', issued', moves')
    <3>1. CASE u = t
      BY <1>7, <1>8, <3>1
    <3>2. CASE u # t
      <4>1. call'[u] = call[u] /\ Frame(call[u], receipts, issued, moves)
        BY <1>10, <1>11, <3>2
      <4>2. Frame(call[u], receipts, issued', moves)
        BY <1>3, <4>1, FrameKeepsTokens
      <4> QED
        BY <1>1, <4>1, <4>2
    <3> QED
      BY <3>1, <3>2
  <2> QED
    BY <1>8, <2>1 DEF Frames
<1>13. Links' /\ Admissions' /\ Stepped'
  BY <1>1 DEF ConcurrentInv, Links, Admissions, AdmittedAt, Stepped
<1> QED
  BY <1>5, <1>12, <1>13 DEF ConcurrentInv

-----------------------------------------------------------------------------
(* The theorems *)

\* What the threads hold in flight, and what the log and the table hold, keeps
\* the shape from which the properties below follow (broker.py, audit.py,
\* capability.py, with no lock between them).
THEOREM ConcurrentInvariant == ConcurrentSpec => []ConcurrentInv
<1>1. ConcurrentInit => ConcurrentInv
  <2> SUFFICES ASSUME ConcurrentInit PROVE ConcurrentInv
    OBVIOUS
  <2>1. /\ receipts = <<>> /\ granted = <<>> /\ started = <<>> /\ issued = {}
        /\ moves = <<>> /\ moveOf = <<>>
        /\ state = Policy.initial /\ now = 0 /\ resetAt = 0
        /\ call = [t \in Thread |-> NoCall]
    BY DEF ConcurrentInit, Init
  <2>2. /\ <<>> \in Seq(ReceiptType) /\ <<>> \in Seq(Nat) /\ <<>> \in Seq(MoveType)
        /\ <<>> \in Seq(TokenType \cup ForeignTokens \cup {NoToken})
        /\ Len(<<>>) = 0 /\ IsFiniteSet({})
    BY EmptySeq, FS_EmptySet
  <2>3. TypeOK /\ Histories
    BY <2>1, <2>2 DEF TypeOK, Histories, StatesOf
  <2>4. DOMAIN receipts = {} /\ AdmittedAt = {}
    BY <2>1 DEF AdmittedAt
  <2>5. InFlight = {} /\ DOMAIN call = Thread
    BY <2>1 DEF InFlight
  <2>6. Frames /\ Links /\ Admissions
    BY <2>4, <2>5 DEF Frames, Links, Admissions
  <2>7. Stepped
    BY <2>1, <2>2 DEF Stepped, StateOf
  <2> QED
    BY <2>3, <2>6, <2>7 DEF ConcurrentInv
<1>2. ConcurrentInv /\ [ConcurrentNext]_concurrentVars => ConcurrentInv'
  <2> SUFFICES ASSUME ConcurrentInv, [ConcurrentNext]_concurrentVars PROVE ConcurrentInv'
    OBVIOUS
  <2>1. ASSUME NEW t \in Thread, Advance(t) PROVE ConcurrentInv'
    BY <2>1, CheckTokenKeeps, ReadStateKeeps, WriteStateKeeps, ReadHeadKeeps,
       HashBodyKeeps, StampKeeps, PushKeeps DEF Advance
  <2>2. ASSUME NEW t \in Thread, NEW m \in Manifests, NEW e \in Effects, Request(t, m, e)
        PROVE  ConcurrentInv'
    BY <2>2, RequestKeeps
  <2>3. ASSUME now' \in Nat,
               UNCHANGED <<receipts, state, issued, granted, resetAt, call, histories>>
        PROVE  ConcurrentInv'
    <3>1. UNCHANGED <<started, moves, moveOf>>
      BY <2>3 DEF histories
    <3> QED
      BY <2>3, <3>1 DEF ConcurrentInv, TypeOK, Histories, Frames, InFlight, Links, Admissions,
         AdmittedAt, Stepped
  <2>4. CASE Tick /\ UNCHANGED <<call, histories>>
    BY <2>3, <2>4 DEF Tick, ConcurrentInv, TypeOK
  <2>5. CASE UNCHANGED concurrentVars
    BY <2>3, <2>5 DEF concurrentVars, brokerVars, ConcurrentInv, TypeOK
  <2> QED
    BY <2>1, <2>2, <2>4, <2>5 DEF ConcurrentNext
<1> QED
  BY <1>1, <1>2, PTL DEF ConcurrentSpec

\* Threads are idle or in a call of their own, and what they store is typed.
THEOREM ConcurrentTyped == ConcurrentSpec => []ConcurrentTypeOK
<1>1. ConcurrentInv => ConcurrentTypeOK
  BY DEF ConcurrentInv, ConcurrentTypeOK, Histories, Frames, Frame, Common, Stamped
<1> QED
  BY <1>1, ConcurrentInvariant, PTL

\* The log forks only where calls overlap: every receipt extends a link that
\* was the head at some moment of its own call (audit.py head, append).
THEOREM LinksFresh == ConcurrentSpec => []LinksAreFresh
<1>1. ConcurrentInv => LinksAreFresh
  <2> SUFFICES ASSUME ConcurrentInv, NEW i \in DOMAIN receipts
               PROVE  /\ \E k \in started[i] .. i - 1 : receipts[i].prev_chain = LinkAt(k)
                      /\ Covers(receipts[i].chain, receipts[i].prev_chain, receipts[i].effect)
    BY DEF LinksAreFresh, Covers
  <2>1. WellLinked(i, receipts, started)
    BY DEF ConcurrentInv, Links
  <2> QED
    BY <2>1 DEF WellLinked, LinkOf, LinkAt
<1> QED
  BY <1>1, ConcurrentInvariant, PTL

\* Racing calls may lose a step of the automaton, and none is made from a state
\* that was gone before the call began, or into one that is not accepting
\* (broker.py:127-140, with no lock around it).
THEOREM StepsFresh == ConcurrentSpec => []StepsAreFresh
<1>1. ConcurrentInv => StepsAreFresh
  <2> SUFFICES ASSUME ConcurrentInv, EnableAutomaton PROVE StepsAreFresh
    BY DEF StepsAreFresh
  <2>1. \A k : StateAt(k) = StateOf(moves, k)
    BY DEF StateAt, StateOf
  <2>2. state = StateAt(Len(moves))
    BY <2>1 DEF ConcurrentInv, Stepped
  <2>3. ASSUME NEW k \in DOMAIN moves
        PROVE  /\ \E j \in moves[k].since .. k - 1 :
                     step(Policy, StateAt(j), moves[k].effect) = moves[k].to
               /\ accepts(Policy, moves[k].to)
    BY <2>1 DEF ConcurrentInv, Stepped, WellStepped, Steps
  <2>4. \A i \in AdmittedAt : /\ moveOf[i] \in DOMAIN moves
                              /\ moves[moveOf[i]].effect = receipts[i].effect
    BY DEF ConcurrentInv, Admissions, MoveOf
  <2> QED
    BY <2>2, <2>3, <2>4 DEF StepsAreFresh
<1> QED
  BY <1>1, ConcurrentInvariant, PTL
=============================================================================
