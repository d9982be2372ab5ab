----------------------------- MODULE SpendProofs -----------------------------
(***************************************************************************)
(* Proofs about the buyer's payment service, for any number of tool calls, *)
(* amounts, policies, restarts and store faults.                           *)
(***************************************************************************)
EXTENDS Spend, SumTheorems

-----------------------------------------------------------------------------
(* The calendar *)

\* StartOf: what is not before the start of a time's period is in that period.
LEMMA SamePeriod ==
  ASSUME NEW d \in Nat \ {0}, NEW q \in Nat, NEW t \in Nat, q <= t
  PROVE  StartOf(d, q) = StartOf(d, t) <=> q >= StartOf(d, t)
<1> DEFINE a == q \div d
           b == t \div d
           r == q % d
           s == t % d
<1>1. /\ a \in Nat /\ r \in 0 .. d - 1 /\ q = d * a + r
      /\ b \in Nat /\ s \in 0 .. d - 1 /\ t = d * b + s
  OBVIOUS
<1>2. StartOf(d, q) = q - r /\ StartOf(d, t) = t - s
  BY DEF StartOf
<1> HIDE DEF a, b, r, s
<1>3. q - r = d * a /\ t - s = d * b /\ d * a \in Nat /\ d * b \in Nat
  BY <1>1
<1>4. ASSUME a < b PROVE d * a + d <= d * b
  <2>1. b - a - 1 \in Nat /\ d * (b - a - 1) \in Nat
    BY <1>1, <1>4
  <2>2. d * b = d * a + d + d * (b - a - 1)
    BY <1>1
  <2> QED BY <1>3, <2>1, <2>2
<1>5. ASSUME b < a PROVE d * b + d <= d * a
  <2>1. a - b - 1 \in Nat /\ d * (a - b - 1) \in Nat
    BY <1>1, <1>5
  <2>2. d * a = d * b + d + d * (a - b - 1)
    BY <1>1
  <2> QED BY <1>3, <2>1, <2>2
<1> DEFINE x == d * a
           y == d * b
<1>6. /\ x \in Nat /\ y \in Nat /\ q = x + r /\ t = y + s
      /\ (a < b => x + d <= y) /\ (b < a => y + d <= x) /\ (a = b => x = y)
  BY <1>1, <1>3, <1>4, <1>5
<1>7. StartOf(d, q) = x /\ StartOf(d, t) = y
  BY <1>2, <1>3
<1> HIDE DEF x, y
<1> QED BY <1>1, <1>6, <1>7

-----------------------------------------------------------------------------
(* Adding up payments *)

\* The payments of a finite part of the table have a sum.
LEMMA AtomsIsSum ==
  ASSUME NEW ps \in SUBSET PaymentRec, IsFiniteSet(ps)
  PROVE  LET F == [p \in PaymentRec |-> p.amount]
         IN  Counts(F, ps) /\ Atoms(ps) = SumFunctionOnSet(F, ps)
<1> DEFINE F == [p \in PaymentRec |-> p.amount]
           f == [p \in ps |-> p.amount]
<1>1. \A p \in ps : F[p] \in Nat /\ f[p] = F[p]
  BY SpendAssumption DEF PaymentRec
<1>2. Counts(F, ps)
  BY <1>1 DEF Counts
<1> HIDE DEF F
<1>3. SumFunctionOnSet(f, ps) = SumFunctionOnSet(F, ps)
  <2> HIDE DEF f
  <2> QED BY <1>1, <1>2, SumSame
<1>4. DOMAIN f = ps
  OBVIOUS
<1>5. Atoms(ps) = SumFunctionOnSet(f, ps)
  BY <1>4 DEF Atoms, SumFunction
<1> QED BY <1>2, <1>3, <1>5 DEF F

LEMMA AtomsSubset ==
  ASSUME NEW ps \in SUBSET PaymentRec, IsFiniteSet(ps), NEW rs \in SUBSET ps
  PROVE  Atoms(rs) \in Nat /\ Atoms(ps) \in Nat /\ Atoms(rs) <= Atoms(ps)
<1> DEFINE F == [p \in PaymentRec |-> p.amount]
<1>1. Counts(F, ps) /\ Atoms(ps) = SumFunctionOnSet(F, ps)
  BY AtomsIsSum
<1>2. IsFiniteSet(rs) /\ rs \in SUBSET PaymentRec
  BY FS_Subset
<1>3. Counts(F, rs) /\ Atoms(rs) = SumFunctionOnSet(F, rs)
  BY <1>2, AtomsIsSum
<1> HIDE DEF F
<1> QED BY <1>1, <1>3, SumSubset, SumNat

LEMMA AtomsAdd ==
  ASSUME NEW ps \in SUBSET PaymentRec, IsFiniteSet(ps), NEW r \in PaymentRec, r \notin ps
  PROVE  Atoms(ps \cup {r}) = Atoms(ps) + r.amount
<1> DEFINE F == [p \in PaymentRec |-> p.amount]
<1>1. Counts(F, ps) /\ Atoms(ps) = SumFunctionOnSet(F, ps)
  BY AtomsIsSum
<1>2. IsFiniteSet(ps \cup {r}) /\ ps \cup {r} \in SUBSET PaymentRec
  BY FS_AddElement
<1>3. Atoms(ps \cup {r}) = SumFunctionOnSet(F, ps \cup {r})
  BY <1>2, AtomsIsSum
<1>4. F[r] = r.amount /\ F[r] \in Nat
  BY SpendAssumption DEF PaymentRec
<1> HIDE DEF F
<1>5. SumFunctionOnSet(F, ps \cup {r}) = SumFunctionOnSet(F, ps) + F[r]
  BY <1>1, <1>4, SumAdd
<1> QED BY <1>1, <1>3, <1>4, <1>5

\* A limit that a value respects is respected by a smaller one.
LEMMA WithinLess ==
  ASSUME NEW v \in Int, NEW w \in Int, NEW limit \in Nat, w <= v, Within(v, limit)
  PROVE  Within(w, limit)
  BY DEF Within

LEMMA PolicyTyped ==
  \A p \in Policies : /\ p.daily \in Nat /\ p.weekly \in Nat /\ p.perHour \in Nat
                      /\ p.threshold \in Nat /\ p.perPayment \in Nat
  BY SpendAssumption DEF PolicyRec

USE SpendAssumption

-----------------------------------------------------------------------------
(* Threads *)

\* A thread is a call or a continuation of its job.
LEMMA ThreadCases ==
  ASSUME NEW t \in Thread
  PROVE  /\ t[1] \in Job
         /\ \/ t = CallOf(t[1]) /\ t[2] = "call"
            \/ t = ContOf(t[1]) /\ t[2] = "cont"
  BY DEF Thread, CallOf, ContOf

\* The call and the continuation of a job are threads of their own.
LEMMA ThreadsApart ==
  ASSUME NEW j \in Job
  PROVE  /\ CallOf(j) \in Thread /\ ContOf(j) \in Thread
         /\ CallOf(j)[1] = j /\ CallOf(j)[2] = "call"
         /\ ContOf(j)[1] = j /\ ContOf(j)[2] = "cont"
         /\ CallOf(j) # ContOf(j)
         /\ \A i \in Job : /\ CallOf(i) # ContOf(j)
                           /\ i # j => CallOf(i) # CallOf(j) /\ ContOf(i) # ContOf(j)
  BY DEF Thread, CallOf, ContOf

\* A thread that moves keeps its amount, and the others do not move.
LEMMA GotoMoves ==
  ASSUME TypeOK, NEW t \in Thread, NEW phase \in Phase, Goto(t, phase)
  PROVE  /\ th' \in [Thread -> ThreadRec]
         /\ th'[t].phase = phase /\ th'[t].amount = th[t].amount
         /\ \A u \in Thread : u # t => th'[u] = th[u]
<1>1. th[t] \in ThreadRec
  BY DEF TypeOK
<1>2. th' = [th EXCEPT ![t] = [th[t] EXCEPT !.phase = phase]]
  BY DEF Goto, TypeOK
<1>3. /\ [th[t] EXCEPT !.phase = phase] \in ThreadRec
      /\ [th[t] EXCEPT !.phase = phase].phase = phase
      /\ [th[t] EXCEPT !.phase = phase].amount = th[t].amount
  BY <1>1 DEF ThreadRec
<1> QED BY <1>2, <1>3 DEF TypeOK

\* So does a thread that is given a whole new record.
LEMMA RecordMoves ==
  ASSUME TypeOK, NEW t \in Thread, NEW phase \in Phase, NEW n \in Amount \cup {0},
         th' = [th EXCEPT ![t] = [phase |-> phase, amount |-> n]]
  PROVE  /\ th' \in [Thread -> ThreadRec]
         /\ th'[t].phase = phase /\ th'[t].amount = n
         /\ \A u \in Thread : u # t => th'[u] = th[u]
<1>1. [phase |-> phase, amount |-> n] \in ThreadRec
  BY DEF ThreadRec
<1> QED BY <1>1 DEF TypeOK

-----------------------------------------------------------------------------
(* Jobs *)

\* The invariant of a job reads its two threads, its approval, its place in
\* the registry and what was sent for it, and nothing else.
LEMMA JobUntouched ==
  ASSUME NEW j \in Job, JobInv(j),
         th'[CallOf(j)].phase = th[CallOf(j)].phase,
         th'[ContOf(j)].phase = th[ContOf(j)].phase,
         approval'[j] = approval[j], sent'[j] = sent[j],
         j \in waiting' => j \in waiting,
         j \in taking' => j \in taking
  PROVE  JobInv(j)'
  BY DEF JobInv, CallFirst, Registered, StartedOnce, ContUnpaid, Escalated, CallPhase, ContPhase

\* A step of one thread that leaves the registry and the rails alone keeps the
\* invariant of every job if it keeps that of its own.
LEMMA OnlyOwnJob ==
  ASSUME SpendInv, NEW t \in Thread,
         \A u \in Thread : u # t => th'[u] = th[u],
         \A j \in Job : j # t[1] =>
           /\ approval'[j] = approval[j] /\ sent'[j] = sent[j]
           /\ (j \in waiting' => j \in waiting) /\ (j \in taking' => j \in taking),
         JobInv(t[1])'
  PROVE  \A j \in Job : JobInv(j)'
<1> SUFFICES ASSUME NEW j \in Job, j # t[1] PROVE JobInv(j)'
  BY ThreadCases
<1>1. CallOf(j) \in Thread /\ ContOf(j) \in Thread /\ CallOf(j) # t /\ ContOf(j) # t
  BY ThreadsApart
<1> QED BY <1>1, JobUntouched DEF SpendInv

\* The amounts of the other threads do not change either.
LEMMA OnlyOwnPrice ==
  ASSUME SpendInv, NEW t \in Thread,
         \A u \in Thread : u # t => th'[u] = th[u],
         Priced(t)'
  PROVE  \A u \in Thread : Priced(u)'
  BY DEF SpendInv, Priced

-----------------------------------------------------------------------------
(* Steps of a thread *)

\* Moves of a thread before and after it pays: the registry and the rails are
\* left alone, and the new phase is one the thread may be in.
LEMMA PlainMove ==
  ASSUME SpendInv, TypeOK', NEW t \in Thread,
         \A u \in Thread : u # t => th'[u] = th[u],
         UNCHANGED <<approval, waiting, taking, sent>>,
         \/ th[t].phase = "queued" /\ th'[t].phase \in {"evaluate", "pay"}
         \/ th[t].phase = "evaluate" /\ th'[t].phase = "pay"
         \/ th[t].phase = "evaluate" /\ th'[t].phase = "create" /\ t[2] = "call"
         \/ th[t].phase = "idle" /\ th'[t].phase = "queued" /\ t[2] = "call"
         \/ th[t].phase \in {"queued", "evaluate", "pay", "record", "create", "notify"}
            /\ th'[t].phase = "done",
         Priced(t)'
  PROVE  SpendInv'
<1> DEFINE i == t[1]
<1>0. i \in Job /\ JobInv(i)
  BY ThreadCases DEF SpendInv
<1>1. CASE t = CallOf(i) /\ t[2] = "call"
  <2>1. CallPhase(i) = th[t].phase /\ CallPhase(i)' = th'[t].phase /\ ContPhase(i)' = ContPhase(i)
    BY <1>0, <1>1, ThreadsApart DEF CallPhase, ContPhase
  <2>2. JobInv(i)'
    BY <1>0, <2>1 DEF JobInv, CallFirst, Registered, StartedOnce, ContUnpaid, Escalated
  <2> QED BY <2>2, OnlyOwnJob, OnlyOwnPrice DEF SpendInv
<1>2. CASE t = ContOf(i) /\ t[2] = "cont"
  <2>1. ContPhase(i) = th[t].phase /\ ContPhase(i)' = th'[t].phase /\ CallPhase(i)' = CallPhase(i)
    BY <1>0, <1>2, ThreadsApart DEF CallPhase, ContPhase
  <2>2. JobInv(i)'
    BY <1>0, <1>2, <2>1 DEF JobInv, CallFirst, Registered, StartedOnce, ContUnpaid, Escalated
  <2> QED BY <2>2, OnlyOwnJob, OnlyOwnPrice DEF SpendInv
<1> QED BY <1>1, <1>2, ThreadCases

\* A new tool call keeps the invariant.
LEMMA CallInv ==
  ASSUME SpendInv, NEW j \in Job, NEW n \in Amount \cup {0}, Call(j, n)
  PROVE  SpendInv'
<1> DEFINE t == CallOf(j)
<1>t. TypeOK /\ t \in Thread /\ t[2] = "call" /\ t[2] # "cont"
  BY ThreadsApart DEF SpendInv
<1>1. /\ th[t].phase = "idle"
      /\ th' = [th EXCEPT ![t] = [phase |-> "queued", amount |-> n]]
      /\ UNCHANGED <<now, policy, frozen, payMu, registry, outcome, audit, bounds>>
  BY DEF Call
<1>2. /\ th' \in [Thread -> ThreadRec] /\ th'[t].phase = "queued"
      /\ \A u \in Thread : u # t => th'[u] = th[u]
  BY <1>t, <1>1, RecordMoves DEF Phase
<1>3. TypeOK'
  BY <1>t, <1>1, <1>2 DEF TypeOK, registry, outcome, audit, bounds
<1>4. Priced(t)'
  BY <1>t, <1>2 DEF Priced
<1>5. UNCHANGED <<approval, waiting, taking, sent>>
  BY <1>1 DEF registry, outcome
<1> QED BY <1>t, <1>1, <1>2, <1>3, <1>4, <1>5, PlainMove

\* Taking payMu, with the freeze state read or not, keeps the invariant.
LEMMA LockInv ==
  ASSUME SpendInv, NEW t \in Thread, Lock(t) \/ LockUnread(t)
  PROVE  SpendInv'
<1>t. TypeOK /\ Priced(t)
  BY DEF SpendInv
<1>1. PICK p \in {"pay", "evaluate", "done"} :
        /\ Goto(t, p)
        /\ p = "pay" => t[1] \in Direct /\ t[2] = "cont"
  BY DEF Lock, LockUnread
<1>2. /\ th[t].phase = "queued"
      /\ payMu' \in {payMu, t}
      /\ underFreeze' \subseteq underFreeze \cup {t}
      /\ UNCHANGED <<now, policy, frozen, registry, outcome, restarts>>
  BY <1>t DEF Lock, LockUnread, bounds, TypeOK
<1>3. /\ th' \in [Thread -> ThreadRec] /\ th'[t].phase = p /\ th'[t].amount = th[t].amount
      /\ \A u \in Thread : u # t => th'[u] = th[u]
  BY <1>t, <1>1, GotoMoves DEF Phase, Inside
<1>4. TypeOK'
  BY <1>t, <1>2, <1>3 DEF TypeOK, registry, outcome
<1>5. Priced(t)'
  BY <1>t, <1>1, <1>2, <1>3 DEF Priced
<1>6. UNCHANGED <<approval, waiting, taking, sent>>
  BY <1>2 DEF registry, outcome
<1> QED BY <1>2, <1>3, <1>4, <1>5, <1>6, PlainMove

\* The policy decision keeps the invariant.
LEMMA EvaluateInv ==
  ASSUME SpendInv, NEW t \in Thread, NEW n \in Amount, EvaluateAndRecord(t, n)
  PROVE  SpendInv'
<1>t. TypeOK
  BY DEF SpendInv
<1>0. /\ th[t].phase = "evaluate"
      /\ UNCHANGED <<now, policy, frozen, registry, outcome, audit, bounds>>
  BY DEF EvaluateAndRecord
<1>s. UNCHANGED <<approval, waiting, taking, sent>>
  BY <1>0 DEF registry, outcome
<1>1. ASSUME NEW p \in {"pay", "create"}, p = "create" => t[2] = "call", payMu' = payMu,
             th' = [th EXCEPT ![t] = [phase |-> p, amount |-> n]]
      PROVE  SpendInv'
  <2>1. /\ th' \in [Thread -> ThreadRec] /\ th'[t].phase = p /\ th'[t].amount = n
        /\ \A u \in Thread : u # t => th'[u] = th[u]
    BY <1>t, <1>1, RecordMoves DEF Phase, Inside
  <2>2. TypeOK'
    BY <1>t, <1>0, <1>1, <2>1 DEF TypeOK, registry, outcome, audit, bounds
  <2>3. Priced(t)'
    BY <2>1 DEF Priced
  <2> QED BY <1>0, <1>1, <1>s, <2>1, <2>2, <2>3, PlainMove
<1>2. ASSUME Return(t) PROVE SpendInv'
  <2>1. /\ th' \in [Thread -> ThreadRec] /\ th'[t].phase = "done"
        /\ \A u \in Thread : u # t => th'[u] = th[u]
    BY <1>t, <1>2, GotoMoves DEF Return, Phase
  <2>2. TypeOK'
    BY <1>t, <1>0, <1>2, <2>1 DEF TypeOK, Return, registry, outcome, audit, bounds
  <2>3. Priced(t)'
    BY <2>1 DEF Priced
  <2> QED BY <1>0, <1>s, <2>1, <2>2, <2>3, PlainMove
<1> QED BY <1>1, <1>2 DEF EvaluateAndRecord

\* Errors, the record of a payment and a notified owner end a thread.
LEMMA ReturnInv ==
  ASSUME SpendInv, NEW t \in Thread,
         Abort(t) \/ (\E ok \in BOOLEAN : RecordPayment(t, ok)) \/ Notify(t, TRUE)
  PROVE  SpendInv'
<1>t. TypeOK /\ Priced(t)
  BY DEF SpendInv
<1>0. /\ th[t].phase \in {"evaluate", "pay", "record", "create", "notify"}
      /\ Return(t)
      /\ UNCHANGED <<now, policy, frozen, registry, sent, audit, bounds>>
  BY DEF Abort, RecordPayment, Notify, outcome, registry
<1>1. /\ th' \in [Thread -> ThreadRec] /\ th'[t].phase = "done"
      /\ \A u \in Thread : u # t => th'[u] = th[u]
  BY <1>t, <1>0, GotoMoves DEF Return, Phase
<1>2. payments' \subseteq PaymentRec
  <2>1. CASE payments' = payments
    BY <1>t, <2>1 DEF TypeOK
  <2>2. CASE th[t].phase = "record" /\ payments' = payments \cup
               {[job |-> t[1], by |-> t[2], amount |-> th[t].amount, at |-> now]}
    <3>1. th[t].amount \in Amount /\ t[1] \in Job /\ t[2] \in {"call", "cont"} /\ now \in Nat
      BY <1>t, <2>2, ThreadCases DEF Priced, TypeOK
    <3>2. [job |-> t[1], by |-> t[2], amount |-> th[t].amount, at |-> now] \in PaymentRec
      BY <3>1 DEF PaymentRec
    <3> QED BY <1>t, <2>2, <3>2 DEF TypeOK
  <2> QED BY <2>1, <2>2 DEF Abort, RecordPayment, Notify, outcome
<1>3. TypeOK'
  BY <1>t, <1>0, <1>1, <1>2 DEF TypeOK, Return, registry, audit, bounds
<1>4. Priced(t)'
  BY <1>1 DEF Priced
<1>5. UNCHANGED <<approval, waiting, taking, sent>>
  BY <1>0 DEF registry
<1> QED BY <1>0, <1>1, <1>3, <1>4, <1>5, PlainMove

\* A thread in a phase of Escalate is a call; both threads of a job that is
\* about to pay have paid nothing.
LEMMA ThreadFacts ==
  ASSUME SpendInv, NEW t \in Thread
  PROVE  /\ TypeOK /\ t[1] \in Job /\ JobInv(t[1]) /\ Priced(t)
         /\ th[t].phase \in {"create", "register", "notify", "reject"} =>
              t = CallOf(t[1]) /\ t[2] = "call"
         /\ th[t].phase = "pay" => sent[t[1]] = <<>>
<1>1. TypeOK /\ t[1] \in Job /\ JobInv(t[1]) /\ Priced(t)
  BY ThreadCases DEF SpendInv
<1>2. CASE t = CallOf(t[1]) /\ t[2] = "call"
  BY <1>1, <1>2 DEF JobInv, CallFirst, CallPhase
<1>3. CASE t = ContOf(t[1]) /\ t[2] = "cont"
  <2>1. ContPhase(t[1]) = th[t].phase
    BY <1>3 DEF ContPhase
  <2> QED BY <1>1, <2>1 DEF JobInv, StartedOnce, ContUnpaid
<1> QED BY <1>1, <1>2, <1>3, ThreadCases

\* Money moves once: a payment keeps the invariant, seen or not.
LEMMA PayInv ==
  ASSUME SpendInv, NEW t \in Thread, Pay(t) \/ PayUnseen(t)
  PROVE  SpendInv'
<1> DEFINE i == t[1]
<1>t. /\ TypeOK /\ i \in Job /\ JobInv(i) /\ Priced(t)
      /\ th[t].phase = "pay" /\ sent[i] = <<>> /\ th[t].amount \in Amount
  BY ThreadFacts DEF Pay, PayUnseen, Priced
<1>1. PICK p \in {"record", "done"} : Goto(t, p)
  BY DEF Pay, PayUnseen, Return
<1>2. /\ sent' = [sent EXCEPT ![i] = Append(@, th[t].amount)]
      /\ payMu' \in {payMu, NoThread}
      /\ UNCHANGED <<now, policy, frozen, registry, payments, audit, bounds>>
  BY DEF Pay, PayUnseen, Return
<1>3. /\ th' \in [Thread -> ThreadRec] /\ th'[t].phase = p /\ th'[t].amount = th[t].amount
      /\ \A u \in Thread : u # t => th'[u] = th[u]
  BY <1>t, <1>1, GotoMoves DEF Phase, Inside
<1>4. /\ sent' \in [Job -> Seq(Amount)]
      /\ Len(sent'[i]) = 1
      /\ \A j \in Job : j # i => sent'[j] = sent[j]
  <2>1. sent \in [Job -> Seq(Amount)]
    BY <1>t DEF TypeOK
  <2>2. Append(sent[i], th[t].amount) \in Seq(Amount) /\ Len(Append(sent[i], th[t].amount)) = 1
    BY <1>t, <2>1
  <2> QED BY <1>t, <1>2, <2>1, <2>2
<1>5. TypeOK'
  BY <1>t, <1>2, <1>3, <1>4 DEF TypeOK, registry, audit, bounds
<1>6. Priced(t)'
  BY <1>t, <1>3 DEF Priced
<1>7. UNCHANGED <<approval, waiting, taking>>
  BY <1>2 DEF registry
<1>8. JobInv(i)'
  <2>1. CASE t = CallOf(i) /\ t[2] = "call"
    <3>1. CallPhase(i) = "pay" /\ CallPhase(i)' = p /\ ContPhase(i)' = ContPhase(i)
      BY <1>t, <1>3, <2>1, ThreadsApart DEF CallPhase, ContPhase
    <3> QED BY <1>t, <1>4, <1>7, <3>1
            DEF JobInv, CallFirst, Registered, StartedOnce, ContUnpaid, Escalated
  <2>2. CASE t = ContOf(i) /\ t[2] = "cont"
    <3>1. ContPhase(i) = "pay" /\ ContPhase(i)' = p /\ CallPhase(i)' = CallPhase(i)
      BY <1>t, <1>3, <2>2, ThreadsApart DEF CallPhase, ContPhase
    <3> QED BY <1>t, <1>4, <1>7, <3>1
            DEF JobInv, CallFirst, Registered, StartedOnce, ContUnpaid, Escalated
  <2> QED BY <2>1, <2>2, ThreadCases
<1>9. \A j \in Job : JobInv(j)'
  BY <1>3, <1>4, <1>7, <1>8, OnlyOwnJob
<1> QED BY <1>3, <1>5, <1>6, <1>9, OnlyOwnPrice DEF SpendInv

-----------------------------------------------------------------------------
(* Escalate *)

\* The approval is parked before anybody can answer it.
LEMMA CreateInv ==
  ASSUME SpendInv, NEW t \in Thread, CreateApproval(t)
  PROVE  SpendInv'
<1> DEFINE i == t[1]
           a == [status |-> "pending", expires |-> now + ApprovalTTL, amount |-> th[t].amount]
<1>t. /\ TypeOK /\ i \in Job /\ JobInv(i) /\ th[t].phase = "create"
      /\ t = CallOf(i) /\ th[t].amount \in Amount
  BY ThreadFacts DEF CreateApproval, Priced
<1>1. /\ Goto(t, "register") /\ approval' = [approval EXCEPT ![i] = a]
      /\ UNCHANGED <<now, policy, frozen, payMu, waiting, taking, overdue, expiring,
                     outcome, audit, bounds>>
  BY DEF CreateApproval
<1>2. /\ th' \in [Thread -> ThreadRec] /\ th'[t].phase = "register"
      /\ \A u \in Thread : u # t => th'[u] = th[u]
  BY <1>t, <1>1, GotoMoves DEF Phase, Inside
<1>3. a \in ApprovalRec
  BY <1>t DEF ApprovalRec, Status, TypeOK
<1>4. /\ approval' \in [Job -> ApprovalRec \cup {NoApproval}]
      /\ approval'[i] # NoApproval
      /\ \A j \in Job : j # i => approval'[j] = approval[j]
  BY <1>t, <1>1, <1>3 DEF TypeOK
<1>5. TypeOK'
  BY <1>t, <1>1, <1>2, <1>4 DEF TypeOK, outcome, audit, bounds
<1>6. Priced(t)'
  BY <1>2 DEF Priced
<1>7. UNCHANGED <<waiting, taking, sent>>
  BY <1>1 DEF outcome
<1>8. CallPhase(i) = "create" /\ CallPhase(i)' = "register" /\ ContPhase(i)' = ContPhase(i)
  BY <1>t, <1>2, ThreadsApart DEF CallPhase, ContPhase
<1>9. JobInv(i)'
  BY <1>t, <1>4, <1>7, <1>8 DEF JobInv, CallFirst, Registered, StartedOnce, ContUnpaid, Escalated
<1>10. \A j \in Job : JobInv(j)'
  BY <1>2, <1>4, <1>7, <1>9, OnlyOwnJob
<1> QED BY <1>2, <1>5, <1>6, <1>10, OnlyOwnPrice DEF SpendInv

\* The continuation is registered after the approval can already be answered.
LEMMA RegisterInv ==
  ASSUME SpendInv, NEW t \in Thread, RegisterContinuation(t)
  PROVE  SpendInv'
<1> DEFINE i == t[1]
<1>t. TypeOK /\ i \in Job /\ JobInv(i) /\ th[t].phase = "register" /\ t = CallOf(i)
  BY ThreadFacts DEF RegisterContinuation
<1>1. /\ Goto(t, "notify") /\ waiting' = waiting \cup {i}
      /\ UNCHANGED <<now, policy, frozen, payMu, approval, taking, overdue, expiring,
                     outcome, audit, bounds>>
  BY DEF RegisterContinuation
<1>2. /\ th' \in [Thread -> ThreadRec] /\ th'[t].phase = "notify"
      /\ \A u \in Thread : u # t => th'[u] = th[u]
  BY <1>t, <1>1, GotoMoves DEF Phase, Inside
<1>3. TypeOK'
  BY <1>t, <1>1, <1>2 DEF TypeOK, outcome, audit, bounds
<1>4. Priced(t)'
  BY <1>2 DEF Priced
<1>5. UNCHANGED <<approval, taking, sent>>
  BY <1>1 DEF outcome
<1>6. CallPhase(i) = "register" /\ CallPhase(i)' = "notify" /\ ContPhase(i)' = ContPhase(i)
  BY <1>t, <1>2, ThreadsApart DEF CallPhase, ContPhase
<1>7. JobInv(i)'
  BY <1>t, <1>1, <1>5, <1>6 DEF JobInv, CallFirst, Registered, StartedOnce, ContUnpaid, Escalated
<1>8. \A j \in Job : JobInv(j)'
  BY <1>1, <1>2, <1>5, <1>7, OnlyOwnJob
<1> QED BY <1>2, <1>3, <1>4, <1>8, OnlyOwnPrice DEF SpendInv

\* With no channel reachable the continuation is dropped.
LEMMA NotifyInv ==
  ASSUME SpendInv, NEW t \in Thread, Notify(t, FALSE)
  PROVE  SpendInv'
<1> DEFINE i == t[1]
<1>t. TypeOK /\ i \in Job /\ JobInv(i) /\ th[t].phase = "notify" /\ t = CallOf(i)
  BY ThreadFacts DEF Notify
<1>1. /\ Goto(t, "reject") /\ waiting' = waiting \ {i} /\ payMu' = payMu
      /\ UNCHANGED <<now, policy, frozen, approval, taking, overdue, expiring,
                     outcome, audit, bounds>>
  BY DEF Notify
<1>2. /\ th' \in [Thread -> ThreadRec] /\ th'[t].phase = "reject"
      /\ \A u \in Thread : u # t => th'[u] = th[u]
  BY <1>t, <1>1, GotoMoves DEF Phase, Inside
<1>3. TypeOK'
  BY <1>t, <1>1, <1>2 DEF TypeOK, outcome, audit, bounds
<1>4. Priced(t)'
  BY <1>2 DEF Priced
<1>5. UNCHANGED <<approval, taking, sent>>
  BY <1>1 DEF outcome
<1>6. CallPhase(i) = "notify" /\ CallPhase(i)' = "reject" /\ ContPhase(i)' = ContPhase(i)
  BY <1>t, <1>2, ThreadsApart DEF CallPhase, ContPhase
<1>7. JobInv(i)'
  BY <1>t, <1>1, <1>5, <1>6 DEF JobInv, CallFirst, Registered, StartedOnce, ContUnpaid, Escalated
<1>8. \A j \in Job : JobInv(j)'
  BY <1>1, <1>2, <1>5, <1>7, OnlyOwnJob
<1> QED BY <1>2, <1>3, <1>4, <1>8, OnlyOwnPrice DEF SpendInv

-----------------------------------------------------------------------------
(* Verdicts and expiry *)

\* A verdict changes the status of pending approvals and nothing else.
LEMMA StatusMoves ==
  ASSUME TypeOK, NEW js \in SUBSET Job, NEW v \in Status, SetStatus(js, v)
  PROVE  /\ approval' \in [Job -> ApprovalRec \cup {NoApproval}]
         /\ \A j \in Job :
              \/ approval'[j] = approval[j]
              \/ /\ j \in js /\ Pending(j)
                 /\ approval'[j] # NoApproval /\ approval'[j].status = v
<1> DEFINE new(j) == IF j \in js /\ Pending(j)
                     THEN [approval[j] EXCEPT !.status = v] ELSE approval[j]
<1>1. approval' = [j \in Job |-> new(j)]
  BY DEF SetStatus
<1>2. ASSUME NEW j \in Job, j \in js, Pending(j)
      PROVE  new(j) \in ApprovalRec /\ new(j).status = v
  <2>1. approval[j] \in ApprovalRec
    BY <1>2 DEF TypeOK, Pending
  <2> QED BY <1>2, <2>1 DEF ApprovalRec
<1>3. ASSUME NEW j \in Job
      PROVE  /\ new(j) \in ApprovalRec \cup {NoApproval}
             /\ \/ new(j) = approval[j]
                \/ /\ j \in js /\ Pending(j)
                   /\ new(j) # NoApproval /\ new(j).status = v
  <2>1. CASE j \in js /\ Pending(j)
    BY <1>2, <2>1
  <2>2. CASE ~(j \in js /\ Pending(j))
    BY <2>2 DEF TypeOK
  <2> QED BY <2>1, <2>2
<1> QED BY <1>1, <1>3

\* A verdict on a pending approval keeps the invariant of its job: no
\* continuation of it was started.
LEMMA VerdictJob ==
  ASSUME NEW j \in Job, JobInv(j), NEW v \in Status,
         \/ approval'[j] = approval[j]
         \/ Pending(j) /\ approval'[j] # NoApproval /\ approval'[j].status = v,
         \/ th'[CallOf(j)].phase = th[CallOf(j)].phase
         \/ th[CallOf(j)].phase = "reject" /\ th'[CallOf(j)].phase = "done",
         th'[ContOf(j)].phase = th[ContOf(j)].phase,
         sent'[j] = sent[j],
         j \in waiting' => j \in waiting,
         j \in taking' => \/ j \in taking
                          \/ Pending(j) /\ approval'[j] # NoApproval
                             /\ approval'[j].status \in {"approved", "denied"}
  PROVE  JobInv(j)'
<1>1. CASE approval'[j] = approval[j] /\ (j \in taking' => j \in taking)
  BY <1>1 DEF JobInv, CallFirst, Registered, StartedOnce, ContUnpaid, Escalated, CallPhase, ContPhase
<1>2. CASE Pending(j) /\ approval'[j] # NoApproval
  BY <1>2 DEF JobInv, CallFirst, Registered, StartedOnce, ContUnpaid, Escalated, CallPhase,
              ContPhase, Pending
<1> QED BY <1>1, <1>2 DEF Pending

\* Denying an approval that nobody could be told of keeps the invariant.
LEMMA RejectInv ==
  ASSUME SpendInv, NEW t \in Thread, NEW ok \in BOOLEAN, RejectUnreachable(t, ok)
  PROVE  SpendInv'
<1> DEFINE i == t[1]
<1>t. TypeOK /\ i \in Job /\ th[t].phase = "reject" /\ t = CallOf(i)
  BY ThreadFacts DEF RejectUnreachable
<1>1. /\ Goto(t, "done") /\ payMu' = NoThread
      /\ SetStatus(IF ok THEN {i} ELSE {}, "denied")
      /\ UNCHANGED <<now, policy, frozen, waiting, taking, overdue, expiring,
                     outcome, underFreeze, bounds>>
  BY DEF RejectUnreachable, Return
<1>2. /\ th' \in [Thread -> ThreadRec] /\ th'[t].phase = "done"
      /\ \A u \in Thread : u # t => th'[u] = th[u]
  BY <1>t, <1>1, GotoMoves DEF Phase
<1>3. /\ approval' \in [Job -> ApprovalRec \cup {NoApproval}]
      /\ \A j \in Job : \/ approval'[j] = approval[j]
                        \/ /\ Pending(j)
                           /\ approval'[j] # NoApproval /\ approval'[j].status = "denied"
  BY <1>t, <1>1, StatusMoves DEF Status
<1>4. TypeOK'
  BY <1>t, <1>1, <1>2, <1>3 DEF TypeOK, outcome, bounds
<1>5. Priced(t)'
  BY <1>2 DEF Priced
<1>6. UNCHANGED <<waiting, taking, sent>>
  BY <1>1 DEF outcome
<1>7. ASSUME NEW j \in Job PROVE JobInv(j)'
  <2>1. JobInv(j) /\ "denied" \in Status
    BY DEF SpendInv, Status
  <2>2. /\ th'[ContOf(j)].phase = th[ContOf(j)].phase
        /\ \/ th'[CallOf(j)].phase = th[CallOf(j)].phase
           \/ th[CallOf(j)].phase = "reject" /\ th'[CallOf(j)].phase = "done"
    BY <1>t, <1>2, ThreadsApart
  <2> QED BY <1>3, <1>6, <2>1, <2>2, VerdictJob
<1> QED BY <1>2, <1>4, <1>5, <1>7, OnlyOwnPrice DEF SpendInv

\* Steps that leave the threads alone leave their prices alone.
LEMMA PricesStay ==
  ASSUME SpendInv, th' = th
  PROVE  \A t \in Thread : Priced(t)'
  BY DEF SpendInv, Priced

\* The owner's answer and the sweep's update keep the invariant.
LEMMA VerdictInv ==
  ASSUME SpendInv,
         \/ \E j \in Job, v \in {"approved", "denied"}, at \in Recent : Resolve(j, v, at)
         \/ \E marked \in SUBSET overdue : SweepUpdate(marked)
  PROVE  SpendInv'
<1>t. TypeOK
  BY DEF SpendInv
<1>1. /\ UNCHANGED <<now, policy, frozen, payMu, th, waiting, outcome, audit, bounds>>
      /\ taking' \subseteq Job /\ overdue' \subseteq Job /\ expiring' \subseteq Job
  BY <1>t DEF Resolve, SweepUpdate, TypeOK
<1>2. PICK js \in SUBSET Job, v \in Status :
        /\ SetStatus(js, v)
        /\ \A j \in taking' : \/ j \in taking
                              \/ j \in js /\ Pending(j) /\ v \in {"approved", "denied"}
  <2>1. CASE \E marked \in SUBSET overdue : SweepUpdate(marked)
    BY <1>t, <2>1 DEF SweepUpdate, TypeOK, Status
  <2>2. ASSUME NEW j \in Job, NEW v \in {"approved", "denied"}, NEW at \in Recent,
               Resolve(j, v, at)
        PROVE  \E js \in SUBSET Job, w \in Status :
                 /\ SetStatus(js, w)
                 /\ \A i \in taking' : \/ i \in taking
                                       \/ i \in js /\ Pending(i) /\ w \in {"approved", "denied"}
    <3>1. SetStatus({j}, v) /\ Pending(j) /\ taking' = taking \cup {j}
      BY <2>2 DEF Resolve
    <3>2. {j} \in SUBSET Job /\ v \in Status
      BY DEF Status
    <3> QED BY <3>1, <3>2
  <2> QED BY <2>1, <2>2
<1>3. /\ approval' \in [Job -> ApprovalRec \cup {NoApproval}]
      /\ \A j \in Job : \/ approval'[j] = approval[j]
                        \/ /\ j \in js /\ Pending(j)
                           /\ approval'[j] # NoApproval /\ approval'[j].status = v
  BY <1>t, <1>2, StatusMoves
<1>s. \A j \in Job : j \in js /\ Pending(j) =>
        approval'[j] # NoApproval /\ approval'[j].status = v
  <2> SUFFICES ASSUME NEW j \in Job, j \in js, Pending(j)
               PROVE  approval'[j] # NoApproval /\ approval'[j].status = v
    OBVIOUS
  <2>1. approval'[j] = [approval[j] EXCEPT !.status = v] /\ approval[j] \in ApprovalRec
    BY <1>t, <1>2 DEF SetStatus, TypeOK, Pending
  <2>2. [approval[j] EXCEPT !.status = v] \in ApprovalRec
        /\ [approval[j] EXCEPT !.status = v].status = v
    BY <2>1 DEF ApprovalRec
  <2> QED BY <2>1, <2>2
<1>4. TypeOK'
  BY <1>t, <1>1, <1>3 DEF TypeOK, outcome, audit, bounds
<1>5. ASSUME NEW j \in Job PROVE JobInv(j)'
  <2>1. JobInv(j) /\ th' = th /\ waiting' = waiting /\ sent' = sent
    BY <1>1 DEF SpendInv, outcome
  <2>2. j \in taking' => \/ j \in taking
                         \/ Pending(j) /\ approval'[j] # NoApproval
                            /\ approval'[j].status \in {"approved", "denied"}
    BY <1>2, <1>s
  <2> QED BY <1>3, <2>1, <2>2, VerdictJob
<1> QED BY <1>1, <1>4, <1>5, PricesStay DEF SpendInv

\* The winner of an approval starts its continuation, once.
LEMMA TakeInv ==
  ASSUME SpendInv, NEW j \in Job, TakeContinuation(j)
  PROVE  SpendInv'
<1> DEFINE u == ContOf(j)
           n == IF j \in Direct THEN approval[j].amount ELSE 0
<1>t. TypeOK /\ JobInv(j) /\ u \in Thread /\ u[1] = j
  BY ThreadsApart DEF SpendInv
<1>1. /\ taking' = taking \ {j} /\ waiting' = waiting \ {j}
      /\ UNCHANGED <<now, policy, frozen, payMu, approval, overdue, expiring,
                     outcome, audit, bounds>>
  BY DEF TakeContinuation
<1>2. UNCHANGED <<approval, sent>>
  BY <1>1 DEF outcome
<1>3. CASE th' = th
  <2>1. TypeOK'
    BY <1>t, <1>1, <1>3 DEF TypeOK, outcome, audit, bounds
  <2>2. ASSUME NEW i \in Job PROVE JobInv(i)'
    BY <1>1, <1>2, <1>3, JobUntouched DEF SpendInv
  <2> QED BY <1>3, <2>1, <2>2, PricesStay DEF SpendInv
<1>4. CASE /\ j \in waiting /\ approval[j].status = "approved"
           /\ th' = [th EXCEPT ![u] = [phase |-> "queued", amount |-> n]]
  <2>1. /\ Escalated(j) /\ CallPhase(j) \in {"notify", "done"}
        /\ ContPhase(j) = "idle" /\ sent[j] = <<>>
    BY <1>t, <1>4 DEF JobInv, Registered, StartedOnce, ContUnpaid
  <2>2. n \in Amount \cup {0} /\ (j \in Direct => n \in Amount)
    <3>1. approval[j] \in ApprovalRec
      BY <1>t, <2>1 DEF TypeOK, Escalated
    <3> QED BY <3>1 DEF ApprovalRec
  <2>3. /\ th' \in [Thread -> ThreadRec] /\ th'[u].phase = "queued" /\ th'[u].amount = n
        /\ \A v \in Thread : v # u => th'[v] = th[v]
    <3>1. th' = [th EXCEPT ![u] = [phase |-> "queued", amount |-> n]]
      BY <1>4
    <3>2. "queued" \in Phase
      BY DEF Phase
    <3> HIDE DEF n
    <3> QED BY <1>t, <2>2, <3>1, <3>2, RecordMoves
  <2>4. TypeOK'
    BY <1>t, <1>1, <2>3 DEF TypeOK, outcome, audit, bounds
  <2>5. Priced(u)'
    BY <1>t, <2>2, <2>3 DEF Priced
  <2>6. CallPhase(j)' = CallPhase(j) /\ ContPhase(j)' = "queued"
    BY <2>3, ThreadsApart DEF CallPhase, ContPhase
  <2>7. JobInv(j)'
    BY <1>t, <1>1, <1>2, <1>4, <2>1, <2>6
       DEF JobInv, CallFirst, Registered, StartedOnce, ContUnpaid, Escalated
  <2>8. \A i \in Job : JobInv(i)'
    BY <1>t, <1>1, <1>2, <2>3, <2>7, OnlyOwnJob
  <2> QED BY <1>t, <2>3, <2>4, <2>5, <2>8, OnlyOwnPrice DEF SpendInv
<1> QED BY <1>3, <1>4 DEF TakeContinuation

\* The sweep's selection and the continuations it drops keep the invariant.
LEMMA SweepInv ==
  ASSUME SpendInv, SweepSelect \/ SweepDrop
  PROVE  SpendInv'
<1>t. TypeOK
  BY DEF SpendInv
<1>1. /\ UNCHANGED <<now, policy, frozen, payMu, th, approval, taking, outcome, audit, bounds>>
      /\ waiting' \subseteq waiting /\ overdue' \subseteq Job /\ expiring' \subseteq Job
  BY <1>t DEF SweepSelect, SweepDrop, TypeOK
<1>2. TypeOK'
  BY <1>t, <1>1 DEF TypeOK, outcome, audit, bounds
<1>3. ASSUME NEW j \in Job PROVE JobInv(j)'
  BY <1>1, JobUntouched DEF SpendInv, outcome
<1> QED BY <1>1, <1>2, <1>3, PricesStay DEF SpendInv

-----------------------------------------------------------------------------
(* The owner, the clock and restarts *)

\* Freezing, reloading, the clock and a stutter keep the invariant.
LEMMA WorldInv ==
  ASSUME SpendInv,
         \/ Freeze \/ Unfreeze \/ (\E p \in Policies : Reload(p)) \/ Tick
         \/ UNCHANGED vars
  PROVE  SpendInv'
<1>t. TypeOK
  BY DEF SpendInv
<1>1. /\ UNCHANGED <<payMu, th, registry, outcome, audit, bounds>>
      /\ now' \in Nat /\ policy' \in Policies /\ frozen' \in BOOLEAN
  <2>1. CASE Freeze \/ Unfreeze
    BY <1>t, <2>1 DEF Freeze, Unfreeze, TypeOK
  <2>2. CASE \E p \in Policies : Reload(p)
    BY <1>t, <2>2 DEF Reload, TypeOK
  <2>3. CASE Tick
    BY <1>t, <2>3 DEF Tick, TypeOK
  <2>4. CASE UNCHANGED vars
    BY <1>t, <2>4 DEF vars, TypeOK, registry, outcome, audit, bounds
  <2> QED BY <2>1, <2>2, <2>3, <2>4
<1>2. TypeOK'
  BY <1>t, <1>1 DEF TypeOK, registry, outcome, audit, bounds
<1>3. ASSUME NEW j \in Job PROVE JobInv(j)'
  <2>1. UNCHANGED <<th, approval, waiting, taking, sent>>
    BY <1>1 DEF registry, outcome
  <2> QED BY <2>1, JobUntouched DEF SpendInv
<1> QED BY <1>1, <1>2, <1>3, PricesStay DEF SpendInv

\* A restart ends every thread and forgets the continuations.
LEMMA RestartInv ==
  ASSUME SpendInv, Restart
  PROVE  SpendInv'
<1>t. TypeOK
  BY DEF SpendInv
<1>1. /\ th' = [t \in Thread |-> IF th[t].phase = "idle" THEN th[t]
                                 ELSE [th[t] EXCEPT !.phase = "done"]]
      /\ payMu' = NoThread /\ restarts' \in 0 .. MaxRestarts
      /\ waiting' = {} /\ taking' = {} /\ overdue' = {} /\ expiring' = {}
      /\ UNCHANGED <<now, policy, frozen, approval, outcome, audit>>
  BY <1>t DEF Restart, TypeOK
<1>2. ASSUME NEW t \in Thread
      PROVE  /\ th'[t] \in ThreadRec
             /\ th'[t].phase = (IF th[t].phase = "idle" THEN "idle" ELSE "done")
  <2>1. th[t] \in ThreadRec
    BY <1>t DEF TypeOK
  <2>2. CASE th[t].phase = "idle"
    BY <1>1, <2>1, <2>2
  <2>3. CASE th[t].phase # "idle"
    <3>1. th'[t] = [th[t] EXCEPT !.phase = "done"]
      BY <1>1, <2>3
    <3>2. [th[t] EXCEPT !.phase = "done"] \in ThreadRec
          /\ [th[t] EXCEPT !.phase = "done"].phase = "done"
      BY <2>1 DEF ThreadRec, Phase
    <3> QED BY <2>3, <3>1, <3>2
  <2> QED BY <2>2, <2>3
<1>3. th' \in [Thread -> ThreadRec]
  BY <1>1, <1>2
<1>4. TypeOK'
  BY <1>t, <1>1, <1>3 DEF TypeOK, outcome, audit
<1>5. ASSUME NEW t \in Thread PROVE Priced(t)'
  BY <1>2 DEF Priced
<1>6. ASSUME NEW j \in Job PROVE JobInv(j)'
  <2>1. /\ CallPhase(j)' = (IF CallPhase(j) = "idle" THEN "idle" ELSE "done")
        /\ ContPhase(j)' = (IF ContPhase(j) = "idle" THEN "idle" ELSE "done")
    BY <1>2, ThreadsApart DEF CallPhase, ContPhase
  <2>2. JobInv(j) /\ UNCHANGED <<approval, sent>>
    BY <1>1 DEF SpendInv, outcome
  <2> QED BY <1>1, <2>1, <2>2
          DEF JobInv, CallFirst, Registered, StartedOnce, ContUnpaid, Escalated
<1> QED BY <1>4, <1>5, <1>6 DEF SpendInv

-----------------------------------------------------------------------------
(* The mutex *)

\* A step of a thread moves that thread alone, and only inside the mutex.
LEMMA StepMoves ==
  ASSUME SpendInv, NEW t \in Thread, Step(t)
  PROVE  /\ \A u \in Thread : u # t => th'[u] = th[u]
         /\ th'[t].phase \in Phase \ {"idle", "queued"}
         /\ now' = now
         /\ \/ th[t].phase \in Inside /\ (payMu' = payMu \/ th'[t].phase = "done")
            \/ /\ th[t].phase = "queued" /\ payMu = NoThread
               /\ payMu' = t \/ (payMu' = payMu /\ th'[t].phase = "done")
<1> USE DEF bounds, audit, registry, outcome
<1>t. TypeOK
  BY DEF SpendInv
<1>1. ASSUME NEW p \in Phase \ {"idle", "queued"}, Goto(t, p),
             \/ th[t].phase \in Inside /\ (payMu' = payMu \/ p = "done")
             \/ /\ th[t].phase = "queued" /\ payMu = NoThread
                /\ payMu' = t \/ (payMu' = payMu /\ p = "done")
      PROVE  /\ \A u \in Thread : u # t => th'[u] = th[u]
             /\ th'[t].phase \in Phase \ {"idle", "queued"}
             /\ \/ th[t].phase \in Inside /\ (payMu' = payMu \/ th'[t].phase = "done")
                \/ /\ th[t].phase = "queued" /\ payMu = NoThread
                   /\ payMu' = t \/ (payMu' = payMu /\ th'[t].phase = "done")
  <2>1. th'[t].phase = p /\ \A u \in Thread : u # t => th'[u] = th[u]
    BY <1>t, <1>1, GotoMoves
  <2> QED BY <1>1, <2>1
<1>2. now' = now
  BY DEF Step, Lock, LockUnread, EvaluateAndRecord, Abort, Pay, PayUnseen, RecordPayment,
         CreateApproval, RegisterContinuation, Notify, RejectUnreachable
<1>3. ASSUME NEW n \in Amount, EvaluateAndRecord(t, n), ~Return(t)
      PROVE  /\ \A u \in Thread : u # t => th'[u] = th[u]
             /\ th'[t].phase \in Phase \ {"idle", "queued"}
             /\ th[t].phase \in Inside /\ payMu' = payMu
  <2>1. PICK p \in {"pay", "create"} : th' = [th EXCEPT ![t] = [phase |-> p, amount |-> n]]
    BY <1>3 DEF EvaluateAndRecord
  <2>2. th'[t].phase = p /\ \A u \in Thread : u # t => th'[u] = th[u]
    BY <1>t, <2>1, RecordMoves DEF Phase, Inside
  <2>3. th[t].phase \in Inside /\ payMu' = payMu
    BY <1>3 DEF EvaluateAndRecord, Inside
  <2> QED BY <2>2, <2>3 DEF Phase, Inside
<1>4. CASE Lock(t) \/ LockUnread(t)
  <2>1. \E p \in Phase \ {"idle", "queued"} :
          /\ Goto(t, p) /\ th[t].phase = "queued" /\ payMu = NoThread
          /\ payMu' = t \/ (payMu' = payMu /\ p = "done")
    BY <1>4 DEF Lock, LockUnread, Phase, Inside
  <2> QED BY <1>1, <1>2, <2>1
<1>5. CASE \/ Abort(t) \/ Pay(t) \/ PayUnseen(t) \/ (\E ok \in BOOLEAN : RecordPayment(t, ok))
           \/ CreateApproval(t) \/ RegisterContinuation(t)
           \/ (\E ok \in BOOLEAN : Notify(t, ok)) \/ (\E ok \in BOOLEAN : RejectUnreachable(t, ok))
  <2>1. \E p \in Phase \ {"idle", "queued"} :
          Goto(t, p) /\ th[t].phase \in Inside /\ (payMu' = payMu \/ p = "done")
    BY <1>5 DEF Abort, Pay, PayUnseen, RecordPayment, CreateApproval, RegisterContinuation, Notify,
                RejectUnreachable, Return, Phase, Inside
  <2> QED BY <1>1, <1>2, <2>1
<1>6. ASSUME NEW n \in Amount, EvaluateAndRecord(t, n), Return(t)
      PROVE  Goto(t, "done") /\ th[t].phase \in Inside /\ "done" \in Phase \ {"idle", "queued"}
  BY <1>6 DEF EvaluateAndRecord, Return, Inside, Phase
<1>7. CASE \E n \in Amount : EvaluateAndRecord(t, n)
  BY <1>1, <1>2, <1>3, <1>6, <1>7
<1> QED BY <1>4, <1>5, <1>7 DEF Step

\* What happens outside the threads that hold the mutex.
LEMMA OutsideMoves ==
  ASSUME SpendInv,
         \/ \E j \in Job, n \in Amount \cup {0} : Call(j, n)
         \/ Owner \/ Background \/ Tick \/ Restart \/ UNCHANGED vars
  PROVE  /\ UNCHANGED <<payments, sent>>
         /\ payMu' = payMu \/ \A u \in Thread : th'[u].phase \notin Inside
         /\ \A u \in Thread : \/ th'[u] = th[u]
                              \/ th'[u].phase \in {"queued", "idle", "done"}
<1> USE DEF bounds, audit, registry, outcome
<1>t. TypeOK
  BY DEF SpendInv
<1>1. CASE \E j \in Job, n \in Amount \cup {0} : Call(j, n)
  <2>1. PICK j \in Job, n \in Amount \cup {0} :
          /\ th' = [th EXCEPT ![CallOf(j)] = [phase |-> "queued", amount |-> n]]
          /\ UNCHANGED <<payments, sent, payMu>>
    BY <1>1 DEF Call
  <2> QED BY <1>t, <2>1, RecordMoves, ThreadsApart DEF Phase
<1>2. CASE \E j \in Job : TakeContinuation(j)
  <2>1. PICK j \in Job : TakeContinuation(j)
    BY <1>2
  <2>2. /\ UNCHANGED <<payments, sent, payMu>>
        /\ \/ th' = th
           \/ \E n : th' = [th EXCEPT ![ContOf(j)] = [phase |-> "queued", amount |-> n]]
    BY <2>1 DEF TakeContinuation
  <2> QED BY <1>t, <2>2, ThreadsApart DEF TypeOK
<1>3. CASE Restart
  <2>1. /\ th' = [t \in Thread |-> IF th[t].phase = "idle" THEN th[t]
                                   ELSE [th[t] EXCEPT !.phase = "done"]]
        /\ UNCHANGED <<payments, sent>>
    BY <1>3 DEF Restart
  <2>2. \A u \in Thread : th[u] \in ThreadRec
    BY <1>t DEF TypeOK
  <2>3. \A u \in Thread : th'[u].phase \in {"idle", "done"}
    BY <2>1, <2>2 DEF ThreadRec
  <2> QED BY <2>1, <2>3 DEF Inside
<1>4. CASE UNCHANGED <<th, payMu, payments, sent>>
  BY <1>4
<1>5. CASE Owner \/ SweepSelect \/ SweepDrop \/ (\E marked \in SUBSET overdue : SweepUpdate(marked))
           \/ Tick \/ UNCHANGED vars
  BY <1>4, <1>5 DEF Owner, Resolve, Freeze, Unfreeze, Reload, SweepSelect, SweepDrop, SweepUpdate,
                    Tick, vars
<1> QED BY <1>1, <1>2, <1>3, <1>5 DEF Background

\* payMu: at most one thread is inside.
LEMMA HoldingStays ==
  ASSUME SpendInv, Holding, [Next]_vars
  PROVE  Holding'
<1>1. ASSUME NEW t \in Thread, Step(t) PROVE Holding'
  <2> SUFFICES ASSUME NEW u \in Thread, th'[u].phase \in Inside PROVE payMu' = u
    BY DEF Holding
  <2>1. \A v \in Thread : v # NoThread
    BY DEF Thread
  <2>2. "done" \notin Inside
    BY DEF Inside
  <2>3. CASE u = t
    BY <1>1, <2>2, <2>3, StepMoves DEF Holding
  <2>4. CASE u # t
    <3>1. th[u].phase \in Inside
      BY <1>1, <2>4, StepMoves
    <3>2. payMu = u
      BY <3>1 DEF Holding
    <3>3. th[t].phase \notin Inside /\ payMu # NoThread
      BY <2>1, <2>4, <3>2 DEF Holding
    <3> QED BY <1>1, <3>3, StepMoves
  <2> QED BY <2>3, <2>4
<1>2. CASE \/ \E j \in Job, n \in Amount \cup {0} : Call(j, n)
           \/ Owner \/ Background \/ Tick \/ Restart \/ UNCHANGED vars
  <2> SUFFICES ASSUME NEW u \in Thread, th'[u].phase \in Inside PROVE payMu' = u
    BY DEF Holding
  <2>1. th'[u] = th[u] /\ payMu' = payMu
    BY <1>2, OutsideMoves DEF Inside
  <2> QED BY <2>1 DEF Holding
<1> QED BY <1>1, <1>2 DEF Next

-----------------------------------------------------------------------------
(* The ceiling *)

\* What a job's ceiling asks.
Ceiled(j) ==
  Escalated(j) => \A i \in DOMAIN sent[j] : WithinCeiling(j, sent[j][i])

\* An approval keeps its amount.
LEMMA AmountKept ==
  ASSUME SpendInv, [Next]_vars, NEW j \in Job, ~(\E t \in Thread : t[1] = j /\ CreateApproval(t))
  PROVE  \/ approval'[j] = approval[j]
         \/ Escalated(j) /\ approval'[j] # NoApproval /\ approval'[j].amount = approval[j].amount
<1> USE DEF bounds, audit, registry, outcome
<1>t. approval \in [Job -> ApprovalRec \cup {NoApproval}]
  BY DEF SpendInv, TypeOK
<1>1. ASSUME NEW js, NEW v \in Status, SetStatus(js, v)
      PROVE  \/ approval'[j] = approval[j]
             \/ Escalated(j) /\ approval'[j] # NoApproval /\ approval'[j].amount = approval[j].amount
  <2>1. CASE j \in js /\ Pending(j)
    <3>1. approval'[j] = [approval[j] EXCEPT !.status = v] /\ approval[j] \in ApprovalRec
      BY <1>t, <1>1, <2>1 DEF SetStatus, Pending
    <3>2. /\ [approval[j] EXCEPT !.status = v] \in ApprovalRec
          /\ [approval[j] EXCEPT !.status = v].amount = approval[j].amount
      BY <3>1 DEF ApprovalRec
    <3> QED BY <2>1, <3>1, <3>2 DEF Escalated, Pending
  <2>2. CASE ~(j \in js /\ Pending(j))
    BY <1>1, <2>2 DEF SetStatus
  <2> QED BY <2>1, <2>2
<1>2. ASSUME NEW t \in Thread, CreateApproval(t) PROVE approval'[j] = approval[j]
  <2>1. t[1] # j
    BY <1>2
  <2> QED BY <1>t, <1>2, <2>1 DEF CreateApproval
<1>s. "denied" \in Status /\ "approved" \in Status /\ "expired" \in Status
  BY DEF Status
<1>3. CASE \E t \in Thread : Step(t)
  <2>1. PICK t \in Thread : Step(t)
    BY <1>3
  <2>2. CASE \E ok \in BOOLEAN : RejectUnreachable(t, ok)
    <3>1. PICK ok \in BOOLEAN : SetStatus(IF ok THEN {t[1]} ELSE {}, "denied")
      BY <2>2 DEF RejectUnreachable
    <3> QED BY <1>1, <1>s, <3>1
  <2>3. CASE ~ \E ok \in BOOLEAN : RejectUnreachable(t, ok)
    <3>1. approval' = approval \/ CreateApproval(t)
      BY <2>1, <2>3 DEF Step, Lock, LockUnread, EvaluateAndRecord, Abort, Pay, PayUnseen,
         RecordPayment, RegisterContinuation, Notify
    <3> QED BY <1>2, <3>1
  <2> QED BY <2>2, <2>3
<1>4. CASE \/ \E k \in Job, n \in Amount \cup {0} : Call(k, n)
           \/ Tick \/ Restart \/ UNCHANGED vars
  BY <1>4 DEF Call, Tick, Restart, vars
<1>5. CASE Owner
  <2>1. ASSUME NEW k \in Job, NEW v \in {"approved", "denied"}, NEW at \in Recent, Resolve(k, v, at)
        PROVE  v \in Status /\ SetStatus({k}, v)
    BY <1>s, <2>1 DEF Resolve
  <2>2. CASE Freeze \/ Unfreeze \/ \E p \in Policies : Reload(p)
    BY <2>2 DEF Freeze, Unfreeze, Reload
  <2> QED BY <1>1, <1>5, <2>1, <2>2 DEF Owner
<1>6. CASE Background
  <2>1. ASSUME NEW marked \in SUBSET overdue, SweepUpdate(marked)
        PROVE  SetStatus(marked, "expired")
    BY <2>1 DEF SweepUpdate
  <2>2. CASE (\E k \in Job : TakeContinuation(k)) \/ SweepSelect \/ SweepDrop
    BY <2>2 DEF TakeContinuation, SweepSelect, SweepDrop
  <2> QED BY <1>1, <1>6, <1>s, <2>1, <2>2 DEF Background
<1> QED BY <1>3, <1>4, <1>5, <1>6 DEF Next

\* The ceiling of a job reads its continuation, its approval and what was sent.
LEMMA CapUntouched ==
  ASSUME NEW j \in Job, JobInv(j), Capped(j), Ceiled(j), sent'[j] = sent[j],
         \/ approval'[j] = approval[j]
         \/ Escalated(j) /\ approval'[j] # NoApproval /\ approval'[j].amount = approval[j].amount,
         th'[ContOf(j)] = th[ContOf(j)] \/ th'[ContOf(j)].phase \in {"idle", "done"}
  PROVE  Capped(j)' /\ Ceiled(j)'
<1>1. approval'[j].amount = approval[j].amount /\ (Escalated(j)' => Escalated(j))
  BY DEF Escalated
<1>2. \A n : WithinCeiling(j, n)' <=> WithinCeiling(j, n)
  BY <1>1 DEF WithinCeiling, Unasked
<1>3. Ceiled(j)'
  BY <1>1, <1>2 DEF Ceiled, WithinCeiling, Unasked
<1>4. Capped(j)'
  BY <1>1, <1>2 DEF Capped, ContPhase, WithinCeiling, Unasked
<1> QED BY <1>3, <1>4

\* What the policy allows needs no approval.
LEMMA AllowedUnasked ==
  ASSUME SpendInv, NEW n \in Amount, NEW admitted, NEW usage,
         Evaluate(policy, admitted, n, usage) = "allow"
  PROVE  Unasked(n)
<1>1. policy \in Policies /\ policy.threshold \in Nat /\ n \in Nat
  BY PolicyTyped DEF SpendInv, TypeOK
<1>2. ~(policy.threshold > 0 /\ n >= policy.threshold)
  BY DEF Evaluate
<1>3. policy.threshold = 0 \/ n < policy.threshold
  BY <1>1, <1>2
<1> QED BY <1>1, <1>3 DEF Unasked

\* A step of a thread keeps the ceiling of its own job.
LEMMA OwnCeiling ==
  ASSUME SpendInv, CapInv, NEW t \in Thread, Step(t)
  PROVE  Capped(t[1])' /\ Ceiled(t[1])'
<1> USE DEF bounds, audit, registry, outcome
<1> DEFINE i == t[1]
<1>t. /\ TypeOK /\ i \in Job /\ JobInv(i) /\ Capped(i) /\ Ceiled(i)
      /\ ContOf(i) \in Thread /\ ContOf(i)[1] = i /\ ContOf(i)[2] = "cont"
  BY ThreadFacts, ThreadsApart DEF CapInv, CeilingHolds, Ceiled, Escalated
<1>n. [Next]_vars
  BY DEF Next
<1>1. CASE CreateApproval(t)
  <2>1. t = CallOf(i) /\ th[t].phase = "create"
    BY <1>1, ThreadFacts DEF CreateApproval
  <2>2. sent[i] = <<>> /\ sent' = sent /\ ContPhase(i) = "idle"
    BY <1>t, <1>1, <2>1 DEF CreateApproval, JobInv, CallFirst, Registered, CallPhase
  <2>3. th'[ContOf(i)] = th[ContOf(i)]
    BY <1>t, <2>1, StepMoves, ThreadsApart
  <2>4. ContPhase(i)' = "idle"
    BY <2>2, <2>3 DEF ContPhase
  <2>5. Capped(i)'
    BY <2>4 DEF Capped
  <2> QED BY <2>2, <2>5 DEF Ceiled
<1>2. CASE Pay(t) \/ PayUnseen(t)
  <2>1. /\ th[t].phase = "pay" /\ sent' = [sent EXCEPT ![i] = Append(@, th[t].amount)]
        /\ approval' = approval
        /\ \E p \in {"record", "done"} : Goto(t, p)
    BY <1>2 DEF Pay, PayUnseen, Return
  <2>2. sent[i] = <<>>
    BY <2>1, ThreadFacts
  <2>3. sent'[i] = <<th[t].amount>>
    BY <1>t, <2>1, <2>2 DEF TypeOK
  <2>4. \A k \in DOMAIN sent'[i] : sent'[i][k] = th[t].amount
    BY <2>3
  <2>5. CASE t = CallOf(i) /\ t[2] = "call"
    <3>1. ~Escalated(i)
      BY <1>t, <2>1, <2>5 DEF JobInv, CallFirst, CallPhase
    <3>2. th'[ContOf(i)] = th[ContOf(i)] /\ ContPhase(i) = "idle"
      BY <1>t, <2>5, <3>1, StepMoves, ThreadsApart DEF JobInv, Registered
    <3> QED BY <2>1, <3>1, <3>2 DEF Capped, Ceiled, Escalated, ContPhase
  <2>6. CASE t = ContOf(i) /\ t[2] = "cont"
    <3>1. WithinCeiling(i, th[t].amount)
      BY <1>t, <2>1, <2>6 DEF Capped, ContPhase
    <3>2. th'[t].amount = th[t].amount /\ th'[t].phase \in {"record", "done"}
      BY <1>t, <2>1, GotoMoves DEF Phase, Inside
    <3>3. Capped(i)'
      BY <2>1, <2>6, <3>1, <3>2 DEF Capped, ContPhase, WithinCeiling, Unasked
    <3>4. Ceiled(i)'
      BY <2>1, <2>4, <3>1 DEF Ceiled, WithinCeiling, Unasked
    <3> QED BY <3>3, <3>4
  <2> QED BY <2>5, <2>6, ThreadCases
<1>3. CASE ~CreateApproval(t) /\ ~Pay(t) /\ ~PayUnseen(t)
  <2>1. sent' = sent
    BY <1>3 DEF Step, Lock, LockUnread, EvaluateAndRecord, Abort, RecordPayment, RegisterContinuation,
       Notify, RejectUnreachable
  <2>2. \/ approval'[i] = approval[i]
        \/ Escalated(i) /\ approval'[i] # NoApproval /\ approval'[i].amount = approval[i].amount
    <3>1. ~\E u \in Thread : u[1] = i /\ CreateApproval(u)
      <4> SUFFICES ASSUME NEW u \in Thread, u # t, CreateApproval(u) PROVE FALSE
        BY <1>3
      <4>1. th[u].phase = "create" /\ th'[u].phase = "register"
        BY <1>t, <1>3, GotoMoves DEF CreateApproval, Phase, Inside
      <4> QED BY <4>1, StepMoves
    <3> QED BY <1>t, <1>n, <3>1, AmountKept
  <2>3. CASE t = CallOf(i) /\ t[2] = "call"
    <3>1. th'[ContOf(i)] = th[ContOf(i)]
      BY <1>t, <2>3, StepMoves, ThreadsApart
    <3> QED BY <1>t, <2>1, <2>2, <3>1, CapUntouched
  <2>4. CASE t = ContOf(i) /\ t[2] = "cont"
    <3>1. Escalated(i) /\ ContPhase(i) \in {"queued", "evaluate", "pay", "record"}
      <4>1. ContPhase(i) # "idle" /\ ContPhase(i) # "done"
        BY <2>4, StepMoves DEF ContPhase, Inside
      <4> QED BY <1>t, <4>1 DEF JobInv, StartedOnce
    <3>2. CASE th'[t].phase = "done"
      BY <1>t, <2>1, <2>2, <2>4, <3>2, CapUntouched
    <3>3. CASE Lock(t) \/ LockUnread(t)
      <4>1. PICK p \in {"pay", "evaluate", "done"} :
              /\ Goto(t, p) /\ th[t].phase = "queued" /\ approval' = approval
              /\ p = "pay" => i \in Direct
              /\ p = "evaluate" => i \notin Direct
        BY <2>4, <3>3 DEF Lock, LockUnread
      <4>2. th'[t].phase = p /\ th'[t].amount = th[t].amount
        BY <1>t, <4>1, GotoMoves DEF Phase, Inside
      <4>3. p = "pay" => WithinCeiling(i, th[t].amount)
        BY <1>t, <2>4, <4>1 DEF Capped, ContPhase
      <4>4. Capped(i)'
        BY <2>4, <4>1, <4>2, <4>3 DEF Capped, ContPhase, WithinCeiling, Unasked
      <4>5. Ceiled(i)'
        BY <1>t, <2>1, <4>1 DEF Ceiled, Escalated, WithinCeiling, Unasked
      <4> QED BY <4>4, <4>5
    <3>4. ASSUME NEW n \in Amount, EvaluateAndRecord(t, n), th'[t].phase # "done"
          PROVE  Capped(i)' /\ Ceiled(i)'
      <4>1. ~Return(t)
        BY <1>t, <3>4, GotoMoves DEF Return, Phase
      <4> DEFINE d == Evaluate(policy, t[1] \in Admitted, n, Usage(payments, now))
      <4>2. /\ th' = [th EXCEPT ![t] = [phase |-> "pay", amount |-> n]]
            /\ d = "allow" \/ n <= Ceiling(t)
            /\ th[t].phase = "evaluate" /\ approval' = approval
        BY <2>4, <3>4, <4>1 DEF EvaluateAndRecord
      <4>3. i \notin Direct
        BY <1>t, <2>4, <4>2 DEF Capped, ContPhase
      <4>4. WithinCeiling(i, n)
        <5>1. CASE d = "allow"
          BY <4>3, <5>1, AllowedUnasked DEF WithinCeiling
        <5>2. CASE n <= Ceiling(t)
          BY <2>4, <5>2 DEF Ceiling, WithinCeiling
        <5> QED BY <4>2, <5>1, <5>2
      <4>5. th'[t].phase = "pay" /\ th'[t].amount = n
        BY <1>t, <4>2, RecordMoves DEF Phase, Inside
      <4>6. Capped(i)'
        BY <2>4, <4>2, <4>4, <4>5 DEF Capped, ContPhase, WithinCeiling, Unasked
      <4>7. Ceiled(i)'
        BY <1>t, <2>1, <4>2 DEF Ceiled, Escalated, WithinCeiling, Unasked
      <4> QED BY <4>6, <4>7
    <3>5. CASE Abort(t) \/ \E ok \in BOOLEAN : RecordPayment(t, ok)
      <4>1. th'[t].phase = "done"
        BY <1>t, <3>5, GotoMoves DEF Abort, RecordPayment, Return, Phase
      <4> QED BY <3>2, <4>1
    <3> QED BY <1>3, <2>4, <3>1, <3>2, <3>3, <3>4, <3>5
            DEF Step, ContPhase, RegisterContinuation, Notify, RejectUnreachable
  <2> QED BY <2>3, <2>4, ThreadCases
<1> QED BY <1>1, <1>2, <1>3

LEMMA CapStays ==
  ASSUME SpendInv, CapInv, [Next]_vars
  PROVE  CapInv'
<1> USE DEF bounds, audit, registry, outcome
<1>1. SUFFICES ASSUME NEW j \in Job PROVE Capped(j)' /\ Ceiled(j)'
  BY DEF CapInv, CeilingHolds, Ceiled, Escalated
<1>t. /\ TypeOK /\ JobInv(j) /\ Capped(j) /\ Ceiled(j)
      /\ ContOf(j) \in Thread /\ CallOf(j) \in Thread /\ ContOf(j)[1] = j /\ CallOf(j)[1] = j
  BY ThreadsApart DEF SpendInv, CapInv, CeilingHolds, Ceiled, Escalated
<1>2. ASSUME NEW t \in Thread, Step(t) PROVE Capped(j)' /\ Ceiled(j)'
  <2>1. CASE t[1] = j
    BY <1>2, <2>1, OwnCeiling
  <2>2. CASE t[1] # j
    <3>1. th'[ContOf(j)] = th[ContOf(j)]
      BY <1>t, <1>2, <2>2, StepMoves
    <3>2. sent'[j] = sent[j]
      BY <1>t, <1>2, <2>2 DEF Step, Lock, LockUnread, EvaluateAndRecord, Abort, Pay, PayUnseen,
         RecordPayment, CreateApproval, RegisterContinuation, Notify, RejectUnreachable, TypeOK
    <3>3. ~\E u \in Thread : u[1] = j /\ CreateApproval(u)
      <4> SUFFICES ASSUME NEW u \in Thread, u # t, CreateApproval(u) PROVE FALSE
        BY <2>2
      <4>1. th[u].phase = "create" /\ th'[u].phase = "register"
        BY <1>t, GotoMoves DEF CreateApproval, Phase, Inside
      <4> QED BY <1>2, <4>1, StepMoves
    <3> QED BY <1>t, <3>1, <3>2, <3>3, AmountKept, CapUntouched
  <2> QED BY <2>1, <2>2
<1>3. CASE \/ \E i \in Job, n \in Amount \cup {0} : Call(i, n)
           \/ Owner \/ Background \/ Tick \/ Restart \/ UNCHANGED vars
  <2>1. sent' = sent
    BY <1>3, OutsideMoves
  <2>2. ~\E u \in Thread : u[1] = j /\ CreateApproval(u)
    <3> SUFFICES ASSUME NEW u \in Thread, CreateApproval(u) PROVE FALSE
      OBVIOUS
    <3>1. th[u].phase = "create" /\ th'[u].phase = "register"
      BY <1>t, GotoMoves DEF CreateApproval, Phase, Inside
    <3> QED BY <1>3, <3>1, OutsideMoves
  <2>3. \/ approval'[j] = approval[j]
        \/ Escalated(j) /\ approval'[j] # NoApproval /\ approval'[j].amount = approval[j].amount
    BY <2>2, AmountKept
  <2>4. CASE th'[ContOf(j)] = th[ContOf(j)] \/ th'[ContOf(j)].phase \in {"idle", "done"}
    BY <1>t, <2>1, <2>3, <2>4, CapUntouched
  <2>5. CASE th'[ContOf(j)] # th[ContOf(j)] /\ th'[ContOf(j)].phase = "queued"
    <3>1. TakeContinuation(j) /\ j \in waiting
      <4>1. ~(\E i \in Job, n \in Amount \cup {0} : Call(i, n))
        <5> SUFFICES ASSUME NEW i \in Job, NEW n \in Amount \cup {0}, Call(i, n) PROVE FALSE
          OBVIOUS
        <5>1. th' = [th EXCEPT ![CallOf(i)] = [phase |-> "queued", amount |-> n]]
          BY DEF Call
        <5>2. CallOf(i) \in Thread /\ CallOf(i) # ContOf(j)
          BY ThreadsApart
        <5>3. th'[ContOf(j)] = th[ContOf(j)]
          BY <1>t, <5>1, <5>2 DEF TypeOK
        <5> QED BY <2>5, <5>3
      <4>2. ~Restart
        <5> SUFFICES ASSUME Restart PROVE FALSE
          OBVIOUS
        <5>1. th[ContOf(j)] \in ThreadRec
          BY <1>t DEF TypeOK
        <5>2. th'[ContOf(j)].phase \in {"idle", "done"}
          BY <1>t, <5>1 DEF Restart, ThreadRec
        <5> QED BY <2>5, <5>2
      <4>3. ~(th' = th)
        BY <2>5
      <4>4. PICK i \in Job : TakeContinuation(i)
        BY <1>3, <4>1, <4>2, <4>3 DEF Owner, Background, Resolve, Freeze, Unfreeze, Reload,
           SweepSelect, SweepDrop, SweepUpdate, Tick, vars
      <4>5. i \in waiting /\ \E n : th' = [th EXCEPT ![ContOf(i)] = [phase |-> "queued", amount |-> n]]
        BY <4>3, <4>4 DEF TakeContinuation
      <4>6. i = j
        BY <1>t, <2>5, <4>5, ThreadsApart DEF TypeOK
      <4> QED BY <4>4, <4>5, <4>6
    <3>2. /\ approval[j].status = "approved" /\ approval' = approval
          /\ th' = [th EXCEPT ![ContOf(j)] =
                      [phase |-> "queued", amount |-> IF j \in Direct THEN approval[j].amount ELSE 0]]
      BY <2>5, <3>1 DEF TakeContinuation
    <3>3. Escalated(j) /\ approval[j].amount \in Nat
      <4>1. Escalated(j)
        BY <1>t, <3>1 DEF JobInv, Registered
      <4>2. approval[j] \in ApprovalRec
        BY <1>t, <4>1 DEF TypeOK, Escalated
      <4> QED BY <4>1, <4>2 DEF ApprovalRec
    <3>4. th'[ContOf(j)].phase = "queued" /\ (j \in Direct => th'[ContOf(j)].amount = approval[j].amount)
      BY <1>t, <3>2 DEF TypeOK
    <3>5. approval[j].amount <= approval[j].amount
      BY <3>3
    <3>6. Capped(j)'
      BY <3>2, <3>4, <3>5 DEF Capped, ContPhase, WithinCeiling
    <3>7. Ceiled(j)'
      BY <1>t, <2>1, <3>2 DEF Ceiled, Escalated, WithinCeiling, Unasked
    <3> QED BY <3>6, <3>7
  <2>6. \/ th'[ContOf(j)] = th[ContOf(j)]
        \/ th'[ContOf(j)].phase \in {"queued", "idle", "done"}
    BY <1>t, <1>3, OutsideMoves
  <2> QED BY <2>4, <2>5, <2>6
<1> QED BY <1>2, <1>3 DEF Next

-----------------------------------------------------------------------------
(* The budget *)

\* The books: a finite table of what was paid up to now.
LEMMA BooksTyped ==
  ASSUME SpendInv, BooksInv
  PROVE  /\ payments \in SUBSET PaymentRec /\ IsFiniteSet(payments) /\ Books \in SUBSET payments
         /\ now \in Nat /\ Day \in Nat \ {0} /\ Week \in Nat \ {0} /\ Hour \in Nat \ {0}
         /\ \A q \in payments : q.at \in Nat /\ q.at <= now
<1>1. payments \in SUBSET PaymentRec /\ now \in Nat
  BY DEF SpendInv, TypeOK
<1>2. Day \in Nat \ {0} /\ Week \in Nat \ {0} /\ Hour \in Nat \ {0}
  <2>1. {Hour, Day, Week} \subseteq Nat \ {0}
    BY CalendarAssumption
  <2> QED BY <2>1
<1>3. \A q \in payments : q.at \in Nat
  BY <1>1 DEF PaymentRec
<1> QED BY <1>1, <1>2, <1>3 DEF BooksInv, Books

\* When the clock ticks, no payment enters a period.
LEMMA NextPeriod ==
  ASSUME SpendInv, BooksInv, NEW ps \in SUBSET payments
  PROVE  /\ DayOf(ps, now + 1) \in SUBSET DayOf(ps, now)
         /\ WeekOf(ps, now + 1) \in SUBSET WeekOf(ps, now)
         /\ HourOf(ps, now + 1) \in SUBSET HourOf(ps, now)
<1>t. /\ now \in Nat /\ now + 1 \in Nat /\ Day \in Nat \ {0} /\ Week \in Nat \ {0} /\ Hour \in Nat \ {0}
      /\ \A q \in ps : q.at \in Nat /\ q.at <= now /\ q.at <= now + 1
  BY BooksTyped
<1>1. ASSUME NEW d \in Nat \ {0}, NEW a \in Nat, a <= now, StartOf(d, a) = StartOf(d, now + 1)
      PROVE  StartOf(d, a) = StartOf(d, now)
  <2>1. a >= StartOf(d, now + 1) /\ StartOf(d, now + 1) \in Int
    <3>1. StartOf(d, now + 1) \in Int
      BY <1>t DEF StartOf
    <3>2. a <= now + 1
      BY <1>t, <1>1
    <3> QED BY <1>t, <1>1, <3>1, <3>2, SamePeriod
  <2>2. now >= StartOf(d, now + 1)
    BY <1>t, <1>1, <2>1
  <2>3. StartOf(d, now) = StartOf(d, now + 1)
    <3>1. now <= now + 1
      BY <1>t
    <3> QED BY <1>t, <2>2, <3>1, SamePeriod
  <2> QED BY <1>1, <2>3
<1>2. DayOf(ps, now + 1) \in SUBSET DayOf(ps, now)
  BY <1>t, <1>1 DEF DayOf
<1>3. WeekOf(ps, now + 1) \in SUBSET WeekOf(ps, now)
  BY <1>t, <1>1 DEF WeekOf
<1>4. HourOf(ps, now + 1) \in SUBSET HourOf(ps, now)
  BY <1>t DEF HourOf
<1> QED BY <1>2, <1>3, <1>4

\* Fewer payments are within the limits as well.
LEMMA BudgetLess ==
  ASSUME NEW ps \in SUBSET PaymentRec, IsFiniteSet(ps), NEW rs, NEW t, NEW u, InBudget(ps, t),
         DayOf(rs, u) \in SUBSET DayOf(ps, t), WeekOf(rs, u) \in SUBSET WeekOf(ps, t),
         HourOf(rs, u) \in SUBSET HourOf(ps, t)
  PROVE  InBudget(rs, u)
<1>1. /\ DayOf(ps, t) \in SUBSET PaymentRec /\ IsFiniteSet(DayOf(ps, t))
      /\ WeekOf(ps, t) \in SUBSET PaymentRec /\ IsFiniteSet(WeekOf(ps, t))
      /\ IsFiniteSet(HourOf(ps, t))
  <2>1. DayOf(ps, t) \in SUBSET ps /\ WeekOf(ps, t) \in SUBSET ps /\ HourOf(ps, t) \in SUBSET ps
    BY DEF DayOf, WeekOf, HourOf
  <2> QED BY <2>1, FS_Subset
<1>2. \A p \in Policies :
        Within(Atoms(DayOf(ps, t)), p.daily) => Within(Atoms(DayOf(rs, u)), p.daily)
  BY <1>1, AtomsSubset, PolicyTyped, WithinLess
<1>3. \A p \in Policies :
        Within(Atoms(WeekOf(ps, t)), p.weekly) => Within(Atoms(WeekOf(rs, u)), p.weekly)
  BY <1>1, AtomsSubset, PolicyTyped, WithinLess
<1>4. /\ Cardinality(HourOf(rs, u)) \in Nat /\ Cardinality(HourOf(ps, t)) \in Nat
      /\ Cardinality(HourOf(rs, u)) <= Cardinality(HourOf(ps, t))
  BY <1>1, FS_Subset, FS_CardinalityType
<1>5. \A p \in Policies : Within(Cardinality(HourOf(ps, t)), p.perHour) =>
                            Within(Cardinality(HourOf(rs, u)), p.perHour)
  BY <1>4, PolicyTyped, WithinLess
<1> QED BY <1>2, <1>3, <1>5 DEF InBudget

\* Sums of a period, and what may still be paid in it.
LEMMA PeriodTyped ==
  ASSUME SpendInv, BooksInv, NEW t
  PROVE  /\ DayOf(payments, t) \in SUBSET PaymentRec /\ IsFiniteSet(DayOf(payments, t))
         /\ WeekOf(payments, t) \in SUBSET PaymentRec /\ IsFiniteSet(WeekOf(payments, t))
         /\ IsFiniteSet(HourOf(payments, t)) /\ Cardinality(HourOf(payments, t)) \in Nat
<1>1. payments \in SUBSET PaymentRec /\ IsFiniteSet(payments)
  BY BooksTyped
<1>2. /\ DayOf(payments, t) \in SUBSET payments /\ WeekOf(payments, t) \in SUBSET payments
      /\ HourOf(payments, t) \in SUBSET payments
  BY DEF DayOf, WeekOf, HourOf
<1>3. IsFiniteSet(DayOf(payments, t)) /\ IsFiniteSet(WeekOf(payments, t)) /\ IsFiniteSet(HourOf(payments, t))
  BY <1>1, <1>2, FS_Subset
<1> QED BY <1>1, <1>2, <1>3, FS_CardinalityType

\* Room for a payment stays when the clock ticks.
LEMMA RoomTicks ==
  ASSUME SpendInv, BooksInv, NEW n \in Nat, RoomFor(n, now)
  PROVE  RoomFor(n, now + 1)
<1>1. /\ DayOf(payments, now + 1) \in SUBSET DayOf(payments, now)
      /\ WeekOf(payments, now + 1) \in SUBSET WeekOf(payments, now)
      /\ HourOf(payments, now + 1) \in SUBSET HourOf(payments, now)
  BY NextPeriod
<1> DEFINE d0 == Atoms(DayOf(payments, now))
           d1 == Atoms(DayOf(payments, now + 1))
           w0 == Atoms(WeekOf(payments, now))
           w1 == Atoms(WeekOf(payments, now + 1))
           h0 == Cardinality(HourOf(payments, now))
           h1 == Cardinality(HourOf(payments, now + 1))
<1>2. d0 \in Nat /\ d1 \in Nat /\ d1 <= d0 /\ w0 \in Nat /\ w1 \in Nat /\ w1 <= w0
  BY <1>1, PeriodTyped, AtomsSubset
<1>3. h0 \in Nat /\ h1 \in Nat /\ h1 <= h0
  BY <1>1, PeriodTyped, FS_Subset
<1>4. /\ \E p \in Policies : Within(d0 + n, p.daily)
      /\ \E p \in Policies : Within(w0 + n, p.weekly)
      /\ \E p \in Policies : Within(h0 + 1, p.perHour)
  BY DEF RoomFor
<1>5. SUFFICES /\ \E p \in Policies : Within(d1 + n, p.daily)
               /\ \E p \in Policies : Within(w1 + n, p.weekly)
               /\ \E p \in Policies : Within(h1 + 1, p.perHour)
  BY DEF RoomFor
<1> HIDE DEF d0, d1, w0, w1, h0, h1
<1>6. d1 + n <= d0 + n /\ w1 + n <= w0 + n /\ h1 + 1 <= h0 + 1
  BY <1>2, <1>3
<1>t. /\ d0 + n \in Int /\ d1 + n \in Int /\ w0 + n \in Int /\ w1 + n \in Int
      /\ h0 + 1 \in Int /\ h1 + 1 \in Int
  BY <1>2, <1>3
<1>7. ASSUME NEW v \in Int, NEW w \in Int, w <= v, NEW l \in Nat, Within(v, l) PROVE Within(w, l)
  BY <1>7, WithinLess
<1>8. /\ \A p \in Policies : Within(d0 + n, p.daily) => Within(d1 + n, p.daily)
      /\ \A p \in Policies : Within(w0 + n, p.weekly) => Within(w1 + n, p.weekly)
      /\ \A p \in Policies : Within(h0 + 1, p.perHour) => Within(h1 + 1, p.perHour)
  <2> DEFINE a == d0 + n
             b == d1 + n
             c == w0 + n
             d == w1 + n
             e == h0 + 1
             f == h1 + 1
  <2>1. /\ a \in Int /\ b \in Int /\ c \in Int /\ d \in Int /\ e \in Int /\ f \in Int
        /\ b <= a /\ d <= c /\ f <= e
    BY <1>t, <1>6
  <2> HIDE DEF a, b, c, d, e, f
  <2>2. /\ \A p \in Policies : Within(a, p.daily) => Within(b, p.daily)
        /\ \A p \in Policies : Within(c, p.weekly) => Within(d, p.weekly)
        /\ \A p \in Policies : Within(e, p.perHour) => Within(f, p.perHour)
    BY <1>7, <2>1, PolicyTyped
  <2> QED BY <2>2 DEF a, b, c, d, e, f
<1> QED BY <1>4, <1>8

\* Evaluate and Usage: what the policy does not deny fits.
LEMMA UsageFits ==
  ASSUME SpendInv, BooksInv, NEW n \in Amount, NEW admitted,
         Evaluate(policy, admitted, n, Usage(payments, now)) # "deny"
  PROVE  RoomFor(n, now)
<1>t. /\ now \in Nat /\ Day \in Nat \ {0} /\ Week \in Nat \ {0} /\ Hour \in Nat \ {0}
      /\ \A q \in payments : q.at \in Nat /\ q.at <= now
  BY BooksTyped
<1>1. /\ {q \in payments : q.at >= StartOf(Day, now)} = DayOf(payments, now)
      /\ {q \in payments : q.at >= StartOf(Week, now)} = WeekOf(payments, now)
  BY <1>t, SamePeriod DEF DayOf, WeekOf
<1>2. {q \in payments : q.at > now - Hour} = HourOf(payments, now)
  BY <1>t DEF HourOf
<1>3. /\ Usage(payments, now).day = Atoms(DayOf(payments, now))
      /\ Usage(payments, now).week = Atoms(WeekOf(payments, now))
      /\ Usage(payments, now).hour = Cardinality(HourOf(payments, now))
  <2>1. Usage(payments, now) = [day |-> Atoms(DayOf(payments, now)),
                                week |-> Atoms(WeekOf(payments, now)),
                                hour |-> Cardinality(HourOf(payments, now))]
    BY <1>1, <1>2, Zenon DEF Usage
  <2> QED BY <2>1
<1>4. /\ Within(Usage(payments, now).hour + 1, policy.perHour)
      /\ Within(Usage(payments, now).day + n, policy.daily)
      /\ Within(Usage(payments, now).week + n, policy.weekly)
  BY DEF Evaluate
<1>5. policy \in Policies
  BY DEF SpendInv, TypeOK
<1> QED BY <1>3, <1>4, <1>5 DEF RoomFor

\* One payment more, in a period that had room for it.
LEMMA SumRoom ==
  ASSUME NEW E \in SUBSET PaymentRec, IsFiniteSet(E), NEW D \in SUBSET E, NEW r \in PaymentRec,
         r \notin E, NEW limit \in Nat, Within(Atoms(E) + r.amount, limit)
  PROVE  Within(Atoms(D \cup {r}), limit)
<1>1. Atoms(D) \in Nat /\ Atoms(E) \in Nat /\ Atoms(D) <= Atoms(E)
  BY AtomsSubset
<1>2. D \in SUBSET PaymentRec /\ IsFiniteSet(D) /\ r \notin D
  BY FS_Subset
<1>3. Atoms(D \cup {r}) = Atoms(D) + r.amount
  BY <1>2, AtomsAdd
<1>4. r.amount \in Nat
  BY DEF PaymentRec
<1> DEFINE a == Atoms(D)
           b == Atoms(E)
           n == r.amount
<1>5. a \in Nat /\ b \in Nat /\ n \in Nat /\ a <= b /\ Within(b + n, limit)
  BY <1>1, <1>4
<1> HIDE DEF a, b, n
<1>6. Within(a + n, limit)
  BY <1>5 DEF Within
<1> QED BY <1>3, <1>6 DEF a, n

\* RecordPayment: the books of every day, week and hour stay within limits.
LEMMA RecordFits ==
  ASSUME SpendInv, BooksInv, NEW r \in PaymentRec, r \notin payments, r.at = now,
         payments' = payments \cup {r},
         ~(r.job \in Direct /\ r.by = "cont") => RoomFor(r.amount, now)
  PROVE  \A t \in 0 .. now : InBudget(Books', t)
<1>t. /\ payments \in SUBSET PaymentRec /\ IsFiniteSet(payments) /\ Books \in SUBSET payments
      /\ now \in Nat
  BY BooksTyped
<1>1. CASE r.job \in Direct /\ r.by = "cont"
  <2>1. Books' = Books
    BY <1>1 DEF Books
  <2> QED BY <2>1 DEF BooksInv
<1>2. CASE ~(r.job \in Direct /\ r.by = "cont")
  <2>1. Books' = Books \cup {r}
    BY <1>2 DEF Books
  <2>2. RoomFor(r.amount, now)
    BY <1>2
  <2> SUFFICES ASSUME NEW t \in 0 .. now PROVE InBudget(Books \cup {r}, t)
    BY <2>1
  <2>3. InBudget(Books, t)
    BY DEF BooksInv
  <2>p. /\ DayOf(payments, now) \in SUBSET PaymentRec /\ IsFiniteSet(DayOf(payments, now))
        /\ WeekOf(payments, now) \in SUBSET PaymentRec /\ IsFiniteSet(WeekOf(payments, now))
        /\ IsFiniteSet(HourOf(payments, now)) /\ Cardinality(HourOf(payments, now)) \in Nat
    BY PeriodTyped
  <2>4. \E p \in Policies : Within(Atoms(DayOf(Books \cup {r}, t)), p.daily)
    <3>1. CASE StartOf(Day, t) = StartOf(Day, now)
      <4>1. PICK p \in Policies : Within(Atoms(DayOf(payments, now)) + r.amount, p.daily)
        BY <2>2 DEF RoomFor
      <4>2. DayOf(Books \cup {r}, t) = DayOf(Books, now) \cup {r}
        BY <3>1 DEF DayOf
      <4>3. DayOf(Books, now) \in SUBSET DayOf(payments, now) /\ r \notin DayOf(payments, now)
        BY <1>t DEF DayOf
      <4>4. Within(Atoms(DayOf(Books, now) \cup {r}), p.daily)
        BY <2>p, <4>1, <4>3, PolicyTyped, SumRoom
      <4> QED BY <4>2, <4>4, Zenon
    <3>2. CASE StartOf(Day, t) # StartOf(Day, now)
      <4>1. DayOf(Books \cup {r}, t) = DayOf(Books, t)
        BY <3>2 DEF DayOf
      <4> QED BY <2>3, <4>1, Zenon DEF InBudget
    <3> QED BY <3>1, <3>2
  <2>5. \E p \in Policies : Within(Atoms(WeekOf(Books \cup {r}, t)), p.weekly)
    <3>1. CASE StartOf(Week, t) = StartOf(Week, now)
      <4>1. PICK p \in Policies : Within(Atoms(WeekOf(payments, now)) + r.amount, p.weekly)
        BY <2>2 DEF RoomFor
      <4>2. WeekOf(Books \cup {r}, t) = WeekOf(Books, now) \cup {r}
        BY <3>1 DEF WeekOf
      <4>3. WeekOf(Books, now) \in SUBSET WeekOf(payments, now) /\ r \notin WeekOf(payments, now)
        BY <1>t DEF WeekOf
      <4>4. Within(Atoms(WeekOf(Books, now) \cup {r}), p.weekly)
        BY <2>p, <4>1, <4>3, PolicyTyped, SumRoom
      <4> QED BY <4>2, <4>4, Zenon
    <3>2. CASE StartOf(Week, t) # StartOf(Week, now)
      <4>1. WeekOf(Books \cup {r}, t) = WeekOf(Books, t)
        BY <3>2 DEF WeekOf
      <4> QED BY <2>3, <4>1, Zenon DEF InBudget
    <3> QED BY <3>1, <3>2
  <2>6. \E p \in Policies : Within(Cardinality(HourOf(Books \cup {r}, t)), p.perHour)
    <3>1. CASE t = now
      <4>1. PICK p \in Policies : Within(Cardinality(HourOf(payments, now)) + 1, p.perHour)
        BY <2>2 DEF RoomFor
      <4>2. HourOf(Books \cup {r}, t) \in SUBSET (HourOf(payments, now) \cup {r})
        BY <1>t, <3>1 DEF HourOf
      <4>3. /\ IsFiniteSet(HourOf(payments, now) \cup {r})
            /\ Cardinality(HourOf(payments, now) \cup {r}) = Cardinality(HourOf(payments, now)) + 1
        <5>1. r \notin HourOf(payments, now)
          BY DEF HourOf
        <5> QED BY <2>p, <5>1, FS_AddElement
      <4>4. /\ Cardinality(HourOf(Books \cup {r}, t)) \in Nat
            /\ Cardinality(HourOf(Books \cup {r}, t)) <= Cardinality(HourOf(payments, now) \cup {r})
        BY <4>2, <4>3, FS_Subset, FS_CardinalityType
      <4> DEFINE a == Cardinality(HourOf(Books \cup {r}, t))
                 b == Cardinality(HourOf(payments, now))
      <4>5. a \in Nat /\ b \in Nat /\ a <= b + 1 /\ Within(b + 1, p.perHour) /\ p.perHour \in Nat
        BY <2>p, <4>1, <4>3, <4>4, PolicyTyped
      <4> HIDE DEF a, b
      <4>6. Within(a, p.perHour)
        BY <4>5 DEF Within
      <4> QED BY <4>6 DEF a
    <3>2. CASE t # now
      <4>1. HourOf(Books \cup {r}, t) = HourOf(Books, t)
        BY <1>t, <3>2 DEF HourOf
      <4> QED BY <2>3, <4>1, Zenon DEF InBudget
    <3> QED BY <3>1, <3>2
  <2> QED BY <2>4, <2>5, <2>6 DEF InBudget
<1> QED BY <1>1, <1>2

\* Steps that leave the books and the clock alone.
LEMMA BooksQuiet ==
  ASSUME BooksInv, UNCHANGED <<payments, now>>,
         \A u \in Thread :
           \/ th'[u].phase \notin {"pay", "record"} \/ (u[1] \in Direct /\ u[2] = "cont")
           \/ th[u].phase \in {"pay", "record"} /\ th'[u].amount = th[u].amount
           \/ RoomFor(th'[u].amount, now)
  PROVE  BooksInv'
<1>1. \A n : RoomFor(n, now)' <=> RoomFor(n, now)
  BY DEF RoomFor
<1>2. ASSUME NEW u \in Thread PROVE Checked(u)'
  <2> SUFFICES ASSUME th'[u].phase \in {"pay", "record"}, ~(u[1] \in Direct /\ u[2] = "cont")
               PROVE  RoomFor(th'[u].amount, now)
    BY DEF Checked, RoomFor
  <2>1. CASE th[u].phase \in {"pay", "record"} /\ th'[u].amount = th[u].amount
    BY <2>1 DEF BooksInv, Checked
  <2> QED BY <2>1
<1>3. \A t \in 0 .. now' : InBudget(Books', t)
  <2>1. Books' = Books /\ now' = now
    BY DEF Books
  <2> QED BY <2>1 DEF BooksInv
<1> QED BY <1>2, <1>3 DEF BooksInv, InBudget, Books

\* Steps of a thread that records nothing.
LEMMA BooksStep ==
  ASSUME SpendInv, BooksInv, NEW t \in Thread, Step(t), payments' = payments
  PROVE  BooksInv'
<1> USE DEF bounds, audit, registry, outcome
<1>t. TypeOK /\ now' = now /\ \A u \in Thread : u # t => th'[u] = th[u]
  BY StepMoves DEF SpendInv
<1>1. \/ th'[t].phase \notin {"pay", "record"} \/ (t[1] \in Direct /\ t[2] = "cont")
      \/ th[t].phase \in {"pay", "record"} /\ th'[t].amount = th[t].amount
      \/ RoomFor(th'[t].amount, now)
  <2>1. ASSUME NEW p \in Phase, Goto(t, p),
               \/ p \notin {"pay", "record"}
               \/ t[1] \in Direct /\ t[2] = "cont"
               \/ th[t].phase \in {"pay", "record"}
        PROVE  \/ th'[t].phase \notin {"pay", "record"} \/ (t[1] \in Direct /\ t[2] = "cont")
               \/ th[t].phase \in {"pay", "record"} /\ th'[t].amount = th[t].amount
    BY <1>t, <2>1, GotoMoves
  <2>2. ASSUME NEW n \in Amount, EvaluateAndRecord(t, n)
        PROVE  th'[t].phase \notin {"pay", "record"} \/ RoomFor(th'[t].amount, now)
    <3> DEFINE d == Evaluate(policy, t[1] \in Admitted, n, Usage(payments, now))
    <3>1. CASE Return(t)
      <4>1. th'[t].phase = "done"
        BY <1>t, <3>1, GotoMoves DEF Return, Phase
      <4> QED BY <4>1
    <3>2. CASE ~Return(t)
      <4>1. /\ d = "allow" \/ d = "escalate"
            /\ \E p \in {"pay", "create"} : th' = [th EXCEPT ![t] = [phase |-> p, amount |-> n]]
        BY <2>2, <3>2 DEF EvaluateAndRecord
      <4>2. RoomFor(n, now)
        BY <4>1, UsageFits
      <4>3. PICK p \in {"pay", "create"} : th' = [th EXCEPT ![t] = [phase |-> p, amount |-> n]]
        BY <4>1
      <4>4. th'[t].amount = n
        BY <1>t, <4>3, RecordMoves DEF Phase, Inside
      <4> QED BY <4>2, <4>4
    <3> QED BY <3>1, <3>2
  <2>3. CASE ~ \E n \in Amount : EvaluateAndRecord(t, n)
    <3>1. \E p \in Phase : /\ Goto(t, p)
                           /\ \/ p \notin {"pay", "record"}
                              \/ t[1] \in Direct /\ t[2] = "cont"
                              \/ th[t].phase \in {"pay", "record"}
      BY <2>3 DEF Step, Lock, LockUnread, Abort, Pay, PayUnseen, RecordPayment,
         CreateApproval, RegisterContinuation, Notify, RejectUnreachable, Return, Phase, Inside
    <3> QED BY <2>1, <3>1
  <2> QED BY <2>2, <2>3
<1> QED BY <1>1, <1>t, BooksQuiet DEF BooksInv, Checked

LEMMA BooksStay ==
  ASSUME SpendInv, Holding, BooksInv, [Next]_vars
  PROVE  BooksInv'
<1> USE DEF bounds, audit, registry, outcome
<1>t. /\ payments \in SUBSET PaymentRec /\ IsFiniteSet(payments) /\ Books \in SUBSET payments
      /\ now \in Nat /\ TypeOK
      /\ \A q \in payments : q.at \in Nat /\ q.at <= now
  BY BooksTyped DEF SpendInv
<1>1. ASSUME NEW t \in Thread, Step(t), payments' # payments PROVE BooksInv'
  <2> DEFINE r == [job |-> t[1], by |-> t[2], amount |-> th[t].amount, at |-> now]
  <2>1. /\ th[t].phase = "record" /\ Return(t) /\ payments' = payments \cup {r} /\ now' = now
    BY <1>1 DEF Step, Lock, LockUnread, EvaluateAndRecord, Abort, Pay, PayUnseen, RecordPayment,
       CreateApproval, RegisterContinuation, Notify, RejectUnreachable
  <2>2. r \notin payments
    BY <1>1, <2>1
  <2>3. r \in PaymentRec
    <3>1. t[1] \in Job /\ t[2] \in {"call", "cont"} /\ th[t].amount \in Amount
      BY <2>1, ThreadCases, ThreadFacts DEF Priced
    <3> QED BY <1>t, <3>1 DEF PaymentRec
  <2>4. ~(r.job \in Direct /\ r.by = "cont") => RoomFor(r.amount, now)
    BY <2>1 DEF BooksInv, Checked
  <2>5. r.at = now
    OBVIOUS
  <2> HIDE DEF r
  <2>6. \A u \in 0 .. now : InBudget(Books', u)
    BY <2>1, <2>2, <2>3, <2>4, <2>5, RecordFits
  <2>7. IsFiniteSet(payments') /\ \A p \in payments' : p.at <= now'
    <3>1. IsFiniteSet(payments \cup {r})
      BY <1>t, FS_AddElement
    <3> QED BY <1>t, <2>1, <2>5, <3>1
  <2>8. ASSUME NEW u \in Thread PROVE Checked(u)'
    <3>1. CASE u = t
      <4>1. th'[t].phase = "done"
        BY <1>t, <2>1, GotoMoves DEF Return, Phase
      <4> QED BY <3>1, <4>1 DEF Checked
    <3>2. CASE u # t
      <4>1. th[u].phase \notin Inside
        BY <2>1, <3>2 DEF Holding, Inside
      <4>2. th'[u] = th[u]
        BY <1>1, <3>2, StepMoves
      <4> QED BY <4>1, <4>2 DEF Checked, Inside
    <3> QED BY <3>1, <3>2
  <2>9. \A u \in 0 .. now' : InBudget(Books', u)
    BY <2>1, <2>6
  <2> QED BY <2>7, <2>8, <2>9 DEF BooksInv, InBudget
<1>2. CASE Tick
  <2>1. now' = now + 1 /\ th' = th /\ payments' = payments
    BY <1>2 DEF Tick
  <2>2. \A p \in payments' : p.at <= now'
    BY <1>t, <2>1
  <2>3. ASSUME NEW u \in Thread PROVE Checked(u)'
    <3>1. CASE th[u].phase \in {"pay", "record"} /\ ~(u[1] \in Direct /\ u[2] = "cont")
      <4>1. RoomFor(th[u].amount, now) /\ th[u].amount \in Nat
        BY <3>1, ThreadFacts DEF BooksInv, Checked, Priced
      <4>2. RoomFor(th[u].amount, now + 1)
        BY <4>1, RoomTicks
      <4> QED BY <2>1, <4>2 DEF Checked, RoomFor
    <3>2. CASE ~(th[u].phase \in {"pay", "record"} /\ ~(u[1] \in Direct /\ u[2] = "cont"))
      BY <2>1, <3>2 DEF Checked
    <3> QED BY <3>1, <3>2
  <2>4. InBudget(Books, now + 1)
    <3>1. Books \in SUBSET PaymentRec /\ IsFiniteSet(Books) /\ InBudget(Books, now)
      BY <1>t, FS_Subset DEF BooksInv
    <3> QED BY <1>t, <3>1, NextPeriod, BudgetLess
  <2>5. \A u \in 0 .. now + 1 : InBudget(Books, u)
    <3>1. \A u \in 0 .. now + 1 : u \in 0 .. now \/ u = now + 1
      BY <1>t
    <3> QED BY <2>4, <3>1 DEF BooksInv
  <2>6. Books' = Books
    BY <2>1 DEF Books
  <2>7. \A u \in 0 .. now' : InBudget(Books', u)
    BY <2>1, <2>5, <2>6
  <2> QED BY <1>t, <2>1, <2>2, <2>3, <2>7 DEF BooksInv, InBudget
<1>3. CASE \/ \E j \in Job, n \in Amount \cup {0} : Call(j, n)
           \/ Owner \/ Background \/ Restart \/ UNCHANGED vars
  <2>1. now' = now
    <3>1. CASE Owner \/ Background
      BY <3>1 DEF Owner, Resolve, Freeze, Unfreeze, Reload, Background, TakeContinuation, SweepSelect,
         SweepDrop, SweepUpdate
    <3>2. CASE Restart \/ UNCHANGED vars \/ \E j \in Job, n \in Amount \cup {0} : Call(j, n)
      BY <3>2 DEF Restart, vars, Call
    <3> QED BY <1>3, <3>1, <3>2
  <2>2. /\ payments' = payments
        /\ \A u \in Thread : th'[u] = th[u] \/ th'[u].phase \notin {"pay", "record"}
    BY <1>3, OutsideMoves
  <2> QED BY <2>1, <2>2, BooksQuiet
<1> QED BY <1>1, <1>2, <1>3, BooksStep DEF Next

-----------------------------------------------------------------------------
(* The specification *)

\* The service starts with nothing asked, parked or paid.
LEMMA InitInv ==
  ASSUME Init
  PROVE  SpendInv
<1>1. \A t \in Thread : th[t] = [phase |-> "idle", amount |-> 0]
  BY DEF Init
<1>2. th \in [Thread -> ThreadRec]
  <2>1. [phase |-> "idle", amount |-> 0] \in ThreadRec
    BY DEF ThreadRec, Phase
  <2> QED BY <2>1 DEF Init
<1>3. sent \in [Job -> Seq(Amount)] /\ \A j \in Job : sent[j] = <<>>
  BY DEF Init
<1>4. TypeOK
  <2>1. approval \in [Job -> ApprovalRec \cup {NoApproval}]
    BY DEF Init
  <2>2. restarts \in 0 .. MaxRestarts
    BY DEF Init
  <2> QED BY <1>2, <1>3, <2>1, <2>2 DEF Init, TypeOK
<1>5. ASSUME NEW t \in Thread PROVE Priced(t)
  BY <1>1 DEF Priced
<1>6. ASSUME NEW j \in Job PROVE JobInv(j)
  <2>1. CallPhase(j) = "idle" /\ ContPhase(j) = "idle"
    BY <1>1, ThreadsApart DEF CallPhase, ContPhase
  <2>2. ~Escalated(j) /\ j \notin waiting \cup taking
    BY DEF Init, Escalated
  <2> QED BY <1>3, <2>1, <2>2 DEF JobInv, CallFirst, Registered, StartedOnce, ContUnpaid
<1> QED BY <1>4, <1>5, <1>6 DEF SpendInv

\* Every step of a thread keeps the invariant.
LEMMA ThreadStepInv ==
  ASSUME SpendInv, NEW t \in Thread, Step(t)
  PROVE  SpendInv'
<1>1. CASE Lock(t) \/ LockUnread(t)
  BY <1>1, LockInv
<1>2. CASE \E n \in Amount : EvaluateAndRecord(t, n)
  BY <1>2, EvaluateInv
<1>3. CASE Abort(t) \/ \E ok \in BOOLEAN : RecordPayment(t, ok)
  BY <1>3, ReturnInv
<1>4. CASE Pay(t) \/ PayUnseen(t)
  BY <1>4, PayInv
<1>5. CASE CreateApproval(t)
  BY <1>5, CreateInv
<1>6. CASE RegisterContinuation(t)
  BY <1>6, RegisterInv
<1>7. CASE \E ok \in BOOLEAN : Notify(t, ok)
  BY <1>7, ReturnInv, NotifyInv
<1>8. CASE \E ok \in BOOLEAN : RejectUnreachable(t, ok)
  BY <1>8, RejectInv
<1> QED BY <1>1, <1>2, <1>3, <1>4, <1>5, <1>6, <1>7, <1>8 DEF Step

\* Every step keeps the invariant.
LEMMA StepInv ==
  ASSUME SpendInv, [Next]_vars
  PROVE  SpendInv'
<1>1. CASE \E j \in Job, n \in Amount \cup {0} : Call(j, n)
  BY <1>1, CallInv
<1>2. CASE \E t \in Thread : Step(t)
  BY <1>2, ThreadStepInv
<1>3. CASE Owner
  BY <1>3, VerdictInv, WorldInv DEF Owner
<1>4. CASE Background
  BY <1>4, TakeInv, VerdictInv, SweepInv DEF Background
<1>5. CASE Tick \/ UNCHANGED vars
  BY <1>5, WorldInv
<1>6. CASE Restart
  BY <1>6, RestartInv
<1> QED BY <1>1, <1>2, <1>3, <1>4, <1>5, <1>6 DEF Next

(* The inductive invariant of the service: a job's call comes before its   *)
(* approval, the approval before its continuation, and each of the two     *)
(* threads moves money only while nothing was sent for the job.            *)
THEOREM SpendInvariant == Spec => []SpendInv
<1>1. Init => SpendInv
  BY InitInv
<1>2. SpendInv /\ [Next]_vars => SpendInv'
  BY StepInv
<1> QED BY <1>1, <1>2, PTL DEF Spec

(* The tables, the registry and the threads of the service keep their      *)
(* types; in particular only amounts that were quoted are ever paid.       *)
THEOREM SpendTypeOK == Spec => []TypeOK
<1>1. SpendInv => TypeOK
  BY DEF SpendInv
<1> QED BY <1>1, SpendInvariant, PTL

(* One tool call moves money at most once: payMu, the registry and the     *)
(* approval's status together let only one of its threads pay, whatever    *)
(* verdicts, sweeps, reloads, freezes and restarts come in between.        *)
THEOREM SpendsAtMostOnce == Spec => []PaidAtMostOnce
<1>1. SpendInv => PaidAtMostOnce
  BY DEF SpendInv, JobInv, PaidAtMostOnce
<1> QED BY <1>1, SpendInvariant, PTL

(* An escalated payment is made only after the owner's yes, which stands:  *)
(* a payment whose approval was denied, has expired or is unanswered is    *)
(* never made.                                                             *)
THEOREM OnlyApprovedSpends == Spec => []OnlyApprovedPay
<1>1. SpendInv => OnlyApprovedPay
  <2> SUFFICES ASSUME SpendInv, NEW j \in Job, approval[j] # NoApproval, sent[j] # <<>>
               PROVE  approval[j].status = "approved"
    BY DEF OnlyApprovedPay
  <2>1. JobInv(j)
    BY DEF SpendInv
  <2> QED BY <2>1 DEF JobInv, StartedOnce, ContUnpaid, Escalated
<1> QED BY <1>1, SpendInvariant, PTL

\* The service starts with empty books.
LEMMA InitLimits ==
  ASSUME Init
  PROVE  LimitInv
<1>1. \A t \in Thread : th[t].phase = "idle"
  BY DEF Init
<1>2. Holding
  BY <1>1 DEF Holding, Inside
<1>3. CapInv
  BY <1>1, ThreadsApart DEF Init, CapInv, Capped, ContPhase, CeilingHolds
<1>4. BooksInv
  <2>1. payments = {} /\ Books = {} /\ now = 0
    BY DEF Init, Books
  <2>2. IsFiniteSet(payments)
    BY <2>1, FS_EmptySet
  <2>3. \A t \in Thread : Checked(t)
    BY <1>1 DEF Checked
  <2>4. InBudget({}, 0)
    <3>1. DayOf({}, 0) = {} /\ WeekOf({}, 0) = {} /\ HourOf({}, 0) = {}
      BY DEF DayOf, WeekOf, HourOf
    <3>2. Atoms({}) = 0
      <4> DEFINE f == [p \in {} |-> p.amount]
      <4>1. DOMAIN f = {}
        OBVIOUS
      <4> HIDE DEF f
      <4>2. SumFunction(f) = 0
        BY <4>1, SumEmpty DEF SumFunction
      <4> QED BY <4>2 DEF Atoms, f
    <3>3. Cardinality({}) = 0
      BY FS_EmptySet
    <3>4. \A p \in Policies : Within(0, p.daily) /\ Within(0, p.weekly) /\ Within(0, p.perHour)
      BY PolicyTyped DEF Within
    <3>5. policy \in Policies
      BY DEF Init
    <3> QED BY <3>1, <3>2, <3>3, <3>4, <3>5 DEF InBudget
  <2>5. \A t \in 0 .. now : InBudget(Books, t)
    <3>1. \A t \in 0 .. now : t = 0
      BY <2>1
    <3> QED BY <2>1, <2>4, <3>1
  <2> QED BY <2>1, <2>2, <2>3, <2>5 DEF BooksInv
<1> QED BY <1>2, <1>3, <1>4 DEF LimitInv

(* The limits of the service: payMu is held by whoever is inside, what a   *)
(* continuation pays is what its approval or the policy allows, and what   *)
(* was checked fits on the books whenever it is recorded (service.go,      *)
(* gate, usage; store/sqlite.go, Usage).                                   *)
THEOREM LimitsInvariant == Spec => [](SpendInv /\ LimitInv)
<1>1. Init => SpendInv /\ LimitInv
  BY InitInv, InitLimits
<1>2. SpendInv /\ LimitInv /\ [Next]_vars => (SpendInv /\ LimitInv)'
  BY StepInv, HoldingStays, CapStays, BooksStay DEF LimitInv
<1> QED BY <1>1, <1>2, PTL DEF Spec

(* What the owner approved is a ceiling, whatever the merchant quotes to   *)
(* the continuation: more is paid only if the policy in force by then does *)
(* not ask for that amount (gate, preApproved).                            *)
THEOREM CeilingIsKept == Spec => []CeilingHolds
<1>1. LimitInv => CeilingHolds
  BY DEF LimitInv, CapInv
<1> QED BY <1>1, LimitsInvariant, PTL

(* The books of a day, a week and an hour stay within the limits, for any  *)
(* number of concurrent calls, and however long the rail takes between the *)
(* check and the record (payMu, Usage).                                    *)
THEOREM BudgetIsKept == Spec => []BudgetHolds
<1>1. SpendInv /\ LimitInv => BudgetHolds
  <2> SUFFICES ASSUME SpendInv, LimitInv, NEW q \in payments PROVE InBudget(Books, q.at)
    BY DEF BudgetHolds
  <2>1. BooksInv
    BY DEF LimitInv
  <2>2. q.at \in Nat /\ q.at <= now /\ now \in Nat
    BY <2>1, BooksTyped
  <2>3. q.at \in 0 .. now
    BY <2>2
  <2> QED BY <2>1, <2>3 DEF BooksInv
<1> QED BY <1>1, LimitsInvariant, PTL

=============================================================================
