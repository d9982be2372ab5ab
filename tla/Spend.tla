-------------------------------- MODULE Spend --------------------------------
(***************************************************************************)
(* The buyer's payment service (src/agent): every tool call that spends is *)
(* checked against the freeze switch and the policy, pays on a rail and is *)
(* recorded, under one mutex (payMu); a payment above the threshold parks  *)
(* an approval (src/agent/approve) whose continuation a later yes starts.  *)
(*                                                                         *)
(* A call and the continuation of its approval are two threads, because    *)
(* the owner may answer while the call is still inside Escalate.  The      *)
(* owner, the expiry loop, the clock, policy reloads and restarts do not   *)
(* take the mutex.  The rails (the Lightning node, the wallet), merchants  *)
(* and the owner are external.                                             *)
(*                                                                         *)
(* Abstractions.  Each job is one tool call, and its approval id is the    *)
(* job.  The attempts table is an audit trail that no step reads and is    *)
(* left out, as are fees and receipts.                                     *)
(***************************************************************************)
EXTENDS Policy, Sequences

CONSTANTS Job,          \* tool calls that spend
          Direct,       \* pay_ln_invoice and pay_dcr_address; the rest fetch_paid
          Admitted,     \* jobs whose memo and destination the policy admits
          Amount,       \* amounts of invoices, sends and merchants' quotes
          Policies,     \* policies the owner loads
          ApprovalTTL,
          Delay,        \* bound: age of a clock reading when it is used
          MaxTime,      \* bound: the clock stops here if no approval is pending
          MaxRestarts,  \* bound: restarts of the daemon
          StoreFails,   \* whether a read of the freeze state may fail
          NoThread, NoApproval

\* The call, and the continuation that its approval starts.
Thread == Job \X {"call", "cont"}
CallOf(j) == <<j, "call">>
ContOf(j) == <<j, "cont">>

Status == {"pending", "approved", "denied", "expired"}
ApprovalRec == [status: Status, expires: Nat, amount: Amount]

ASSUME SpendAssumption ==
  /\ Direct \subseteq Job /\ Admitted \subseteq Job
  /\ Amount \subseteq Nat \ {0}
  /\ Policies \subseteq PolicyRec
  /\ {ApprovalTTL, Delay, MaxTime, MaxRestarts} \subseteq Nat
  /\ StoreFails \in BOOLEAN
  /\ NoThread \notin Thread
  /\ NoApproval \notin ApprovalRec

VARIABLES
  now,
  policy,        \* Engine.cur
  frozen,        \* state row "frozen"
  payMu,         \* the thread that holds the mutex
  th,            \* what each thread is doing
  approval,      \* the approvals table, by job
  waiting,       \* Registry.waiting: jobs whose continuation is registered
  taking,        \* approvals a resolver won and whose continuation it takes next
  overdue,       \* approvals the sweep selected and will mark
  expiring,      \* approvals the sweep reported and whose continuation it drops
  payments,      \* the payments table
  sent,          \* external: amounts the rails moved for a job, in order
  underFreeze,   \* history: threads that took payMu while frozen
  restarts

registry == <<approval, waiting, taking, overdue, expiring>>
outcome == <<payments, sent>>
audit == <<underFreeze>>
bounds == <<restarts>>
vars == <<now, policy, frozen, payMu, th, approval, waiting, taking, overdue,
          expiring, payments, sent, underFreeze, restarts>>

(***************************************************************************)
(* Phases of a thread: queued for payMu, then evaluate, pay and record;    *)
(* create, register, notify and reject are the steps of Escalate.          *)
(***************************************************************************)
Inside == {"evaluate", "pay", "record", "create", "register", "notify", "reject"}
Phase == {"idle", "queued", "done"} \cup Inside

ThreadRec == [phase: Phase, amount: Amount \cup {0}]
PaymentRec == [job: Job, by: {"call", "cont"}, amount: Amount, at: Nat]

TypeOK ==
  /\ now \in Nat
  /\ policy \in Policies
  /\ frozen \in BOOLEAN
  /\ payMu \in Thread \cup {NoThread}
  /\ th \in [Thread -> ThreadRec]
  /\ approval \in [Job -> ApprovalRec \cup {NoApproval}]
  /\ waiting \subseteq Job /\ taking \subseteq Job
  /\ overdue \subseteq Job /\ expiring \subseteq Job
  /\ payments \subseteq PaymentRec
  /\ sent \in [Job -> Seq(Amount)]
  /\ underFreeze \subseteq Thread
  /\ restarts \in 0 .. MaxRestarts

Init ==
  /\ now = 0
  /\ policy \in Policies
  /\ frozen = FALSE
  /\ payMu = NoThread
  /\ th = [t \in Thread |-> [phase |-> "idle", amount |-> 0]]
  /\ approval = [j \in Job |-> NoApproval]
  /\ waiting = {} /\ taking = {} /\ overdue = {} /\ expiring = {}
  /\ payments = {}
  /\ sent = [j \in Job |-> <<>>]
  /\ underFreeze = {}
  /\ restarts = 0

-----------------------------------------------------------------------------
(* A spending thread *)

Goto(t, phase) == th' = [th EXCEPT ![t].phase = phase]

\* The deferred Unlock: the thread returns to its caller.
Return(t) == Goto(t, "done") /\ payMu' = NoThread

(* PayLNInvoice and PayDCRAddress know the amount; a fetch learns it from  *)
(* the merchant's challenge.                                               *)
Call(j, n) ==
  /\ th[CallOf(j)].phase = "idle"
  /\ IF j \in Direct THEN n \in Amount ELSE n = 0
  /\ th' = [th EXCEPT ![CallOf(j)] = [phase |-> "queued", amount |-> n]]
  /\ UNCHANGED <<now, policy, frozen, payMu, registry, outcome, audit, bounds>>

(* payMu is taken.  A continuation of a direct payment goes straight to    *)
(* the rail; every other thread checks the freeze switch.                  *)
Lock(t) ==
  /\ th[t].phase = "queued"
  /\ payMu = NoThread
  /\ underFreeze' = IF frozen THEN underFreeze \cup {t} ELSE underFreeze
  /\ \/ /\ t[1] \in Direct /\ t[2] = "cont"
        /\ payMu' = t
        /\ Goto(t, "pay")
     \/ /\ ~(t[1] \in Direct /\ t[2] = "cont")
        /\ IF frozen THEN Goto(t, "done") /\ UNCHANGED payMu
                     ELSE Goto(t, "evaluate") /\ payMu' = t
  /\ UNCHANGED <<now, policy, frozen, registry, outcome, bounds>>

(* FreezeStatus: a failed read of the state row reads as not frozen.       *)
LockUnread(t) ==
  /\ th[t].phase = "queued"
  /\ payMu = NoThread
  /\ ~(t[1] \in Direct /\ t[2] = "cont")
  /\ StoreFails
  /\ underFreeze' = IF frozen THEN underFreeze \cup {t} ELSE underFreeze
  /\ payMu' = t
  /\ Goto(t, "evaluate")
  /\ UNCHANGED <<now, policy, frozen, registry, outcome, restarts>>

\* A faulty continuation that was approved for any amount.
CeilingUnbounded(t) == Max(Amount)

\* What a continuation may pay without asking again (preApproved.maxAtoms).
Ceiling(t) == IF t[2] = "cont" THEN approval[t[1]].amount ELSE 0

(* A faulty gate that loses the quote it decided on.                       *)
EvaluateForgets(t, n) ==
  LET d == Evaluate(policy, t[1] \in Admitted, n, Usage(payments, now)) IN
  /\ th[t].phase = "evaluate"
  /\ IF t[1] \in Direct THEN n = th[t].amount ELSE n \in Amount
  /\ \/ d = "allow" /\ Goto(t, "pay") /\ UNCHANGED payMu
     \/ d = "escalate" /\ t[2] = "call" /\ Goto(t, "create") /\ UNCHANGED payMu
     \/ d = "deny" /\ Return(t)
  /\ UNCHANGED <<now, policy, frozen, registry, outcome, audit, bounds>>

(* evaluateAndRecord and gate: usage, decision and attempt.  A call that   *)
(* must be approved goes on to Escalate; a fetch that was approved pays up *)
(* to the approved amount.                                                 *)
EvaluateAndRecord(t, n) ==
  LET d == Evaluate(policy, t[1] \in Admitted, n, Usage(payments, now)) IN
  /\ th[t].phase = "evaluate"
  /\ IF t[1] \in Direct THEN n = th[t].amount ELSE n \in Amount
  /\ \/ /\ d = "allow" \/ (d = "escalate" /\ t[2] = "cont" /\ n <= Ceiling(t))
        /\ th' = [th EXCEPT ![t] = [phase |-> "pay", amount |-> n]]
        /\ UNCHANGED payMu
     \/ /\ d = "escalate" /\ t[2] = "call"
        /\ th' = [th EXCEPT ![t] = [phase |-> "create", amount |-> n]]
        /\ UNCHANGED payMu
     \/ /\ d = "deny" \/ (d = "escalate" /\ t[2] = "cont" /\ n > Ceiling(t))
        /\ Return(t)
  /\ UNCHANGED <<now, policy, frozen, registry, outcome, audit, bounds>>

(* Nothing to pay or an error: a free or cached answer, an unusable        *)
(* challenge, a store error, a payment the rail refused.                   *)
Abort(t) ==
  /\ th[t].phase \in {"evaluate", "pay", "create"}
  /\ Return(t)
  /\ UNCHANGED <<now, policy, frozen, registry, outcome, audit, bounds>>

(* LN.Pay or Send succeeds.                                                *)
Pay(t) ==
  /\ th[t].phase = "pay"
  /\ sent' = [sent EXCEPT ![t[1]] = Append(@, th[t].amount)]
  /\ Goto(t, "record")
  /\ UNCHANGED <<now, policy, frozen, payMu, registry, payments, audit, bounds>>

(* A faulty payment path that tries again when the rail reports an error.  *)
PayRetries(t) ==
  /\ th[t].phase = "pay"
  /\ sent' = [sent EXCEPT ![t[1]] = Append(@, th[t].amount)]
  /\ Len(sent'[t[1]]) <= 2
  /\ UNCHANGED <<now, policy, frozen, payMu, th, registry, payments, audit, bounds>>

(* The rail settles but the call reports an error: the payment stream      *)
(* broke, or the caller's context ended.                                   *)
PayUnseen(t) ==
  /\ th[t].phase = "pay"
  /\ sent' = [sent EXCEPT ![t[1]] = Append(@, th[t].amount)]
  /\ Return(t)
  /\ UNCHANGED <<now, policy, frozen, registry, payments, audit, bounds>>

(* RecordPayment; its error is returned or ignored, and either way the     *)
(* payment is not on the books.                                            *)
RecordPayment(t, ok) ==
  /\ th[t].phase = "record"
  /\ payments' = IF ok
                 THEN payments \cup {[job |-> t[1], by |-> t[2],
                                      amount |-> th[t].amount, at |-> now]}
                 ELSE payments
  /\ Return(t)
  /\ UNCHANGED <<now, policy, frozen, registry, sent, audit, bounds>>

-----------------------------------------------------------------------------
(* Escalate, inside the call that needs approval *)

CreateApproval(t) ==
  /\ th[t].phase = "create"
  /\ approval' = [approval EXCEPT ![t[1]] =
                    [status |-> "pending", expires |-> now + ApprovalTTL,
                     amount |-> th[t].amount]]
  /\ Goto(t, "register")
  /\ UNCHANGED <<now, policy, frozen, payMu, waiting, taking, overdue, expiring,
                 outcome, audit, bounds>>

RegisterContinuation(t) ==
  /\ th[t].phase = "register"
  /\ waiting' = waiting \cup {t[1]}
  /\ Goto(t, "notify")
  /\ UNCHANGED <<now, policy, frozen, payMu, approval, taking, overdue, expiring,
                 outcome, audit, bounds>>

(* A faulty Escalate that keeps payMu while it waits for the owner.        *)
NotifyHoldsLock(t, notified) ==
  /\ th[t].phase = "notify"
  /\ Goto(t, IF notified THEN "done" ELSE "reject")
  /\ waiting' = IF notified THEN waiting ELSE waiting \ {t[1]}
  /\ UNCHANGED <<now, policy, frozen, payMu, approval, taking, overdue, expiring,
                 outcome, audit, bounds>>

(* Some channel took the message, or none did: then the continuation is    *)
(* dropped before the approval is denied.                                  *)
Notify(t, notified) ==
  /\ th[t].phase = "notify"
  /\ IF notified THEN Return(t) /\ UNCHANGED waiting
     ELSE /\ Goto(t, "reject")
          /\ waiting' = waiting \ {t[1]}
          /\ UNCHANGED payMu
  /\ UNCHANGED <<now, policy, frozen, approval, taking, overdue, expiring,
                 outcome, audit, bounds>>

\* ResolveApproval: the row changes only while it is pending.
Pending(j) == approval[j] # NoApproval /\ approval[j].status = "pending"
SetStatus(js, status) ==
  approval' = [j \in Job |-> IF j \in js /\ Pending(j)
                             THEN [approval[j] EXCEPT !.status = status]
                             ELSE approval[j]]

(* Nobody could be told: deny.  An error of the update is ignored.         *)
RejectUnreachable(t, ok) ==
  /\ th[t].phase = "reject"
  /\ SetStatus(IF ok THEN {t[1]} ELSE {}, "denied")
  /\ Return(t)
  /\ UNCHANGED <<now, policy, frozen, waiting, taking, overdue, expiring,
                 outcome, underFreeze, bounds>>

-----------------------------------------------------------------------------
(* Verdicts and expiry *)

(* Resolve: the owner's answer, over Bison Relay or the dashboard, stamped *)
(* with a clock reading that may be old by the time the row is updated.    *)
Resolve(j, status, at) ==
  /\ Pending(j)
  /\ at <= approval[j].expires
  /\ SetStatus({j}, status)
  /\ taking' = taking \cup {j}
  /\ UNCHANGED <<now, policy, frozen, payMu, th, waiting, overdue, expiring,
                 outcome, audit, bounds>>

(* A faulty resolver that starts the continuation of a denied approval.    *)
TakeAnyVerdict(j) ==
  /\ j \in taking
  /\ taking' = taking \ {j}
  /\ waiting' = waiting \ {j}
  /\ IF j \in waiting
     THEN th' = [th EXCEPT ![ContOf(j)] =
                   [phase |-> "queued", amount |-> IF j \in Direct
                                                   THEN approval[j].amount ELSE 0]]
     ELSE UNCHANGED th
  /\ UNCHANGED <<now, policy, frozen, payMu, approval, overdue, expiring,
                 outcome, audit, bounds>>

(* The winner takes the continuation, if there is one, and starts it; a    *)
(* denied one returns at once.                                             *)
TakeContinuation(j) ==
  /\ j \in taking
  /\ taking' = taking \ {j}
  /\ waiting' = waiting \ {j}
  /\ IF j \in waiting /\ approval[j].status = "approved"
     THEN th' = [th EXCEPT ![ContOf(j)] =
                   [phase |-> "queued", amount |-> IF j \in Direct
                                                   THEN approval[j].amount ELSE 0]]
     ELSE UNCHANGED th
  /\ UNCHANGED <<now, policy, frozen, payMu, approval, overdue, expiring,
                 outcome, audit, bounds>>

(* A faulty sweep over the registered continuations, not over the table.   *)
SweepRegistered ==
  /\ overdue = {} /\ expiring = {}
  /\ overdue' = {j \in waiting : Pending(j) /\ approval[j].expires < now}
  /\ overdue' # {}
  /\ UNCHANGED <<now, policy, frozen, payMu, th, approval, waiting, taking,
                 expiring, outcome, audit, bounds>>

(* ExpireApprovals: SELECT, then UPDATE the rows that are still pending,   *)
(* one by one; every selected row is reported, or none if an update fails. *)
(* The loop then drops the continuations of the reported ones.             *)
SweepSelect ==
  /\ overdue = {} /\ expiring = {}
  /\ overdue' = {j \in Job : Pending(j) /\ approval[j].expires < now}
  /\ overdue' # {}
  /\ UNCHANGED <<now, policy, frozen, payMu, th, approval, waiting, taking,
                 expiring, outcome, audit, bounds>>

SweepUpdate(marked) ==
  /\ overdue # {}
  /\ SetStatus(marked, "expired")
  /\ expiring' = IF marked = overdue THEN overdue ELSE {}
  /\ overdue' = {}
  /\ UNCHANGED <<now, policy, frozen, payMu, th, waiting, taking, outcome,
                 audit, bounds>>

SweepDrop ==
  /\ expiring # {}
  /\ waiting' = waiting \ expiring
  /\ expiring' = {}
  /\ UNCHANGED <<now, policy, frozen, payMu, th, approval, taking, overdue,
                 outcome, audit, bounds>>

-----------------------------------------------------------------------------
(* The owner, the clock and restarts *)

Freeze == /\ ~frozen /\ frozen' = TRUE
          /\ UNCHANGED <<now, policy, payMu, th, registry, outcome, audit, bounds>>
Unfreeze == /\ frozen /\ frozen' = FALSE
            /\ UNCHANGED <<now, policy, payMu, th, registry, outcome, audit, bounds>>

Reload(p) ==
  /\ p # policy /\ policy' = p
  /\ UNCHANGED <<now, frozen, payMu, th, registry, outcome, audit, bounds>>

Tick ==
  /\ now < MaxTime \/ \E j \in Job : Pending(j) /\ now <= approval[j].expires
  /\ now' = now + 1
  /\ UNCHANGED <<policy, frozen, payMu, th, registry, outcome, audit, bounds>>

(* The tables stay; threads, the mutex and the continuations are gone.     *)
Restart ==
  /\ restarts < MaxRestarts /\ restarts' = restarts + 1
  /\ th' = [t \in Thread |-> IF th[t].phase = "idle" THEN th[t]
                             ELSE [th[t] EXCEPT !.phase = "done"]]
  /\ payMu' = NoThread
  /\ waiting' = {} /\ taking' = {} /\ overdue' = {} /\ expiring' = {}
  /\ UNCHANGED <<now, policy, frozen, approval, outcome, audit>>

Step(t) ==
  \/ Lock(t) \/ LockUnread(t)
  \/ \E n \in Amount : EvaluateAndRecord(t, n)
  \/ Abort(t)
  \/ Pay(t) \/ PayUnseen(t)
  \/ \E ok \in BOOLEAN : RecordPayment(t, ok)
  \/ CreateApproval(t) \/ RegisterContinuation(t)
  \/ \E ok \in BOOLEAN : Notify(t, ok)
  \/ \E ok \in BOOLEAN : RejectUnreachable(t, ok)

\* Clock readings that may still be in use.
Recent == {at \in 0 .. now : now - at <= Delay}

Owner ==
  \/ \E j \in Job, v \in {"approved", "denied"}, at \in Recent : Resolve(j, v, at)
  \/ Freeze \/ Unfreeze
  \/ \E p \in Policies : Reload(p)

Background ==
  \/ \E j \in Job : TakeContinuation(j)
  \/ SweepSelect \/ SweepDrop
  \/ \E marked \in SUBSET overdue : SweepUpdate(marked)

Next ==
  \/ \E j \in Job, n \in Amount \cup {0} : Call(j, n)
  \/ \E t \in Thread : Step(t)
  \/ Owner \/ Background \/ Tick \/ Restart

Spec == Init /\ [][Next]_vars

\* What a thread does by itself or under a timeout: all but what waits for the
\* answer of a rail.
Progress(t) == th[t].phase # "pay" /\ Step(t)

(* payMu goes to the longest waiter, a thread that holds it goes on once   *)
(* the rail has answered (the merchants are called with a timeout, a rail  *)
(* need not answer at all), and the daemon's expiry loop keeps running and *)
(* does not fail every time.  Nothing is assumed of the owner.             *)
Fairness ==
  /\ \A t \in Thread : SF_vars(Lock(t)) /\ WF_vars(Progress(t))
  /\ \A j \in Job : WF_vars(TakeContinuation(j))
  /\ WF_vars(SweepSelect) /\ SF_vars(SweepUpdate(overdue)) /\ WF_vars(SweepDrop)
  /\ WF_vars(Tick)

FairSpec == Spec /\ Fairness

-----------------------------------------------------------------------------
(* Safety *)

(* One tool call moves money at most once, although its approval can be    *)
(* answered twice, expire while it is answered, and run next to the call.  *)
PaidAtMostOnce == \A j \in Job : Len(sent[j]) <= 1

(* The package comment of approve: an escalated payment is made "once, and *)
(* only if, the owner says yes"; a denied, expired or unanswered one never *)
(* is, in whatever order verdicts, sweeps, restarts and the call itself    *)
(* reach the approval.                                                     *)
OnlyApprovedPay ==
  \A j \in Job : approval[j] # NoApproval /\ sent[j] # <<>> =>
    approval[j].status = "approved"

\* An amount that some policy the owner loads lets pass without asking.
Unasked(n) == \E p \in Policies : p.threshold = 0 \/ n < p.threshold

\* No more than was approved, or a quote the policy by then does not ask about.
WithinCeiling(j, n) == n <= approval[j].amount \/ (j \notin Direct /\ Unasked(n))

(* preApproved: a merchant that quotes more after the approval is refused; *)
(* the owner never pays more than was approved, unless the policy in force *)
(* by then does not ask for that amount at all.                            *)
CeilingHolds ==
  \A j \in Job : approval[j] # NoApproval =>
    \A i \in DOMAIN sent[j] : WithinCeiling(j, sent[j][i])

\* Payments of the day, of the week, and of the hour up to t.
DayOf(ps, t) == {q \in ps : StartOf(Day, q.at) = StartOf(Day, t)}
WeekOf(ps, t) == {q \in ps : StartOf(Week, q.at) = StartOf(Week, t)}
HourOf(ps, t) == {q \in ps : q.at \in t - Hour + 1 .. t}

\* They respect the limits of some policy that was loaded.
InBudget(ps, t) ==
  /\ \E p \in Policies : Within(Atoms(DayOf(ps, t)), p.daily)
  /\ \E p \in Policies : Within(Atoms(WeekOf(ps, t)), p.weekly)
  /\ \E p \in Policies : Within(Cardinality(HourOf(ps, t)), p.perHour)

\* The books, direct payments that the owner approved aside.
Books == {p \in payments : ~(p.job \in Direct /\ p.by = "cont")}

(* payMu: concurrent calls cannot both pass a budget check that only one   *)
(* should, not even when a payment is checked before midnight and recorded *)
(* after it: what is on the books of a day, a week or an hour is within    *)
(* the limits, direct payments that the owner approved aside.              *)
BudgetHolds ==
  \A q \in payments : InBudget(Books, q.at)

-----------------------------------------------------------------------------
(* The inductive invariant behind PaidAtMostOnce and OnlyApprovedPay *)

CallPhase(j) == th[CallOf(j)].phase
ContPhase(j) == th[ContOf(j)].phase
Escalated(j) == approval[j] # NoApproval

\* A call asks for approval before it ever pays, and does not pay after it.
CallFirst(j) ==
  /\ CallPhase(j) \in {"idle", "queued", "evaluate", "pay", "record", "create"} => ~Escalated(j)
  /\ CallPhase(j) \in {"register", "notify", "reject"} => Escalated(j)
  /\ CallPhase(j) \in {"idle", "queued", "evaluate", "pay", "create"} => sent[j] = <<>>

\* The continuation is registered once, by the call that parked it.
Registered(j) ==
  /\ ~Escalated(j) => ContPhase(j) = "idle" /\ j \notin waiting \cup taking
  /\ j \in waiting => CallPhase(j) \in {"notify", "done"}
  /\ j \in taking => approval[j].status \in {"approved", "denied"}

\* It is started once, by the yes that won the approval.
StartedOnce(j) ==
  ContPhase(j) # "idle" =>
    /\ Escalated(j) /\ approval[j].status = "approved"
    /\ j \notin waiting \cup taking
    /\ CallPhase(j) \in {"notify", "reject", "done"}
    /\ ContPhase(j) \in {"queued", "evaluate", "pay", "record", "done"}

\* Until it pays, no money has moved.
ContUnpaid(j) ==
  Escalated(j) /\ ContPhase(j) \in {"idle", "queued", "evaluate", "pay"} => sent[j] = <<>>

JobInv(j) == CallFirst(j) /\ Registered(j) /\ StartedOnce(j) /\ ContUnpaid(j)
               /\ Len(sent[j]) <= 1

\* A thread that is about to pay or to ask knows the amount.
Priced(t) ==
  (\/ th[t].phase \in {"pay", "record", "create"}
   \/ th[t].phase = "queued" /\ t[1] \in Direct /\ t[2] = "cont") => th[t].amount \in Amount

SpendInv == TypeOK /\ (\A t \in Thread : Priced(t)) /\ (\A j \in Job : JobInv(j))

-----------------------------------------------------------------------------
(* The inductive invariant behind CeilingHolds and BudgetHolds *)

\* A thread is inside only while it holds payMu.
Holding == \A t \in Thread : th[t].phase \in Inside => payMu = t

\* A continuation that goes to the rail pays what the approval allows.
Capped(j) ==
  /\ ContPhase(j) = "evaluate" => j \notin Direct
  /\ (\/ ContPhase(j) \in {"pay", "record"}
      \/ ContPhase(j) = "queued" /\ j \in Direct) => WithinCeiling(j, th[ContOf(j)].amount)

\* One payment more of n atoms would be within the limits.
RoomFor(n, t) ==
  /\ \E p \in Policies : Within(Atoms(DayOf(payments, t)) + n, p.daily)
  /\ \E p \in Policies : Within(Atoms(WeekOf(payments, t)) + n, p.weekly)
  /\ \E p \in Policies : Within(Cardinality(HourOf(payments, t)) + 1, p.perHour)

\* What was checked still fits, whenever it is recorded.
Checked(t) ==
  th[t].phase \in {"pay", "record"} /\ ~(t[1] \in Direct /\ t[2] = "cont") =>
    RoomFor(th[t].amount, now)

CapInv == (\A j \in Job : Capped(j)) /\ CeilingHolds

BooksInv ==
  /\ IsFiniteSet(payments) /\ \A p \in payments : p.at <= now
  /\ \A t \in Thread : Checked(t)
  /\ \A t \in 0 .. now : InBudget(Books, t)

LimitInv == Holding /\ CapInv /\ BooksInv

-----------------------------------------------------------------------------
(* Liveness *)

(* RunExpiry: an approval the owner does not answer is expired; nothing    *)
(* stays pending, after a restart neither.                                 *)
ApprovalsEnd == \A j \in Job : Pending(j) ~> ~Pending(j)

\* Every payment a rail was asked for returns, with a result or an error.
RailsAnswer == \A t \in Thread : []<>(th[t].phase # "pay")

(* No path keeps payMu: if the rails answer, every call and every started  *)
(* continuation ends, those that waited for the mutex too.  The condition  *)
(* is needed: Send has no timeout and a continuation no context that ends, *)
(* so that one payment without an answer stops all the others.             *)
ThreadsEnd ==
  RailsAnswer =>
    \A t \in Thread : (th[t].phase \in Inside \cup {"queued"}) ~> (th[t].phase = "done")

-----------------------------------------------------------------------------
(* What the documentation says of spending *)

(* agent/freeze.go: "When Frozen is true, every spending path denies": a   *)
(* thread that takes payMu while the agent is frozen does not pay.         *)
FreezeHalts == \A t \in underFreeze : th[t].phase \notin {"pay", "record"}

=============================================================================
