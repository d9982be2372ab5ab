------------------------------- MODULE Policy -------------------------------
(***************************************************************************)
(* The spending policy of the agent (src/agent/policy) and the usage it is *)
(* evaluated on (Usage in src/agent/store).  Rules on the memo and on the  *)
(* destination look at the attempt alone and are one Boolean here.  A      *)
(* limit of 0 switches its rule off.  Amounts are atoms, times are ticks   *)
(* of a clock on which an hour, a day and a week start at multiples of     *)
(* their length.                                                           *)
(***************************************************************************)
EXTENDS Integers, FiniteSets, FiniteSetsExt, Functions

CONSTANTS Hour, Day, Week      \* lengths, in ticks

ASSUME CalendarAssumption == {Hour, Day, Week} \subseteq Nat \ {0}

PolicyRec == [perPayment: Nat, perHour: Nat, daily: Nat, weekly: Nat,
              threshold: Nat]

\* DayStart and WeekStart.
StartOf(length, t) == t - (t % length)

Atoms(ps) == SumFunction([p \in ps |-> p.amount])

\* A faulty query that leaves out payments of the first moment of the day.
UsageAfterStart(payments, t) ==
  [day |-> Atoms({p \in payments : p.at > StartOf(Day, t)}),
   week |-> Atoms({p \in payments : p.at >= StartOf(Week, t)}),
   hour |-> Cardinality({p \in payments : p.at > t - Hour})]

(* Usage: recorded payments since the start of the day and of the week,    *)
(* and the number of them in the last hour.                                *)
Usage(payments, t) ==
  [day |-> Atoms({p \in payments : p.at >= StartOf(Day, t)}),
   week |-> Atoms({p \in payments : p.at >= StartOf(Week, t)}),
   hour |-> Cardinality({p \in payments : p.at > t - Hour})]

\* A limit that is switched off, or that the value respects.
Within(value, limit) == limit > 0 => value <= limit

(* Evaluate: the first rule that fails denies; a payment at or above the   *)
(* threshold that passes every rule is escalated.                          *)
Evaluate(pol, admitted, amount, usage) ==
  IF \/ ~admitted
     \/ ~Within(amount, pol.perPayment)
     \/ ~Within(usage.hour + 1, pol.perHour)
     \/ ~Within(usage.day + amount, pol.daily)
     \/ ~Within(usage.week + amount, pol.weekly)
  THEN "deny"
  ELSE IF pol.threshold > 0 /\ amount >= pol.threshold THEN "escalate"
  ELSE "allow"

=============================================================================
