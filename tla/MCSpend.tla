------------------------------- MODULE MCSpend -------------------------------
EXTENDS Spend

Pol(perPayment, perHour, daily, weekly, threshold) ==
  [perPayment |-> perPayment, perHour |-> perHour, daily |-> daily,
   weekly |-> weekly, threshold |-> threshold]

\* Amounts of 2 and more need approval, and fit the budget of a day once.
AskAtTwo == {Pol(0, 0, 3, 0, 2)}

\* The owner tightens the limits of the payment and the hour, asks to approve
\* everything, and relaxes both again; a day takes two atoms and a week three.
TwoPolicies == {Pol(0, 0, 2, 3, 2), Pol(2, 2, 2, 3, 1)}
=============================================================================
