------------------------------ MODULE PaidOnce ------------------------------
(***************************************************************************)
(* What the seller promises about a payment, with no stores, requests or   *)
(* restarts: it is received once, it may buy one run of a tool it covers,  *)
(* and it may be credited once, for exactly its amount.  Nothing here is   *)
(* ever taken back.                                                        *)
(***************************************************************************)
EXTENDS Integers, Sequences

CONSTANT Payment

VARIABLES received,   \* atoms received for a payment, 0 before
          ran,        \* prices of the runs it bought
          credited    \* atoms credited for it, 0 before

promiseVars == <<received, ran, credited>>

Init ==
  /\ received = [p \in Payment |-> 0]
  /\ ran = [p \in Payment |-> <<>>]
  /\ credited = [p \in Payment |-> 0]

Receive(p) ==
  /\ received[p] = 0
  /\ received'[p] > 0
  /\ received' = [received EXCEPT ![p] = received'[p]]
  /\ UNCHANGED <<ran, credited>>

Run(p) ==
  /\ ran[p] = <<>>
  /\ Len(ran'[p]) = 1
  /\ ran'[p][1] <= received[p]
  /\ ran' = [ran EXCEPT ![p] = ran'[p]]
  /\ UNCHANGED <<received, credited>>

Credit(p) ==
  /\ credited[p] = 0
  /\ received[p] > 0
  /\ credited' = [credited EXCEPT ![p] = received[p]]
  /\ UNCHANGED <<received, ran>>

Next == \E p \in Payment : Receive(p) \/ Run(p) \/ Credit(p)

Spec == Init /\ [][Next]_promiseVars

=============================================================================
