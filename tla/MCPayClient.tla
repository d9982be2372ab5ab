----------------------------- MODULE MCPayClient -----------------------------
EXTENDS PayClient, TLC

CONSTANTS shop, stall, hawker, mall, street

\* One shop on its own host, and two sites that share a host name.
Hosts == (shop :> mall) @@ (stall :> street) @@ (hawker :> street)

\* Claims of one and of eleven atoms, for invoices of 6 (one atom), of 2, which
\* eleven atoms equal after wrapping, and of 13 milli-atoms (two and a bit).
Ask(rail, atoms, mAtoms) ==
  [rail |-> rail, atoms |-> atoms, mAtoms |-> mAtoms, agrees |-> rail = "x402"]
Offers == {Ask("x402", 1, 13), Ask("x402", 11, 2), Ask("l402", 0, 2), Ask("l402", 0, 13)}
=============================================================================
