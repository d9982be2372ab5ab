------------------------------ MODULE MCBazaar ------------------------------
EXTENDS Bazaar, TLC

CONSTANTS tx, hash, seller, other, main, sim

\* One transaction pays the seller twice, two atoms in all, and another one atom.
Outs == tx :> <<[to |-> seller, atoms |-> 1], [to |-> other, atoms |-> 1], [to |-> seller, atoms |-> 1]>>

\* A server's URL and one that names its tool.
Urls == (1 :> "web") @@ (2 :> "mcp")

\* A facilitator without an index, and an index without the on-chain method.
Notary == [networks |-> {main}, onchain |-> TRUE, discovery |-> FALSE, public |-> FALSE, keys |-> TRUE,
           minConfs |-> 1, maxPage |-> 1, maxResources |-> 0]
Catalog == [networks |-> {sim}, onchain |-> FALSE, discovery |-> TRUE, public |-> TRUE, keys |-> FALSE,
            minConfs |-> 0, maxPage |-> 1, maxResources |-> 1]
Configurations == {Notary, Catalog}
NotaryOnly == {Notary}

Echo(type, tool) == [valid |-> TRUE, type |-> type, tool |-> tool]
Offer(payTo, amount) == [payTo |-> payTo, amount |-> amount]

Paying(payTo, amount, offered) ==
  [method |-> "onchain", id |-> tx, network |-> main, envelope |-> TRUE, keyed |-> TRUE,
   formed |-> TRUE, payTo |-> payTo, amount |-> amount, confs |-> 0,
   offered |-> offered, url |-> None, ext |-> None]

Proof(net, amount, mAtoms, tool) ==
  [method |-> "lightning", id |-> hash, network |-> net, envelope |-> TRUE, keyed |-> TRUE,
   formed |-> TRUE, payTo |-> seller, amount |-> amount, preimage |-> TRUE,
   offered |-> Offer(seller, amount),
   invoice |-> [network |-> net, id |-> hash, dest |-> seller, mAtoms |-> mAtoms],
   url |-> 1, ext |-> Echo("mcp", tool)]

\* Three readings of one transaction, of which one claims too little and one is
\* less than was offered, and Lightning proofs that echo a tool: one claims an
\* amount beyond the supply which equals the invoice's after wrapping.
Payments ==
  {Paying(seller, 2, Offer(seller, 2)), Paying(other, 1, Offer(other, 2)),
   Paying(seller, 1, Offer(seller, 1)), Proof(main, 9, 8, 2), Proof(sim, 1, 8, 2)}

Deposits == {p \in Payments : p.method = "onchain"}

Listing(url, type, ext) ==
  [keyed |-> FALSE, url |-> url, type |-> type, accepts |-> TRUE, ext |-> ext]
Submissions ==
  {Listing(1, "", None), Listing(1, "mcp", Echo("mcp", 2)), Listing(2, "mcp", None),
   Listing(1, "mcp", None)}
=============================================================================
