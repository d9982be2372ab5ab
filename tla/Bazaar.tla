------------------------------- MODULE Bazaar -------------------------------
(***************************************************************************)
(* The Bazaar facilitator (src/bazaar): /verify and /settle check a        *)
(* payment for a resource server that did not issue the challenge here,    *)
(* /settle notarizes it under its payment hash or transaction id, and the  *)
(* discovery index is filled by /discovery/submit and by settled payments  *)
(* that echo the bazaar extension, and read page by page.                  *)
(*                                                                         *)
(* Every HTTP handler runs on a connection of its own; a handler is cut    *)
(* where it calls the store or the chain.  The store is SQLite: one        *)
(* statement at a time, and what it committed survives a restart.          *)
(*                                                                         *)
(* External: the payers and sellers who ask, the chain behind dcrdata      *)
(* (assumed not to undo what has been seen), the invoices' clock, and a    *)
(* reader that walks the list by adding the items it got to its offset.    *)
(*                                                                         *)
(* Abstractions.  A URL or tool name is its place in the order the list    *)
(* uses, 0 the empty name; of a resource's data the model keeps the type.  *)
(* Milli and Wrap stand for 1000 and 2^64.                                 *)
(***************************************************************************)
EXTENDS Integers, Sequences, FiniteSets, Functions

CONSTANTS Conn,           \* connections served at a time
          Payment,        \* bodies of /verify and /settle
          Submission,     \* bodies of /discovery/submit
          Outputs,        \* external: transaction -> its outputs, [to, atoms]
          UrlKind,        \* URL -> "web", "mcp" or "bad"
          Configs,        \* configurations under which the service starts
          Milli, Wrap,    \* milli-atoms in an atom; size of a machine word
          Supply,         \* external: the most atoms there can ever be
          MaxDepth,       \* bound: confirmations of a transaction
          MaxFaults,      \* bound: failed calls and restarts
          None

Tx == DOMAIN Outputs
Network == {p.network : p \in Payment}
Url == DOMAIN UrlKind
Tool == Nat
Entry == [url: Url, tool: Tool]
Ext == [valid: BOOLEAN, type: {"http", "mcp", "other"}, tool: Tool]

(* The configuration of the service.                                       *)
ConfigRec == [networks: SUBSET Network, onchain: BOOLEAN, discovery: BOOLEAN, public: BOOLEAN, keys: BOOLEAN,
              minConfs: Int, maxPage: Nat \ {0}, maxResources: Nat]

(* What validate lets through; a depth below one is raised to one there.   *)
Validated(c) ==
  /\ c.networks # {}
  /\ c.discovery /\ ~c.public => c.keys
  /\ c.onchain => c.minConfs > 0

ASSUME BazaarAssumption ==
  /\ IsFiniteSet(Conn) /\ Conn # {}
  /\ Configs \subseteq ConfigRec /\ Configs # {}
  /\ \A c \in Configs : Validated(c)
  /\ {Milli, Wrap} \subseteq Nat \ {0}
  /\ {Supply, MaxDepth, MaxFaults} \subseteq Nat
  /\ Supply * Milli < Wrap

(* What is asked is decoded before a handler sees it.                      *)
ASSUME RequestAssumption ==
  /\ Url \subseteq Nat
  /\ None \notin Payment \cup Submission
  /\ \A p \in Payment :
       /\ p.method \in {"lightning", "onchain"} /\ p.amount \in Nat
       /\ p.method = "onchain" => p.id \in Tx /\ p.confs \in Int
       /\ p.url \in Url \cup {None} /\ p.ext \in Ext \cup {None}
  /\ \A s \in Submission : s.url \in Url /\ s.ext \in Ext \cup {None}
  /\ \A t \in Tx : /\ Len(Outputs[t]) \in Nat /\ DOMAIN Outputs[t] = 1 .. Len(Outputs[t])
                   /\ \A i \in DOMAIN Outputs[t] : Outputs[t][i].atoms \in Nat

VARIABLES
  cfg,          \* Service.cfg
  settlements,  \* table settlements: key -> the request notarized first
  index,        \* table resources: entry -> type
  depth,        \* external: transaction -> confirmations, -1 while unseen
  expired,      \* external: payments whose invoice is past its time
  phase,        \* connection -> where its handler is
  req,          \* connection -> the request it serves
  resp,         \* connection -> the notarization it answers with, or None
  known,        \* history: connection -> its key was notarized when it arrived
                \*   and none of its calls has failed since
  told,         \* history: key -> successful answers given
  harvested,    \* history: entries a settled payment brought first
  walk,         \* the reader
  faults

conns == <<phase, req, resp, known>>
world == <<depth, expired>>
vars == <<cfg, settlements, index, depth, expired, phase, req, resp, known,
          told, harvested, walk, faults>>

Deposit == {p \in Payment : p.method = "onchain"}
Key == {p.id : p \in Payment}
Response == {[transaction |-> p.id, network |-> p.network, amount |-> p.amount] : p \in Payment}
Phase == {"idle", "verify", "valid", "lookup", "check", "notarize", "harvest", "reply",
          "full", "put"}

TypeOK ==
  /\ cfg \in Configs
  /\ settlements \in [Key -> Payment \cup {None}]
  /\ DOMAIN index \subseteq Entry /\ index \in [DOMAIN index -> {"http", "mcp"}]
  /\ depth \in [Tx -> -1 .. MaxDepth]
  /\ expired \subseteq Payment
  /\ phase \in [Conn -> Phase]
  /\ req \in [Conn -> Payment \cup Submission \cup {None}]
  /\ resp \in [Conn -> Payment \cup {None}]
  /\ known \in [Conn -> BOOLEAN]
  /\ told \in [Key -> SUBSET Response]
  /\ harvested \subseteq DOMAIN index
  /\ walk \in [at: {"start", "page", "end"},
               offset: 0 .. Cardinality(DOMAIN index), limit: 1 .. cfg.maxPage,
               must: SUBSET DOMAIN index, got: SUBSET DOMAIN index]
  /\ faults \in 0 .. MaxFaults

\* The list has not been walked.
NoWalk == [at |-> "start", offset |-> 0, limit |-> 1, must |-> {}, got |-> {}]

Init ==
  /\ cfg \in Configs
  /\ settlements = [k \in Key |-> None]
  /\ index = <<>>
  /\ depth = [t \in Tx |-> -1]
  /\ expired = {}
  /\ phase = [c \in Conn |-> "idle"]
  /\ req = [c \in Conn |-> None]
  /\ resp = [c \in Conn |-> None]
  /\ known = [c \in Conn |-> FALSE]
  /\ told = [k \in Key |-> {}]
  /\ harvested = {}
  /\ walk = NoWalk
  /\ faults = 0

(* A call made for connection c fails.                                     *)
Fault(c) ==
  /\ faults < MaxFaults
  /\ faults' = faults + 1
  /\ known' = [known EXCEPT ![c] = FALSE]

NoFault == UNCHANGED <<faults, known>>

Goto(c, p) == phase' = [phase EXCEPT ![c] = p]

\* The handler is done.
Freed(c) == Goto(c, "idle") /\ req' = [req EXCEPT ![c] = None]

-----------------------------------------------------------------------------
(* Checking a payment *)

(* The network is served, and version, scheme and network are right.       *)
CheckEnvelope(p) == p.network \in cfg.networks /\ p.envelope

(* The outputs that pay the address are added up in order.                 *)
AddUp(outs, to) ==
  LET sum[i \in 0 .. Len(outs)] ==
        IF i = 0 THEN 0
        ELSE sum[i - 1] + (IF outs[i].to = to THEN outs[i].atoms ELSE 0)
  IN  sum[Len(outs)]

lookupDeposit(p) ==
  [found |-> depth[p.id] >= 0, confs |-> depth[p.id], atoms |-> AddUp(Outputs[p.id], p.payTo)]

RequiredConfs(p) == IF cfg.minConfs > p.confs THEN cfg.minConfs ELSE p.confs

\* A faulty check that takes any amount the outputs cover.
OnchainAtLeast(p) ==
  /\ cfg.onchain /\ p.formed /\ p.amount > 0
  /\ LET dep == lookupDeposit(p)
     IN  dep.found /\ dep.atoms >= p.amount /\ dep.confs >= RequiredConfs(p)

\* A faulty check that wants the depth met exactly.
OnchainExactDepth(p) ==
  /\ cfg.onchain /\ p.formed /\ p.amount > 0
  /\ LET dep == lookupDeposit(p)
     IN  dep.found /\ dep.atoms = p.amount /\ dep.confs = RequiredConfs(p)

(* checkOnchain: against what the payload says was accepted; what the      *)
(* resource server offered is not looked at.                               *)
checkOnchain(p) ==
  /\ cfg.onchain /\ p.formed /\ p.amount > 0
  /\ LET dep == lookupDeposit(p)
     IN  dep.found /\ dep.atoms = p.amount /\ dep.confs >= RequiredConfs(p)

(* VerifyLightningProof: preimage, echo of the offer, and the invoice's    *)
(* network, hash, destination, amount (in a machine word) and time.        *)
VerifyLightningProof(p) ==
  /\ p.formed /\ p.preimage
  /\ p.offered = [payTo |-> p.payTo, amount |-> p.amount]
  /\ p.invoice.network = p.network
  /\ p.invoice.id = p.id
  /\ p.invoice.dest = p.payTo
  /\ p.amount > 0
  /\ p.invoice.mAtoms = (p.amount * Milli) % Wrap
  /\ p \notin expired

checkAny(p) ==
  /\ CheckEnvelope(p)
  /\ \/ p.method = "lightning" /\ VerifyLightningProof(p)
     \/ p.method = "onchain" /\ checkOnchain(p)

-----------------------------------------------------------------------------
(* /verify and /settle *)

(* A handler starts.                                                       *)
Arrive(c, r) ==
  /\ phase[c] = "idle"
  /\ req' = [req EXCEPT ![c] = r]

(* gated: with keys configured, a request without one is turned away; so   *)
(* is one with a wrong envelope.  Neither changes anything.                *)
Admitted(p) == (cfg.keys => p.keyed) /\ CheckEnvelope(p)

HandleVerify(c, p) ==
  /\ Admitted(p)
  /\ Arrive(c, p)
  /\ Goto(c, "verify")
  /\ UNCHANGED <<cfg, settlements, index, world, resp, known, told, harvested, walk, faults>>

(* verify: the check alone, and nothing is kept; a chain that cannot be    *)
(* read makes the payment invalid.                                         *)
Verify(c) ==
  /\ phase[c] = "verify"
  /\ \/ checkAny(req[c]) /\ Goto(c, "valid") /\ UNCHANGED req /\ NoFault
     \/ ~checkAny(req[c]) /\ Freed(c) /\ NoFault
     \/ req[c].method = "onchain" /\ Freed(c) /\ Fault(c)
  /\ UNCHANGED <<cfg, settlements, index, world, resp, told, harvested, walk>>

(* The payment is called valid.                                            *)
Vouch(c) ==
  /\ phase[c] = "valid"
  /\ Freed(c)
  /\ UNCHANGED <<cfg, settlements, index, world, resp, known, told, harvested, walk, faults>>

\* A faulty settle that checks the payment before it looks for a replay.
SettleChecksFirst(c, p) ==
  /\ Admitted(p)
  /\ Arrive(c, p)
  /\ known' = [known EXCEPT ![c] = settlements[p.id] # None]
  /\ Goto(c, "check")
  /\ UNCHANGED <<cfg, settlements, index, world, resp, told, harvested, walk, faults>>

(* handleSettle begins: network and envelope come first.                   *)
HandleSettle(c, p) ==
  /\ Admitted(p)
  /\ Arrive(c, p)
  /\ known' = [known EXCEPT ![c] = settlements[p.id] # None]
  /\ Goto(c, "lookup")
  /\ UNCHANGED <<cfg, settlements, index, world, resp, told, harvested, walk, faults>>

(* GetSettlement: a key that settled is answered from the store; a failed  *)
(* read counts as none.  A payload without a key is refused by the check   *)
(* and is not among the payments.                                          *)
Lookup(c) ==
  LET stored == settlements[req[c].id] IN
  /\ phase[c] = "lookup"
  /\ \/ stored # None /\ Goto(c, "harvest") /\ resp' = [resp EXCEPT ![c] = stored] /\ NoFault
     \/ stored = None /\ Goto(c, "check") /\ UNCHANGED resp /\ NoFault
     \/ Goto(c, "check") /\ UNCHANGED resp /\ Fault(c)
  /\ UNCHANGED <<cfg, settlements, index, world, req, told, harvested, walk>>

(* checkAny; a deposit is looked up at dcrdata, which may not answer.      *)
Check(c) ==
  /\ phase[c] = "check"
  /\ \/ checkAny(req[c]) /\ Goto(c, "notarize") /\ NoFault
     \/ ~checkAny(req[c]) /\ Goto(c, "reply") /\ NoFault
     \/ req[c].method = "onchain" /\ Goto(c, "reply") /\ Fault(c)
  /\ UNCHANGED <<cfg, settlements, index, world, req, resp, told, harvested, walk>>

\* A faulty store that keeps the notarization written last.
SettleOverwrites(p) == p

(* Store.Settle: the row that is there wins over the one presented.        *)
Settle(p) == IF settlements[p.id] = None THEN p ELSE settlements[p.id]

(* One transaction; when it fails the payer is told so.                    *)
Notarize(c) ==
  LET p == req[c] IN
  /\ phase[c] = "notarize"
  /\ \/ /\ settlements' = [settlements EXCEPT ![p.id] = Settle(p)]
        /\ resp' = [resp EXCEPT ![c] = Settle(p)]
        /\ Goto(c, "harvest")
        /\ NoFault
     \/ Goto(c, "reply") /\ UNCHANGED <<settlements, resp>> /\ Fault(c)
  /\ UNCHANGED <<cfg, index, world, req, told, harvested, walk>>

-----------------------------------------------------------------------------
(* The index *)

(* PutResource: an upsert by URL and tool name.                            *)
PutResource(e, type) ==
  index' = [x \in DOMAIN index \cup {e} |-> IF x = e THEN type ELSE index[x]]

(* harvestBazaar: what a settled payment's echoed extension may catalog.   *)
Harvestable(p) ==
  /\ cfg.discovery
  /\ p.ext # None /\ p.url # None
  /\ p.ext.valid /\ p.ext.type \in {"http", "mcp"}
  /\ p.ext.type = "mcp" => p.ext.tool # 0

HarvestEntry(p) == [url |-> p.url, tool |-> IF p.ext.type = "mcp" THEN p.ext.tool ELSE 0]

(* The resource is catalogued before the answer goes out, replay or not;   *)
(* a failed write is reported and does not undo the settlement.            *)
Harvest(c) ==
  LET p == req[c] IN
  /\ phase[c] = "harvest"
  /\ Goto(c, "reply")
  /\ \/ /\ Harvestable(p)
        /\ PutResource(HarvestEntry(p), p.ext.type)
        /\ harvested' = harvested \cup ({HarvestEntry(p)} \ DOMAIN index)
        /\ NoFault
     \/ ~Harvestable(p) /\ UNCHANGED <<index, harvested>> /\ NoFault
     \/ Harvestable(p) /\ UNCHANGED <<index, harvested>> /\ Fault(c)
  /\ UNCHANGED <<cfg, settlements, world, req, resp, told, walk>>

(* The answer is written.                                                  *)
Reply(c) ==
  /\ phase[c] = "reply"
  /\ told' = IF resp[c] = None THEN told
             ELSE [told EXCEPT ![req[c].id] = @ \cup
                     {[transaction |-> resp[c].id, network |-> resp[c].network, amount |-> resp[c].amount]}]
  /\ Goto(c, "idle")
  /\ req' = [req EXCEPT ![c] = None]
  /\ resp' = [resp EXCEPT ![c] = None]
  /\ known' = [known EXCEPT ![c] = FALSE]
  /\ UNCHANGED <<cfg, settlements, index, world, harvested, walk, faults>>

SubmitType(s) == IF s.type = "" THEN "http" ELSE s.type
SubmitEntry(s) == [url |-> s.url, tool |-> IF s.ext = None THEN 0 ELSE s.ext.tool]

(* toResource: what a submission must be.                                  *)
toResource(s) ==
  /\ s.accepts
  /\ SubmitType(s) \in {"http", "mcp"}
  /\ UrlKind[s.url] \in {"web", "mcp"}
  /\ s.ext # None => s.ext.valid /\ s.ext.type = SubmitType(s)
  /\ SubmitType(s) = "mcp" /\ SubmitEntry(s).tool = 0 => UrlKind[s.url] = "mcp"

(* gatedSubmit: open to all, or to those with a key.                       *)
SubmitAdmitted(s) == cfg.public \/ (cfg.keys /\ s.keyed)

(* handleSubmit begins; an invalid submission is turned away.              *)
HandleSubmit(c, s) ==
  /\ cfg.discovery /\ SubmitAdmitted(s)
  /\ toResource(s)
  /\ Arrive(c, s)
  /\ Goto(c, "full")
  /\ UNCHANGED <<cfg, settlements, index, world, resp, known, told, harvested, walk, faults>>

\* A faulty limit that is met one entry late.
IndexFullLate(e) == Cardinality(DOMAIN index) > cfg.maxResources /\ e \notin DOMAIN index

(* indexFull: a new entry in an index that has reached its limit.          *)
indexFull(e) == Cardinality(DOMAIN index) >= cfg.maxResources /\ e \notin DOMAIN index

(* The index is counted; a failed read counts as room.                     *)
CheckFull(c) ==
  /\ phase[c] = "full"
  /\ \/ indexFull(SubmitEntry(req[c])) /\ Freed(c) /\ NoFault
     \/ ~indexFull(SubmitEntry(req[c])) /\ Goto(c, "put") /\ UNCHANGED req /\ NoFault
     \/ Goto(c, "put") /\ UNCHANGED req /\ Fault(c)
  /\ UNCHANGED <<cfg, settlements, index, world, resp, told, harvested, walk>>

Put(c) ==
  /\ phase[c] = "put"
  /\ \/ PutResource(SubmitEntry(req[c]), SubmitType(req[c])) /\ NoFault
     \/ UNCHANGED index /\ Fault(c)
  /\ Freed(c)
  /\ UNCHANGED <<cfg, settlements, world, resp, told, harvested, walk>>

-----------------------------------------------------------------------------
(* Reading the index *)

\* A faulty clamp without the upper end.
ClampLow(limit) == IF limit <= 0 THEN cfg.maxPage ELSE limit

clampPageSize(limit) == IF limit <= 0 \/ limit > cfg.maxPage THEN cfg.maxPage ELSE limit

(* The order of the list: by URL, then by tool name.                       *)
Before(a, b) == a.url < b.url \/ (a.url = b.url /\ a.tool < b.tool)

Rank(e) == Cardinality({x \in DOMAIN index : Before(x, e)})

(* filterResources without a filter: every entry, each after those that    *)
(* come before it.                                                         *)
filterResources ==
  [i \in 1 .. Cardinality(DOMAIN index) |-> CHOOSE e \in DOMAIN index : Rank(e) = i - 1]

\* A faulty page that leaves its first item out.
PaginateSkips(rs, offset, limit) ==
  LET last == IF offset + limit < Len(rs) THEN offset + limit ELSE Len(rs)
  IN  SubSeq(rs, offset + 2, last)

(* paginate: at most limit items from the offset on, none beyond the end.  *)
paginate(rs, offset, limit) ==
  LET last == IF offset + limit < Len(rs) THEN offset + limit ELSE Len(rs)
  IN  SubSeq(rs, offset + 1, last)

(* handleListResources, asked for the next page of the walk.               *)
ListPage(w) ==
  LET page == paginate(filterResources, w.offset, w.limit)
      next == w.offset + Len(page)
  IN  walk' = [w EXCEPT !.offset = next, !.got = @ \cup Range(page),
                        !.at = IF page # <<>> /\ next < Len(filterResources)
                               THEN "page" ELSE "end"]

StartWalk(limit) ==
  /\ cfg.discovery
  /\ walk.at = "start"
  /\ ListPage([NoWalk EXCEPT !.limit = clampPageSize(limit), !.must = DOMAIN index])
  /\ UNCHANGED <<cfg, settlements, index, world, conns, told, harvested, faults>>

NextPage ==
  /\ walk.at = "page"
  /\ ListPage(walk)
  /\ UNCHANGED <<cfg, settlements, index, world, conns, told, harvested, faults>>

-----------------------------------------------------------------------------
(* The world, and restarts *)

(* A transaction is seen, then mined deeper; without the on-chain method   *)
(* nobody looks.                                                           *)
Deepen(t) ==
  /\ cfg.onchain
  /\ depth[t] < MaxDepth
  /\ depth' = [depth EXCEPT ![t] = @ + 1]
  /\ UNCHANGED <<cfg, settlements, index, expired, conns, told, harvested, walk, faults>>

Expire(p) ==
  /\ p.method = "lightning" /\ CheckEnvelope(p) /\ p \notin expired
  /\ expired' = expired \cup {p}
  /\ UNCHANGED <<cfg, settlements, index, depth, conns, told, harvested, walk, faults>>

(* The process ends and starts: requests under way are never answered.     *)
Restart ==
  /\ faults < MaxFaults
  /\ faults' = faults + 1
  /\ phase' = [c \in Conn |-> "idle"]
  /\ req' = [c \in Conn |-> None]
  /\ resp' = [c \in Conn |-> None]
  /\ known' = [c \in Conn |-> FALSE]
  /\ UNCHANGED <<cfg, settlements, index, world, told, harvested, walk>>

-----------------------------------------------------------------------------
Handle(c) ==
  \/ Verify(c) \/ Vouch(c) \/ Lookup(c) \/ Check(c) \/ Notarize(c) \/ Harvest(c) \/ Reply(c)
  \/ CheckFull(c) \/ Put(c)

Next ==
  \/ \E c \in Conn : Handle(c)
  \/ \E c \in Conn, p \in Payment : HandleVerify(c, p) \/ HandleSettle(c, p)
  \/ \E c \in Conn, s \in Submission : HandleSubmit(c, s)
  \/ \E limit \in 0 .. cfg.maxPage + 1 : StartWalk(limit)
  \/ NextPage
  \/ \E t \in Tx : Deepen(t)
  \/ \E p \in Payment : Expire(p)
  \/ Restart

Spec == Init /\ [][Next]_vars

(* The atoms the outputs of a transaction pay to an address.               *)
AtomsTo(t, to) ==
  LET paying == {i \in DOMAIN Outputs[t] : Outputs[t][i].to = to}
  IN  SumFunction([i \in paying |-> Outputs[t][i].atoms])

(* Deposits of exactly the amount.                                         *)
Exact == {p \in Deposit : AtomsTo(p.id, p.payTo) = p.amount}

(* The server runs its handlers, blocks are found, and whoever paid the    *)
(* exact amount presents the deposit again and again.                      *)
FairSpec ==
  /\ Spec
  /\ \A c \in Conn : WF_vars(Handle(c))
  /\ \A t \in Tx : WF_vars(Deepen(t))
  /\ \A p \in Exact : SF_vars(\E c \in Conn : HandleSettle(c, p))

-----------------------------------------------------------------------------
(* Properties *)

(* What makes a payment good: on the chain, that the outputs to the        *)
(* address are exactly the amount and deep enough; over Lightning, that    *)
(* the preimage belongs to an invoice for exactly the amount, payable to   *)
(* the address.  An amount nobody can own is left out: the product of      *)
(* rule 6 may wrap there.                                                  *)
Good(p) ==
  \/ /\ p.method = "onchain"
     /\ AtomsTo(p.id, p.payTo) = p.amount
     /\ depth[p.id] >= RequiredConfs(p)
  \/ /\ p.method = "lightning" /\ p.preimage
     /\ p.invoice.id = p.id /\ p.invoice.dest = p.payTo
     /\ p.amount > Supply \/ p.invoice.mAtoms = p.amount * Milli

(* The facilitator vouches only for good payments: what /verify calls      *)
(* valid and every row of the settlements table, whoever wrote it and      *)
(* whatever was presented for the same key at the same time, is a payment  *)
(* of exactly the amount to the address that the payer says it accepted    *)
(* (verify.go).  Whether that is what was offered is OfferIsMet.           *)
NotarizedIsPaid ==
  /\ \A c \in Conn : phase[c] \in {"valid", "notarize"} => Good(req[c])
  /\ \A k \in Key : settlements[k] # None => Good(settlements[k])

\* What the resource server offered is on the chain.
MeetsOffer(p) ==
  p.method = "onchain" => AtomsTo(p.id, p.offered.payTo) = p.offered.amount

(* The same against the offer: the comment of checkOnchain says that it    *)
(* "verifies against the requirements the resource server offered".        *)
OfferIsMet ==
  /\ \A c \in Conn : phase[c] \in {"valid", "notarize"} => MeetsOffer(req[c])
  /\ \A k \in Key : settlements[k] # None => MeetsOffer(settlements[k])

(* All successful answers for one payment hash or transaction are the      *)
(* same, across retries, concurrent presentations and restarts             *)
(* (Store.Settle: later calls return the stored response).                 *)
AnswersAgree ==
  \A k \in Key : \A a, b \in told[k] : a = b

(* A payer who lost the first answer gets it on every retry, even after    *)
(* the invoice expired: a request whose key was notarized when it arrived  *)
(* is not refused unless the store fails it (verify.go, settle).           *)
ReplayIsServed ==
  \A c \in Conn : phase[c] = "reply" /\ known[c] => resp[c] # None

(* Submissions overrun the limit of the index by no more than the other    *)
(* handlers that counted it at the same time, and by the counts that       *)
(* failed; what settled payments catalogue is not limited                  *)
(* (discovery.go, indexFull).                                              *)
IndexBounded ==
  Cardinality(DOMAIN index \ harvested) <= cfg.maxResources + Cardinality(Conn) - 1 + faults

(* A reader who walks the whole list while it changes misses nothing that  *)
(* was indexed when it began: entries are never removed and the order      *)
(* depends on the key alone (discovery.go, filterResources, paginate).     *)
WalkMissesNothing ==
  walk.at = "end" => walk.must \subseteq walk.got

(* A deposit the service can check.                                        *)
Payable(p) ==
  /\ cfg.onchain /\ Admitted(p) /\ p.formed /\ p.amount > 0
  /\ RequiredConfs(p) <= MaxDepth

(* A transaction that pays exactly what somebody accepted is notarized in  *)
(* the end, however late it is presented and however deep it is by then,   *)
(* and as a payment that it is: the row is one of the exact readings, the  *)
(* only one if there is no other (checkOnchain, Store.Settle).             *)
TransactionNotarized ==
  \A p \in Exact :
    Payable(p) ~> settlements[p.id] \in {q \in Exact : q.id = p.id /\ Payable(q)}

-----------------------------------------------------------------------------
(* The inductive invariant behind the safety properties *)

\* A handler has the request its place in the code is about.
Serving ==
  \A c \in Conn :
    /\ phase[c] \in {"verify", "valid", "lookup", "check", "notarize", "harvest", "reply"} =>
         req[c] \in Payment
    /\ phase[c] \in {"full", "put"} => req[c] \in Submission /\ toResource(req[c])

StateInv == TypeOK /\ Serving /\ IsFiniteSet(DOMAIN index)

\* A successful answer is what the table says, and the table does not change it.
Answer(p) == [transaction |-> p.id, network |-> p.network, amount |-> p.amount]

Answered ==
  /\ \A c \in Conn : phase[c] = "harvest" => resp[c] # None
  /\ \A c \in Conn : resp[c] # None =>
       phase[c] \in {"harvest", "reply"} /\ resp[c] = settlements[req[c].id]
  /\ \A k \in Key : \A a \in told[k] : settlements[k] # None /\ a = Answer(settlements[k])

Replayed ==
  \A c \in Conn : known[c] =>
    /\ phase[c] \in {"lookup", "harvest", "reply"}
    /\ settlements[req[c].id] # None
    /\ phase[c] = "reply" => resp[c] # None

\* Submissions that were let through and will add an entry.
Pending == {c \in Conn : phase[c] = "put" /\ SubmitEntry(req[c]) \notin DOMAIN index}

RoomLeft ==
  Cardinality(DOMAIN index \ harvested) + Cardinality(Pending) <=
    cfg.maxResources + Cardinality(Conn) - 1 + faults

\* What the reader must still get lies ahead of it.
WalkAhead ==
  /\ walk.at = "page" => \A e \in walk.must \ walk.got : Rank(e) >= walk.offset
  /\ WalkMissesNothing

BazaarInv == StateInv /\ Answered /\ Replayed /\ NotarizedIsPaid /\ RoomLeft /\ WalkAhead

=============================================================================
