# dcr402 verification

TLA+ models of dcr402: the payment gate a seller embeds or runs as a gateway,
its challenge store and credit ledger, the tokens it issues, the agent that pays
on a buyer's behalf under a spending policy with its paying HTTP client and its
Bison Relay channel, and the Bazaar facilitator. TLC checks the models on small instances, and
TLAPS proves every safety property of the passing runs for every value of the constants.

`PROJECT.json` lists the components, the runs, the source lines each definition
translates, the hazards the properties are aimed at, the findings and the
theorems. This file explains them.

## The system

| component | state | operations |
|---|---|---|
| gate (`lib`) | none of its own; everything is in the store and the ledger | build a challenge (call, top-up), verify and settle a proof, authorize a token, charge a credential, grant credits |
| gate store (`lib/store`) | challenges by payment hash, on-chain challenges by address, consumed proofs, root keys | insert-if-absent, settle once, delete a root key |
| ledger (`lib/ledger`) | accounts, grants by reference, charges with a unique (account, key) index | Grant, Charge, Balance |
| gateway (`gateway`) | route table, price tables resolved at start | puts the gate in front of HTTP and MCP upstreams, per call or on credits |
| dcrlnd backend (`lib/dcrlnd`) | the node's invoices and the wallet's deposits (external) | create and look up an invoice, new address, look up a deposit |
| L402 tokens (`lib/l402`) | none | mint, attenuate, verify |
| payment service (`agent`) | `payMu`, the freeze row | pay_ln_invoice, pay_dcr_address, fetch_paid, freeze, unfreeze |
| approval registry (`agent/approve`) | approvals table, map of continuations | Escalate, Resolve, the expiry loop |
| policy (`agent/policy`) | the loaded policy | Parse, Evaluate, Reload |
| agent store (`agent/store`) | attempts, payments, tokens, approvals, key-value state | record, Usage, resolve, expire |
| paying client (`agent/payclient`) | token cache (in the agent store) | FetchPaid, Estimate |
| rails (`agent/rails`) | the node and the wallet (external) | Pay, Send |
| channels (`agent/approve/bisonrelay`, `agent/web`) | last acknowledged message | yes, no, freeze, unfreeze |
| bazaar (`bazaar`) | consumed proofs, index of resources | verify, settle, submit, list |
| encodings (`lib/x402` and extensions), MCP server, configuration, commands | none | |

How they interact. A client's request reaches the gate directly or through the
gateway. The gate reads the challenge store and the node to verify a proof,
consumes it in the store, and then either runs the handler or credits the
ledger. Store and ledger are two databases: nothing is atomic across them. On
the buyer's side every tool call takes `payMu`, reads the freeze row and the
policy, pays on a rail and records the payment. A payment above the threshold
is parked; its continuation lives in memory only, and the owner's verdict comes
from another goroutine (Bison Relay or the dashboard), which does not hold
`payMu`. The expiry loop is a third actor. The relay client numbers the owner's
messages and delivers again whatever was not acknowledged. The paying client
speaks to merchants it does not trust. The facilitator answers sellers who did
not issue their challenges through it, from connections that run concurrently.

What is hard here: requests that present one proof at the same time; a restart,
an error or a lost answer between two databases; a credential that is minted
before it is paid; two rails for one account; a conditional debit inside a
transaction that can fail at each statement; a verdict that races the call that
asked for it, the expiry sweep, and a restart; commands that are delivered twice
and may be half applied; a merchant that lies in its challenge or keeps the
money; several readings of one transaction, one path or one tool call; state that is checked before the
approval and used after it (quote, policy, usage, freeze); the limits of a day
that end between the check and the record.

What makes each part correct, in a sentence:

* gate: a payment is received once, buys at most one run of a tool it covers,
  and is credited at most once and for exactly its amount; what was paid is
  served or credited in the end;
* ledger: its transactions are atomic, and no atom appears or disappears;
* agent: a tool call moves money at most once, only with approval where approval
  is needed, never above what was approved, and within the budget;
* relay channel: no command is acknowledged before it took effect, only the owner
  decides, and replay never takes the kill switch back past a later command;
* paying client: it pays only what policy and caller ruled on, books every
  payment it saw, and pays a site once for as long as the site honours it;
* facilitator: it vouches only for good payments, and gives one answer per payment;
* gateway and tokens: nothing priced runs unpaid, and a holder who appends
  caveats to a credential never widens it.

## Modules

| module | models | extends |
|---|---|---|
| `Ledger` | the ledger's contract, each operation one step | |
| `LedgerSQLite` | `lib/ledger/sqlite.go`, statement by statement | `Ledger` |
| `Store` | `lib/store`, each operation one step | |
| `PaidOnce` | the abstract promise about a payment | |
| `Gate` | the gate and the gateway's two modes, over `Store` and `Ledger` | `Store`, instance of `Ledger` and `PaidOnce` |
| `Policy` | `Evaluate` and `Usage` | |
| `Spend` | the payment service and the approval registry | `Policy` |
| `Relay` | the Bison Relay channel and the dashboard's writes | |
| `PayClient` | `FetchPaid`, its credential cache, and the booking of its payments | |
| `Bazaar` | `/verify`, `/settle` and the discovery index | |
| `L402` | caveats, attenuation and verification of a token | |
| `Gateway` | routes, prices, the HTTP and the MCP handler, credentials in circulation | `L402` |
| `MCGate`, `MCSpend`, `MCRelay`, `MCPayClient`, `MCBazaar`, `MCGateway` | values for the constants | |
| `SumTheorems` | laws of sums over finite sets | |
| `GateProofs`, `LedgerProofs`, `SpendProofs`, `RelayProofs`, `PayClientProofs`, `BazaarProofs`, `GatewayProofs` | theorems, one module for each component | the component, `SumTheorems` where it adds up |

Operators whose comment calls them faulty (`GrantTwice`, `SweepRegistered`, ...)
are plausible bugs. No action uses them; each is substituted for the definition
that follows it to confirm that a property notices.

### Gate

A request slot is a small program: `PresentProof` (verification, up to the call
of `Store.Settle`), `Settle`, then `ServeProof` for a tool or `GrantCredits` for
a top-up; `PresentToken` and `ServeToken`; `PresentCredit`, `ChargeCredential`
and `ServeCredit`. Between two steps other requests run, the process may restart
(`Restart`), or the step may fail (`Fail`). The Boolean `delivered` says whether
the answer with the credential reached the buyer. `Revoke` deletes a root key.

The variables `challenge`, `onchain`, `settled` and `rootKey` are the tables of
the store; `balance`, `grants`, `keyed` and `charged` those of the ledger.
`paid`, `wallet`, `offered` and `known` are the world: settled invoices,
deposits, what the buyers were offered, and which credentials they hold the
preimage of. `executed`, `tokenRuns` and `creditRuns` record what was served.

Abstractions: a proof is its payment hash, or a transaction and an address; a
credential is the hash or address it was minted for; the account of a top-up is
the hash of its Lightning invoice. Matching the echoed requirements field by
field is the membership in `offered`. Invoices are paid before they expire, as
the node enforces. A transaction pays one address, with one amount; the sum that
`LookupDeposit` forms over outputs is in `Bazaar`, which has the same one. A
challenge fails before it is stored (`ChallengeFails`) or, for a top-up, after the
Lightning entry was and before the on-chain entry is (`TopupFails`).

### LedgerSQLite

A call waits for the only connection (`Invoke`, `BeginTx`), runs its statements
on a private view `tx` of the tables, and commits. `Rollback` is any error and
`Crash` the end of the process. The variables of `Ledger` are the committed
tables, so `AtomicLedger` is the refinement itself: every change of them is a
`Grant` or a `ChargeDebit` of `Ledger`. This is what justifies the atomic ledger
inside `Gate`.

### Spend

A job is one tool call. It has two threads, the call and the continuation its
approval starts. `Lock` takes `payMu` and checks the freeze switch,
`EvaluateAndRecord` is the policy gate, `Pay`/`PayUnseen`/`Abort` are the outcomes
of a rail, `RecordPayment` writes the books. `CreateApproval`,
`RegisterContinuation`, `Notify` and `RejectUnreachable` are the steps of
`Escalate`. `Resolve` and `TakeContinuation` are the two halves of a verdict:
the row is won first, the continuation is looked up after. `SweepSelect`,
`SweepUpdate` and `SweepDrop` are the expiry loop, with updates that may fail
half way. A verdict carries a clock reading up to `Delay` old.

Time is a counter on which an hour, a day and a week start at multiples of their
lengths. The clock stops at `MaxTime` unless an approval is still pending.

### Relay

`Consume` is the goroutine of `bisonrelay.go`, cut at its calls: it opens the
stream from the saved number, receives a message, throws the switch, resolves
the ids the reply names one by one until one wins, acknowledges, and saves the
acknowledgement. `Failure` is the failure of the call it is at, after which the
loop reconnects; `Restart` loses all but the store's rows. `ackSeq` is the number
in memory, `ackRow` the saved one, `serverAck` what the relay client holds;
`cursor` is how far this stream has delivered. `WebResolve` and `WebSwitch` are the
dashboard, `Escalate` and `Expire` the agent, both in between. A message is what
parsing leaves of it: who sent it, its first word, whether a freeze or a block
word follows, and the ids it names. The same commands act on payments in `Spend`.

### PayClient

One fetch `f` at a time, under `payMu`: `Start`, `Send` with the cached credential
or `SendBare`, `DropToken` after a refusal, `Parse` of either envelope with its
cross-checks, `Gate` (guard and policy), `Pay`, `Present`, `Cache`, `Record`, and the
error exits (`PayError`, `PresentError`). An honest merchant sells at its price
and serves what it issued and has not dropped; any other answers anything. A
credential is its site and the payment that bought it. `Milli` stands for the
1000 milli-atoms of an atom and `Wrap` for 2^64, so that a product that wraps is
inside the instance.

### Bazaar

Each connection runs one handler, cut where it calls the store or the chain:
`Lookup`, `Check`, `Notarize`, `Harvest` and `Reply` for settle, the check alone for
verify, `CheckFull` and `Put` for submit. `StartWalk` and `NextPage` are a reader of
the list, `Deepen` and `Expire` the chain and the invoices' clock. `settlements` and
`index` are the two tables. A payment is a record with what the checks read: the
transaction or hash, the address and the amount it claims, the invoice behind
it, whether the fields are well formed. `offered` is what the resource server asked
for, which no check reads. The chain does not undo what was seen. Payloads without
a transaction id or a hash are left out: they have no key and are refused.
`Restart` keeps the tables, as the SQLite store does; a facilitator configured
without one forgets them.

### L402 and Gateway

The HMAC chain of a token is a term that names the root key and the caveats it
was computed over: it can be extended without the key and not shortened. A
caveat is a record of its condition, service and value. `Delegate` appends one
to a credential in circulation. A path is the sequence of what stands between
its slashes; `ServedBy` is net/http's ServeMux (external) and `upFor` the prefix
search of the challenge. `HttpFree`, `HttpCredits`, `HttpToken`, `HttpProof`,
`HttpChallenge`, `McpForward`, `McpCredits` and `McpProof` are the ways through the two
handlers, each whole; what the gate and the ledger do step by step is in `Gate`
and `LedgerSQLite`. `Restart` resolves the price tables again: two configured
keys that normalise to one leave either price, as Go's map order does. The
upstream is assumed to clean paths.

A message has its "method", "params" and "name" members in order, any of them
repeated, absent or spelled in another case. A `Reader` takes the first or the
last of the members it matches, and matches exactly or in any case. The gateway
is `GoReader`, the last in any case, and `duplicateKey` counts exact spellings, as the
code does. An upstream may have any reader (`Outcomes`), and what it executes is what
that reader finds. A message is `Clear` to an upstream that reads as the gateway
does, or when all its keys are spelled exactly and at most the name is repeated,
the case `duplicateKey` is for. A batch with a tool call in it is refused.

## Runs

Passing runs:

| run | checks | instance |
|---|---|---|
| `gate` | `ProofRunsOnce`, `RunsArePaid`, `CreditsArePaid`, `CredentialsArePaid`, `Solvent`, `WorkIsCharged`, `PromiseKept` | one challenge at a time, for a tool or for a top-up of either amount on both rails, one transaction; two requests; credit calls with and without a key; one restart |
| `gate_live` | `DepositCredited`, `TopupCredited`, `PaidCallServed` | a tool sold over HTTP, one behind MCP, and a top-up on both rails; one transaction, requests one after the other, errors and a restart |
| `ledger` | `AtomicLedger`, `Conserved`, `AnswersAreDurable`, `CallsReturn` | two callers that compete for the connection, two accounts, two references, one key |
| `spend` | `PaidAtMostOnce`, `OnlyApprovedPay`, `CeilingHolds`, `BudgetHolds` | a direct payment and a fetch, two amounts, two policies that are switched at any time, verdicts stamped one tick before they arrive, failing reads and writes, midnight on every tick, one restart |
| `spend_live` | `ApprovalsEnd`, `ThreadsEnd` | two calls that need approval, a restart |
| `relay` | `NoCommandLost`, `RepliesDecide`, `VerdictsAreTheOwners`, `SwitchFollowsLatest`, `MessagesHandled`, `TypeOK` | two approvals, two messages, two failed calls, one restart, one click on the dashboard |
| `payclient` | `PaidAsRuled`, `ReceiptKept`, `RepeatIsFree`, `TypeOK` | three fetches of three sites, two of them behind one host name and one of those dishonest; one error, one restart |
| `bazaar` | `NotarizedIsPaid`, `AnswersAgree`, `ReplayIsServed`, `IndexBounded`, `WalkMissesNothing`, `TransactionNotarized`, `TypeOK` | two connections, one transaction with three readings, two Lightning proofs, two configurations, one failed call, restarts |
| `gateway` | `AttenuationNarrows`, `AdvertisedIsServing`, `PricedWorkIsPaid` | five upstreams, ten paths, fourteen message bodies, four readers, a credential attenuated twice with any of three caveats |

Bounds. Two requests or callers are enough for a race: every race in this code is
between two holders of one proof, one account or one approval, and the theorems
cover any number. Liveness of the gate is checked with one request at a time:
what it is about is an error or a restart between two steps. Times are as short as they can be while an expiry, and
for budgets the end of a day and of an hour, still falls inside a behaviour.
One restart can fall between any two steps. Prices and amounts are 1, 2 and 3,
so that one covers another and two do not fit where one does. In `gate` the clock
stands still: an expiry only takes away what may be presented, and what it does to
what was paid is in `gate_live`. A second deposit to one address is left to the
theorems. Symmetry, of the two requests, is used in `gate` only.

In `relay`, two messages give every order of a command and its repetition, and two
failures let the second attempt fail as well. In `payclient`, the third fetch
meets what the first two left in the cache. In `bazaar`, the three readings claim
the same transaction for two addresses and amounts, depth 2 is enough for too
shallow, deep enough and deeper, and the two configurations are one that
notarizes and one whose index holds a single entry. In `gateway` the paths are those on
which prefix search, segments and cleaning could disagree, and one route without a
trailing slash lies next to two with one; in the bodies names are
repeated, respelled and missing, and methods repeated and missing. With the caveats it was minted with, two appended ones let
two of one condition stand around one of another. In `spend` the highest quote needs
approval under both policies, so that `CeilingHolds` bounds it by what was
approved. A verdict that is a tick old meets an approval that fell due in that tick
while the sweep selects, marks and drops it. The limit on the number of payments in
an hour does not bind in this instance, where one of the policies has none;
`BudgetIsKept` proves it with the others.

The runs of `Gate`, `Spend`, `Relay`, `PayClient` and `Gateway` do not check deadlock:
payments, restarts and calls are bounded, so the system stops when they are used
up. The ledger and the facilitator have no such bound and their deadlock is
checked.

Fairness. The gate: buyers who paid retry until they are answered, handlers
return, errors of the databases are not permanent (strong fairness of
presenting, settling and crediting a proof) and blocks keep coming. The ledger:
database/sql hands a freed connection to the waiter, and a statement returns. The
agent: a Go mutex goes to a goroutine that waits long enough, a thread that holds
it goes on where it waits for nobody or for a merchant, who is called with a timeout,
and the daemon's expiry loop runs on a ticker and does not fail for ever. Rails need not answer:
`Send` has no timeout (`agent/rails/onchain/onchain.go:131`), and a continuation runs
without a context that ends (`agent/approve/approve.go:164`). `ThreadsEnd` therefore says that every
thread ends if the rails answer (`RailsAnswer`); a rail that does not keeps `payMu`
and stops every later payment. The relay channel: the
goroutine loops for ever and reconnects after an error, and errors are finitely
many. The facilitator: handlers run, blocks keep coming, and a payer who sent
the exact amount keeps presenting it. Nothing is assumed of the owner, of payments, of restarts or of revocations.

Violated runs. Each states a sentence of the repository, and TLC shows a
behaviour of the code against it; `PROJECT.json` quotes the sentences.

| run | property | what happens |
|---|---|---|
| `spend_freeze` | `FreezeHalts` | an approved direct payment runs while frozen |
| `bazaar_offer` | `OfferIsMet` | a deposit of less than was offered is notarized, because the payer echoes the smaller amount |
| `gateway_readers` | `EveryReaderIsPaid` | a call with "name" and "Name" is priced as the free tool and runs the priced one at an upstream that knows one spelling |

Disagreements that have no run of their own, all reproducible from the modules:
a proof that ran a call is credited, once, at the top-up endpoint, although
`docs/security.md:63` calls a proof single-use (`PaidOnce` allows one run and one
credit); a proof minted for one MCP tool settles another of no higher price, against
`lib/mcp.go:81-82` (`RunsArePaid` compares prices); of two deposits in one transaction,
to two addresses, only one is notarized, because the key is the transaction alone
(`bazaar/verify.go:86`, and `bazaar/README.md:24`, against `docs/security.md:171`;
`TransactionNotarized` is what holds: the transaction gets a row, and the row is one of
its exact readings); a replay of a settlement catalogues what the replay echoes,
although `bazaar/service.go:117` says "On a fresh settlement"; a reply "yes a b" whose
acknowledgement is lost approves a, and b when it is delivered again, although
`bisonrelay.go:204` calls replay idempotent;
a restart after settlement loses a paid MCP call, whose replay is pointed to a
credential that the route does not read (`gateway/mcpgate.go:185`); a yes before
the continuation is registered is recorded and nothing runs, although
`docs/architecture.md:151-152` says that it does; a failed read of the freeze row reads as not frozen (`LockUnread`); an
approved direct payment is not evaluated again (`Lock`), so the owner's yes also
overrides a budget that is gone by then; a dashboard yes may win while the call
reports that no channel was reachable (`Notify`, `RejectUnreachable`); a payment
that settled behind an error is missing from the books (`PayUnseen`); a reload
that raises the threshold lifts the ceiling of an approved fetch
(`EvaluateAndRecord`); a replayed freeze or unfreeze undoes a later turn of the
switch on the dashboard (`SwitchFollowsLatest` leaves that case out); the message
to the owner holds the literal `<id>` (`bisonrelay.go:137`); the token cache is keyed
by host name without the port, so two sites on one host pay again whenever they
alternate; what
settled payments catalogue is not limited; a route without a trailing slash owns
one path, although `gateway/config.go:80` calls it a prefix; two price keys that
normalise to one leave either price, and a price key without a method matches
nothing. Where they belong to a hazard, its note says so.

## Proofs

Every invariant and every action property of a passing run is a theorem: TLC
shows it on an instance, TLAPS for any number of requests, connections, accounts,
messages, policies, routes and caveats. Each follows from an inductive invariant
that is defined in the component's module next to the properties (for the gateway,
in `GatewayProofs`), so that TLC can check it too.

Assumptions are those on the constants, named in the modules that declare them,
and TLC evaluates them in every run: special values are outside the sets they
mark, prices and amounts are positive, the rails' names are disjoint. The
facilitator's connections are finite and its configurations validated, as `New`
does; the products of an atom amount within the supply do not wrap; a transaction's
outputs have amounts. Routes are distinct, as ServeMux demands of its patterns, and
routes and paths begin with a slash; a request has a method; what is not a
batch is one message.

**Gate** (`GateProofs`). `ProofRunsOnce` is not inductive: it says nothing of a
request that has won `Store.Settle` and not yet run the handler. `GateInv` adds
`OneRunner` (at most one such request per proof, and nothing ran for it yet),
`RunsWereSettled` and `GrantsWereSettled` (what was served or credited was
consumed before), `ProofRequests` (what a request verified still holds when it
uses it, because challenges are never replaced and payments never undone) and
the facts that tie credentials and settlements to payments. `Spec => []GateInv`
is `GateInvariant`; `ProofRunsAtMostOnce`, `EveryRunIsPaid`, `EveryCreditIsPaid`,
`EveryCredentialIsPaid` and `GateTypeOK` follow from it. `MoneyInv` adds the two sums,
`Solvent` and `WorkIsCharged`, and that what they add up is finite: a grant adds
one term, a debit moves its price from the balance to the charges and from there to
the requests that work, and every other step leaves the terms alone.
`GateKeepsPromise` is the refinement of `PaidOnce`: `ServeProof` is its run,
`GrantCredits` its credit, a payment and a confirmation its receipt, and every
other action a stutter under the mapping.

**Ledger** (`LedgerProofs`). `SQLiteInv` says that the holder of the connection is
the one caller with an open transaction, and how far its view `tx` is from the
committed tables at each statement. With it every `Commit` is a step of the
atomic ledger and every other step leaves the tables alone: `LedgerIsAtomic`.
`NothingIsLost` needs no more than the atomic steps, each of which keeps the
balance and the charges of an account equal to its grants. `DurableInv` adds that a call has its record
in the view before it commits and in the tables before it is answered, from
which `AnswersSurvive`.

**Agent** (`SpendProofs`). `SpendInv` orders the life of a job: the call pays only
if it never escalated (`CallFirst`), a continuation is registered once by its
call (`Registered`) and started once, by the yes that won (`StartedOnce`), and
no money moved before it pays (`ContUnpaid`). `SpendsAtMostOnce` and
`OnlyApprovedSpends` follow, for any number of jobs, restarts and reloads.
`LimitInv` is about money: a thread between the check and the record holds `payMu`
(`Holding`), a continuation on its way to the rail has an amount within its
ceiling (`CapInv`), and a thread that passed the budget check still has room for
its payment, in the periods the clock is in by then (`BooksInv`). The last holds
because the holder of `payMu` is the only one who records, and because a period
that ends empties the books of the next one: the payments of a later day, week or
hour are among those that were counted, or none (`NextPeriod`, `RoomTicks`). `BudgetIsKept` and
`CeilingIsKept` follow. The ceiling is stated with the exception the code has: a
fetch whose new quote the policy in force does not ask about is paid as quoted.

**Relay** (`RelayProofs`). `RelayInv` places the acknowledgement the client holds, the
two the agent keeps and the cursor of the stream: at most one message beyond the
acknowledged ones was applied, and it is the one `consume` is at
(`Acknowledged`, `StreamPosition`). What a message still has to resolve is what it
names and has not tried. The four properties follow for any number of messages, failures, clicks and
restarts.

**Paying client** (`PayClientProofs`). `PayClientInv` says what a fetch may rely on at
each step: what is handed to the gate and the node was held against the guard and
the truncated amount (`Ruled`), and a fetch past its payment holds the receipt of the last one
(`HoldsReceipt`). `RepeatIsFree` counts: `AccessInv` says that every payment to an
honest site but one was followed by a lapse, an error or a restart, where the one
is what gives the client its access now (`HasAccess`), in the cache, on its way there, or about to be issued.

**Facilitator** (`BazaarProofs`). `BazaarInv` has a conjunct for each property. The
settlements table does not change what it once holds, so an answer that was given is the
one given later (`Answered`, `Replayed`); a check that passed stays true, because
the chain only deepens and only the Lightning check reads the clock; a
submission that was let through reserves an entry (`RoomLeft`); and what a reader
still has to get lies at or beyond its offset, because entries are never removed
and an entry's rank in the list only grows (`WalkAhead`). Two lemmas relate code
to meaning: the loop over a transaction's outputs computes their sum (`AddUpIsSum`), and
the sorted list has each entry at its rank (`ListInOrder`).

**Gateway and tokens** (`GatewayProofs`). `GenuineInvariant` says that every
credential in circulation is a chain over its own caveats: a term that was
computed with the root key, extended any number of times. From it,
`AttenuationTheorem`: a credential derived by appending a caveat is accepted only
when the one it was derived from is. It rests on one lemma for each kind of
caveat (`ServicesNarrow`, `TimeNarrows`, ...), which compare the list of values of one
condition before and after the append. The statement is about one append; being true of every
credential that circulates, it chains. `TypeTheorem` adds that the account behind
a credential is never overdrawn. `ChallengeNamesServer` compares the two searches of
a route: on the paths in question both look at the same routes
(`PrefixIsMatch`), and of those that begin one path no two have the same length
(`LongestIsUnique`). `PricedWorkIsAlwaysPaid` goes through the handlers:
the price found under a request's key is one the configuration lists for that resource
(`HttpPriceIsAsked`), a call that is priced, if it is clear, is executed as the tool it was
priced as, since a reader finds the same member wherever there is one to find
(`OneReading`, `ClearRuns`), and a
credential that is accepted circulates, since one that lost a caveat has a
signature over more than it carries (`AcceptedIsHeld`).

**Sums** (`SumTheorems`). The sum of a function is the number of its units, pairs of an
element and a number up to its value, so that adding, removing and bounding terms
follow from theorems about cardinality. What would be an induction over numbers
is the lemma `UpTo`: if a step led out of a set below n, shifting by one would fit
a finite set into a smaller one.

The type invariants of `Gate`, `LedgerSQLite`, `Spend` and `Gateway` are proved and not
checked by a run; those of the other modules are both.

Only model-checked: the properties under fairness (`DepositCredited`, `TopupCredited`,
`PaidCallServed`, `CallsReturn`, `ApprovalsEnd`, `ThreadsEnd`, `MessagesHandled`,
`TransactionNotarized`), which are beyond this prover.

## Not modelled

Codecs and signatures (x402 headers, the binary form of macaroons, offers and
receipts), and the parsing of amounts and policy files: pure functions on
strings, with tests of their own. Configuration and commands, the MCP server of
the agent (an adapter without state) and the examples. Read-only operations: the
dashboard's pages, balance, info and status of the gateway, `Estimate`, search
filters, `/supported`. The dial guard, which depends on name resolution. The
injection of settlements into streamed answers. Power loss below SQLite, which
needs a model of its journal. Fees: budgets are defined over amounts. The
attempts table, which no decision reads. The components marked partly in
`PROJECT.json` say what of them is left.

## Plan

1. Done: `Ledger`, `LedgerSQLite`, `Store`, `Gate`, `PaidOnce`, `Policy`, `Spend`, `Relay`,
   `PayClient`, `Bazaar`, `L402`, `Gateway`, and the proofs of their safety properties.
2. That `Spend` implements an abstract promise of one approved payment per job, as
   `Gate` does `PaidOnce`.
3. Attenuation for a route that asks for a capability.
4. The parsing of amounts against a reference definition, if it is worth a module.
