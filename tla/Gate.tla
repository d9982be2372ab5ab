-------------------------------- MODULE Gate --------------------------------
(***************************************************************************)
(* The seller: the payment gate (src/lib), as embedded in a server or run  *)
(* by the gateway (src/gateway).  Concurrent requests present proofs or    *)
(* credentials; a proof is verified against the challenge store and the    *)
(* node, consumed once, and buys either one call of a priced tool or a     *)
(* credit on the ledger.  Credentials give token access, or name the       *)
(* account that credit-mode calls are charged to.                          *)
(*                                                                         *)
(* A request is split where the code calls the store or the ledger: the    *)
(* steps of different requests interleave there, the process may restart   *)
(* between any two of them, and the answer to the client may be lost.      *)
(* The Lightning node, the wallet and the buyer are external: they are     *)
(* modelled from how the gate's code uses them.                            *)
(***************************************************************************)
EXTENDS Store, Sequences, FiniteSets, Functions

CONSTANTS Req,           \* requests the server handles concurrently
          CallTool,      \* priced routes and tools sold per call
          McpTool,       \* the per-call tools behind an MCP upstream
          CreditTool,    \* priced routes and tools of credit-mode upstreams
          Price,         \* price of a tool, in atoms
          TopUp,         \* the top-up endpoint, as the target of a request
          TopUpAmount,   \* buyer-chosen amounts within the endpoint's limits;
                         \* none: a gate with no ledger, so no top-up endpoint
          IdemKey, NoKey, NoGrant,
          NoTx,          \* transaction unknown to the wallet
          Nobody,        \* request slot that holds no proof or credential
          Depth,         \* confirmations a deposit needs
          ChallengeTTL,  \* lifetime of a challenge and its invoice
          TokenTTL,      \* lifetime of a credential
          MaxTime,       \* bound: the clock stops here
          MaxRestarts    \* bound: restarts of the gate process

Tool == CallTool \cup CreditTool

TopUpEndpoint == IF TopUpAmount = {} THEN {} ELSE {TopUp}

ASSUME GateAssumption ==
  /\ McpTool \subseteq CallTool
  /\ CallTool \cap CreditTool = {}
  /\ TopUp \notin Tool
  /\ Price \in [Tool -> Nat \ {0}]
  /\ TopUpAmount \subseteq Nat \ {0}
  /\ Depth \in Nat /\ ChallengeTTL \in Nat /\ TokenTTL \in Nat
  /\ MaxTime \in Nat /\ MaxRestarts \in Nat
  /\ Nobody \notin Proof \cup Cred

VARIABLES
  balance, grants, keyed, charged,   \* the ledger
  now,          \* the gate's clock
  paid,         \* external: invoices the node reports SETTLED
  wallet,       \* external: deposits the wallet knows, by transaction id
  offered,      \* external: hashes and addresses of delivered 402s
  known,        \* external: credentials whose preimage the buyer holds
  req,          \* the requests being handled
  restarts,     \* restarts so far
  executed,     \* history: tools run for a proof, in order
  tokenRuns,    \* history: credentials that were served by the token path
  creditRuns    \* history: atoms of charged work served, by account

INSTANCE Ledger WITH Account <- Hash, Ref <- Proof

history == <<executed, tokenRuns, creditRuns>>
ledger == <<balance, grants, keyed, charged>>
outside == <<paid, wallet, offered, known>>
vars == <<challenge, onchain, settled, rootKey, balance, grants, keyed, charged,
          now, paid, wallet, offered, known, req, restarts,
          executed, tokenRuns, creditRuns>>

Time == 0 .. MaxTime

ChallengeRec == [resource: Tool \cup {TopUp}, amount: Nat \ {0},
                 expires: Nat, tokenUntil: Nat]
OnchainRec == [account: Hash, amount: Nat \ {0}, expires: Nat, tokenUntil: Nat]

ASSUME NoChallengeAssumption ==
  NoChallenge \notin ChallengeRec \cup OnchainRec

TxRec == [addr: Addr, amount: Nat \ {0}, confs: 0 .. Depth]

ASSUME NoTxAssumption == NoTx \notin TxRec

ASSUME NoRowAssumption == NoGrant \notin GrantRow

(***************************************************************************)
(* Requests.  "settle" and "grant" wait to call Store.Settle and           *)
(* Ledger.Grant, "charge" to call Ledger.Charge; the serve phases wait to  *)
(* run the gated handler, for a proof, for a token, after a debit or on an *)
(* idempotent replay.                                                      *)
(***************************************************************************)
Phase == {"idle", "settle", "grant", "charge",
          "serveProof", "serveToken", "serveCharged", "serveReplay"}

Idle == [phase |-> "idle", by |-> Nobody, target |-> TopUp, key |-> NoKey]

ReqRec == [phase: Phase, by: Proof \cup Cred \cup {Nobody},
           target: Tool \cup {TopUp}, key: IdemKey \cup {NoKey}]

TypeOK ==
  /\ challenge \in [Hash -> ChallengeRec \cup {NoChallenge}]
  /\ onchain \in [Addr -> OnchainRec \cup {NoChallenge}]
  /\ settled \subseteq Proof
  /\ rootKey \subseteq Cred
  /\ LedgerTypeOK
  /\ now \in Time
  /\ paid \subseteq Hash
  /\ wallet \in [TxId -> TxRec \cup {NoTx}]
  /\ offered \subseteq Cred
  /\ known \subseteq Cred
  /\ req \in [Req -> ReqRec]
  /\ restarts \in 0 .. MaxRestarts
  /\ executed \in [Proof -> Seq(Tool)]
  /\ tokenRuns \subseteq Cred
  /\ creditRuns \in [Hash -> Nat]

Init ==
  /\ StoreInit
  /\ LedgerInit
  /\ now = 0
  /\ paid = {}
  /\ wallet = [x \in TxId |-> NoTx]
  /\ offered = {}
  /\ known = {}
  /\ req = [r \in Req |-> Idle]
  /\ restarts = 0
  /\ executed = [k \in Proof |-> <<>>]
  /\ tokenRuns = {}
  /\ creditRuns = [a \in Hash |-> 0]

-----------------------------------------------------------------------------
(* Challenges *)

\* The node hands out a payment hash, the wallet an address, only once.
FreshInvoice(h) == h \notin rootKey /\ challenge[h] = NoChallenge /\ h \notin known
FreshAddress(a) == a \notin rootKey /\ onchain[a] = NoChallenge /\ a \notin known

ChallengeFor(target, amount) ==
  [resource |-> target, amount |-> amount,
   expires |-> now + ChallengeTTL, tokenUntil |-> now + TokenTTL]

(* buildChallenge: a request without a usable proof or credential (bare, a *)
(* refused proof, a broken token) is answered 402 or 401 with a fresh      *)
(* invoice and a credential minted at challenge time; the records are      *)
(* stored before the answer is sent.                                       *)
BuildChallenge(t, h) ==
  /\ FreshInvoice(h)
  /\ PutRootKeys({h})
  /\ PutChallenge(h, ChallengeFor(t, Price[t]))
  /\ offered' = offered \cup {h}
  /\ UNCHANGED <<onchain, settled, ledger, now, paid, wallet, known, req,
                 restarts, history>>

\* What NewDepositAddress may return; no address without an on-chain backend.
DepositAddresses == IF Addr = {} THEN {{}} ELSE {{a} : a \in Addr}

(* buildTopupChallenge: a Lightning entry and, with an on-chain backend, a *)
(* deposit address; both credentials carry one token id.                   *)
BuildTopupChallenge(amount, h, as) ==
  /\ FreshInvoice(h)
  /\ \A a \in as : FreshAddress(a)
  /\ PutRootKeys({h} \cup as)
  /\ PutChallenge(h, ChallengeFor(TopUp, amount))
  /\ PutOnchainChallenges(as, [account |-> h, amount |-> amount,
                               expires |-> now + ChallengeTTL,
                               tokenUntil |-> now + TokenTTL])
  /\ offered' = offered \cup {h} \cup as
  /\ UNCHANGED <<settled, ledger, now, paid, wallet, known, req,
                 restarts, history>>

(* Either builder failing before PutChallenge: the root key is stored and  *)
(* the buyer gets a 500 that names no invoice.                             *)
ChallengeFails(h) ==
  /\ FreshInvoice(h)
  /\ PutRootKeys({h})
  /\ UNCHANGED <<challenge, onchain, settled, ledger, now, outside, req,
                 restarts, history>>

(* buildTopupChallenge failing on the on-chain entry, after PutChallenge:  *)
(* no address, or an address whose credential was minted but whose record  *)
(* was not stored.  The Lightning challenge stays and is never offered.    *)
TopupFails(amount, h, as) ==
  /\ Addr # {}
  /\ FreshInvoice(h)
  /\ \A a \in as : FreshAddress(a)
  /\ PutRootKeys({h} \cup as)
  /\ PutChallenge(h, ChallengeFor(TopUp, amount))
  /\ UNCHANGED <<onchain, settled, ledger, now, outside, req, restarts, history>>

-----------------------------------------------------------------------------
(* The node, the wallet and the buyer *)

(* A buyer who was offered the invoice pays it before it expires and       *)
(* learns the preimage; the node reports it settled.                       *)
PayInvoice(h) ==
  /\ h \in offered \cap Hash
  /\ h \notin paid
  /\ now <= challenge[h].expires
  /\ paid' = paid \cup {h}
  /\ known' = known \cup {h}
  /\ UNCHANGED <<storeVars, ledger, now, wallet, offered, req, restarts, history>>

(* A transaction paying an offered address appears; any amount may be sent.*)
SendDeposit(x, a, amount) ==
  /\ wallet[x] = NoTx
  /\ a \in offered \cap Addr
  /\ wallet' = [wallet EXCEPT ![x] = [addr |-> a, amount |-> amount, confs |-> 0]]
  /\ UNCHANGED <<storeVars, ledger, now, paid, offered, known, req, restarts, history>>

ConfirmDeposit(x) ==
  /\ wallet[x] # NoTx
  /\ wallet[x].confs < Depth
  /\ wallet' = [wallet EXCEPT ![x].confs = @ + 1]
  /\ UNCHANGED <<storeVars, ledger, now, paid, offered, known, req, restarts, history>>

-----------------------------------------------------------------------------
(* Verification *)

(* verifyLightning: a stored, live challenge, the preimage of its hash,    *)
(* and an invoice the node settled.                                        *)
LightningVerified(h) ==
  /\ challenge[h] # NoChallenge
  /\ now <= challenge[h].expires
  /\ h \in known
  /\ h \in paid

(* LookupDeposit: outputs of the transaction to the address, summed.  A    *)
(* transaction of the model pays one address.                              *)
PaidTo(x, a) == IF wallet[x].addr = a THEN wallet[x].amount ELSE 0

\* Faulty checks: of the amount, of the depth, and of the TTL on a deposit
\* that was found.
OnchainAnyAmount(x, a) ==
  /\ onchain[a] # NoChallenge /\ a \in offered
  /\ wallet[x] # NoTx
  /\ PaidTo(x, a) > 0
  /\ wallet[x].confs >= Depth
OnchainAnyDepth(x, a) ==
  /\ onchain[a] # NoChallenge /\ a \in offered
  /\ wallet[x] # NoTx
  /\ PaidTo(x, a) = onchain[a].amount
OnchainStranded(x, a) ==
  /\ onchain[a] # NoChallenge /\ a \in offered
  /\ wallet[x] # NoTx
  /\ PaidTo(x, a) = onchain[a].amount
  /\ wallet[x].confs >= Depth
  /\ now <= onchain[a].expires

(* verifyOnchain: the exact offered entry, a deposit of the exact amount,  *)
(* deep enough.  A deposit that is found is never refused for the TTL.     *)
OnchainVerified(x, a) ==
  /\ onchain[a] # NoChallenge
  /\ a \in offered
  /\ wallet[x] # NoTx
  /\ PaidTo(x, a) = onchain[a].amount
  /\ wallet[x].confs >= Depth

Verified(k) == IF k \in Hash THEN LightningVerified(k)
                             ELSE OnchainVerified(k[1], k[2])

\* AmountAtoms, account and credential of the challenge a proof answers.
AmountOf(k) == IF k \in Hash THEN challenge[k].amount ELSE onchain[k[2]].amount
AccountOf(k) == IF k \in Hash THEN k ELSE onchain[k[2]].account
CredentialOf(k) == IF k \in Hash THEN k ELSE k[2]

\* A faulty settlement that does not compare the price.
CoversAnyPrice(k, target) == TRUE

(* settleFull binds the proof to the price of the target; top-ups pass 0.  *)
CoversPrice(k, target) == target \in Tool => AmountOf(k) >= Price[target]

-----------------------------------------------------------------------------
(* Requests with a payment proof *)

(* servePayment, serveTopupSettlement and the MCP per-call path, up to the *)
(* call of Store.Settle.  A refused proof changes nothing, or gets a fresh *)
(* challenge (BuildChallenge).                                             *)
PresentProof(r, k, target) ==
  /\ req[r] = Idle
  /\ Verified(k)
  /\ CoversPrice(k, target)
  /\ req' = [req EXCEPT ![r] = [phase |-> "settle", by |-> k,
                                target |-> target, key |-> NoKey]]
  /\ UNCHANGED <<storeVars, ledger, now, outside, restarts, history>>

(* The answer with the credential reaches the buyer, or is lost.           *)
Answer(r, delivered) ==
  /\ req' = [req EXCEPT ![r] = Idle]
  /\ known' = IF delivered THEN known \cup {CredentialOf(req[r].by)} ELSE known

(* A faulty top-up that answers a replay without going to the ledger.      *)
SettleNoRegrant(r, delivered) ==
  LET k == req[r].by IN
  /\ req[r].phase = "settle"
  /\ StoreSettle(k)
  /\ IF AlreadySettled(k)
     THEN Answer(r, delivered)
     ELSE /\ ~delivered
          /\ req' = [req EXCEPT ![r].phase =
                       IF req[r].target \in Tool THEN "serveProof" ELSE "grant"]
          /\ UNCHANGED known
  /\ UNCHANGED <<challenge, onchain, rootKey, ledger, now, paid, wallet,
                 offered, restarts, history>>

(* Store.Settle consumes the proof; a replay of a call is answered         *)
(* already_settled with the stored response and is not executed again.     *)
(* A top-up goes on to the ledger in both cases.                           *)
Settle(r, delivered) ==
  LET k == req[r].by IN
  /\ req[r].phase = "settle"
  /\ StoreSettle(k)
  /\ IF req[r].target \in Tool /\ AlreadySettled(k)
     THEN Answer(r, delivered)
     ELSE /\ ~delivered
          /\ req' = [req EXCEPT ![r].phase =
                       IF req[r].target \in Tool THEN "serveProof" ELSE "grant"]
          /\ UNCHANGED known
  /\ UNCHANGED <<challenge, onchain, rootKey, ledger, now, paid, wallet,
                 offered, restarts, history>>

(* The gated handler runs for the proof.                                   *)
ServeProof(r, delivered) ==
  LET k == req[r].by IN
  /\ req[r].phase = "serveProof"
  /\ executed' = [executed EXCEPT ![k] = Append(@, req[r].target)]
  /\ Answer(r, delivered)
  /\ UNCHANGED <<storeVars, ledger, now, paid, wallet, offered, restarts,
                 tokenRuns, creditRuns>>

(* Ledger.Grant under the settlement's external reference.                 *)
GrantCredits(r, delivered) ==
  LET k == req[r].by IN
  /\ req[r].phase = "grant"
  /\ Grant(AccountOf(k), AmountOf(k), k)
  /\ Answer(r, delivered)
  /\ UNCHANGED <<storeVars, now, paid, wallet, offered, restarts, history>>

-----------------------------------------------------------------------------
(* Requests with a credential *)

TokenUntil(c) == IF c \in Hash THEN challenge[c].tokenUntil ELSE onchain[c].tokenUntil
TokenAccount(c) == IF c \in Hash THEN c ELSE onchain[c].account

\* A faulty check that takes the credential of a spent proof for spent too.
AuthorizeUnspent(c) ==
  c \in known /\ c \in rootKey /\ now <= TokenUntil(c) /\ c \notin settled

(* authorizeToken: root key present, preimage matches, not expired.        *)
AuthorizeToken(c) ==
  /\ c \in known
  /\ c \in rootKey
  /\ now <= TokenUntil(c)

(* Require with an L402 credential: the token wins and no proof is used.   *)
(* The per-call MCP path does not look at the Authorization header.        *)
PresentToken(r, c, t) ==
  /\ req[r] = Idle
  /\ AuthorizeToken(c)
  /\ req' = [req EXCEPT ![r] = [phase |-> "serveToken", by |-> c,
                                target |-> t, key |-> NoKey]]
  /\ UNCHANGED <<storeVars, ledger, now, outside, restarts, history>>

ServeToken(r) ==
  /\ req[r].phase = "serveToken"
  /\ tokenRuns' = tokenRuns \cup {req[r].by}
  /\ req' = [req EXCEPT ![r] = Idle]
  /\ UNCHANGED <<storeVars, ledger, now, outside, restarts, executed, creditRuns>>

(* ChargeCredential, up to the call of Ledger.Charge.  The key is the      *)
(* Idempotency-Key header; the gateway's MCP path never sends one.         *)
PresentCredit(r, c, t, key) ==
  /\ req[r] = Idle
  /\ AuthorizeToken(c)
  /\ req' = [req EXCEPT ![r] = [phase |-> "charge", by |-> c,
                                target |-> t, key |-> key]]
  /\ UNCHANGED <<storeVars, ledger, now, outside, restarts, history>>

(* A faulty charge that runs the handler when the balance is too low.      *)
ChargeIgnored(r) ==
  LET a == TokenAccount(req[r].by)
      t == req[r].target
      next(p) == req' = [req EXCEPT ![r].phase = p]
  IN
  /\ req[r].phase = "charge"
  /\ \/ ChargeReplay(a, req[r].key) /\ next("serveReplay")
     \/ ChargeDebit(a, Price[t], req[r].key) /\ next("serveCharged")
     \/ ChargeRefused(a, Price[t], req[r].key) /\ next("serveCharged")
  /\ UNCHANGED <<storeVars, now, outside, restarts, history>>

(* RequireCredits: the charge decides whether the handler runs.            *)
ChargeCredential(r) ==
  LET a == TokenAccount(req[r].by)
      t == req[r].target
      next(p) == req' = [req EXCEPT ![r] = IF p = "idle" THEN Idle
                                           ELSE [@ EXCEPT !.phase = p]]
  IN
  /\ req[r].phase = "charge"
  /\ \/ ChargeReplay(a, req[r].key) /\ next("serveReplay")
     \/ ChargeDebit(a, Price[t], req[r].key) /\ next("serveCharged")
     \/ ChargeRefused(a, Price[t], req[r].key) /\ next("idle")
  /\ UNCHANGED <<storeVars, now, outside, restarts, history>>

ServeCredit(r) ==
  LET a == TokenAccount(req[r].by) IN
  /\ req[r].phase \in {"serveCharged", "serveReplay"}
  /\ creditRuns' = IF req[r].phase = "serveCharged"
                   THEN [creditRuns EXCEPT ![a] = @ + Price[req[r].target]]
                   ELSE creditRuns
  /\ req' = [req EXCEPT ![r] = Idle]
  /\ UNCHANGED <<storeVars, ledger, now, outside, restarts, executed, tokenRuns>>

-----------------------------------------------------------------------------
(* Failures and time *)

(* A store or ledger error, or a client that went away: the request ends   *)
(* with an error before its next step.                                     *)
Fail(r) ==
  /\ req[r].phase \in {"settle", "grant", "charge"}
  /\ req' = [req EXCEPT ![r] = Idle]
  /\ UNCHANGED <<storeVars, ledger, now, outside, restarts, history>>

(* The process restarts; requests are lost, the databases are not.         *)
Restart ==
  /\ restarts < MaxRestarts
  /\ restarts' = restarts + 1
  /\ req' = [r \in Req |-> Idle]
  /\ UNCHANGED <<storeVars, ledger, now, outside, history>>

(* The operator revokes a credential.                                      *)
Revoke(c) ==
  /\ c \in rootKey \cap offered
  /\ DeleteRootKey(c)
  /\ UNCHANGED <<ledger, now, outside, req, restarts, history>>

Tick ==
  /\ now < MaxTime
  /\ now' = now + 1
  /\ UNCHANGED <<storeVars, ledger, outside, req, restarts, history>>

Environment ==
  \/ \E h \in Hash : PayInvoice(h)
  \/ \E x \in TxId, a \in Addr, n \in TopUpAmount : SendDeposit(x, a, n)
  \/ \E x \in TxId : ConfirmDeposit(x)
  \/ \E c \in Cred : Revoke(c)
  \/ Tick
  \/ Restart

\* A client sends a request that the gate accepts.
Present(r) ==
  \/ \E k \in Proof, t \in CallTool \cup TopUpEndpoint : PresentProof(r, k, t)
  \/ \E c \in Cred, t \in CallTool \ McpTool : PresentToken(r, c, t)
  \/ \E c \in Cred, t \in CreditTool, key \in IdemKey \cup {NoKey} :
       PresentCredit(r, c, t, key)

\* The next step of a request that was accepted.
Handle(r) ==
  \/ \E d \in BOOLEAN : Settle(r, d) \/ ServeProof(r, d) \/ GrantCredits(r, d)
  \/ ServeToken(r)
  \/ ChargeCredential(r)
  \/ ServeCredit(r)
  \/ Fail(r)

Next ==
  \/ \E t \in CallTool, h \in Hash : BuildChallenge(t, h)
  \/ \E n \in TopUpAmount, h \in Hash, as \in DepositAddresses :
       BuildTopupChallenge(n, h, as)
  \/ \E h \in Hash : ChallengeFails(h)
  \/ \E n \in TopUpAmount, h \in Hash, as \in DepositAddresses \cup {{}} :
       TopupFails(n, h, as)
  \/ \E r \in Req : Present(r) \/ Handle(r)
  \/ Environment

Spec == Init /\ [][Next]_vars

-----------------------------------------------------------------------------
(* Safety *)

\* Atoms the seller really holds for a proof: a settled invoice, or a deposit
\* to the proof's address that is deep enough.
Received(k) ==
  IF k \in Hash
  THEN IF k \in paid THEN challenge[k].amount ELSE 0
  ELSE LET w == wallet[k[1]] IN
       IF w # NoTx /\ w.addr = k[2] /\ w.confs >= Depth THEN w.amount ELSE 0

(* Rules 8 and 12: however many requests present a proof at once, retry it *)
(* after a lost answer or present it again after a restart, and whatever   *)
(* the target, the paid operation runs at most once for it.                *)
ProofRunsOnce == \A k \in Proof : Len(executed[k]) <= 1

(* The price binding of settleFull: a tool only ever ran for a proof whose *)
(* payment the seller holds and covers the price of that tool.             *)
RunsArePaid ==
  \A k \in Proof : \A i \in DOMAIN executed[k] :
    Price[executed[k][i]] <= Received(k)

(* serveTopupSettlement: a credit is always the amount of a payment the    *)
(* seller holds, on the account named by the challenge that was paid; both *)
(* rails of one challenge fund the same account.                           *)
CreditsArePaid ==
  \A k \in Proof : grants[k] # NoGrant =>
    /\ grants[k].amount = Received(k)
    /\ grants[k].account = AccountOf(k)

(* A credential minted at challenge time is worthless until its challenge  *)
(* is paid: a Lightning one needs the preimage, and the preimage of an     *)
(* on-chain one is only handed out once a deposit was settled.             *)
CredentialsArePaid ==
  \A c \in known :
    IF c \in Hash THEN c \in paid
    ELSE \E x \in TxId : <<x, c>> \in settled /\ Received(<<x, c>>) = onchain[c].amount

(* Every atom on an account came from a grant and every debit is a charge: *)
(* no interleaving, replay or restart creates or loses credit.             *)
Solvent ==
  \A a \in Hash :
    balance[a] + charged[a] = SumFunction([k \in GrantsTo(a) |-> grants[k].amount])

\* Requests that were debited from an account and did not run yet.
Working(a) ==
  {r \in Req : req[r].phase = "serveCharged" /\ TokenAccount(req[r].by) = a}

(* RequireCredits charges before it serves: the work served or about to be *)
(* served on an account, idempotent replays aside, was debited from it.    *)
WorkIsCharged ==
  \A a \in Hash :
    creditRuns[a] + SumFunction([r \in Working(a) |-> Price[req[r].target]]) <= charged[a]

-----------------------------------------------------------------------------
(* The inductive invariant behind the safety properties *)

\* The challenge of the proof is stored and its payment is in the seller's hands.
Backed(k) ==
  IF k \in Hash
  THEN challenge[k] # NoChallenge /\ k \in paid
  ELSE /\ onchain[k[2]] # NoChallenge
       /\ wallet[k[1]] # NoTx
       /\ wallet[k[1]].addr = k[2]
       /\ wallet[k[1]].amount = onchain[k[2]].amount
       /\ wallet[k[1]].confs >= Depth

OffersAreStored ==
  \A c \in offered : IF c \in Hash THEN challenge[c] # NoChallenge
                                   ELSE onchain[c] # NoChallenge

PaidWasOffered == paid \subseteq offered

KnownIsBacked ==
  \A c \in known : IF c \in Hash THEN c \in paid
                    ELSE \E x \in TxId : <<x, c>> \in settled

SettledIsBacked == \A k \in settled : Backed(k)

\* What a request that verified a proof may still rely on at its next step.
ProofRequests ==
  \A r \in Req : req[r].phase \in {"settle", "grant", "serveProof"} =>
    /\ req[r].by \in Proof
    /\ Backed(req[r].by)
    /\ CoversPrice(req[r].by, req[r].target)
    /\ req[r].phase # "settle" => req[r].by \in settled
    /\ req[r].phase = "serveProof" => req[r].target \in Tool

CredentialRequests ==
  \A r \in Req :
    req[r].phase \in {"serveToken", "charge", "serveCharged", "serveReplay"} =>
      req[r].by \in known /\ req[r].target \in Tool

\* The winner of Store.Settle is the only request that will run the handler.
OneRunner ==
  \A r \in Req : req[r].phase = "serveProof" =>
    /\ executed[req[r].by] = <<>>
    /\ \A s \in Req : req[s].phase = "serveProof" /\ req[s].by = req[r].by => s = r

RunsWereSettled ==
  \A k \in Proof : executed[k] # <<>> =>
    /\ k \in settled
    /\ Len(executed[k]) = 1
    /\ Price[executed[k][1]] <= AmountOf(k)

GrantsWereSettled ==
  \A k \in Proof : grants[k] # NoGrant =>
    /\ k \in settled
    /\ grants[k].amount = AmountOf(k)
    /\ grants[k].account = AccountOf(k)

GateInv ==
  /\ TypeOK
  /\ OffersAreStored
  /\ PaidWasOffered
  /\ KnownIsBacked
  /\ SettledIsBacked
  /\ ProofRequests
  /\ CredentialRequests
  /\ OneRunner
  /\ RunsWereSettled
  /\ GrantsWereSettled

\* What the sums of Solvent and WorkIsCharged need beside it.
MoneyInv ==
  /\ GateInv
  /\ Solvent
  /\ WorkIsCharged
  /\ \A a \in Hash : IsFiniteSet(GrantsTo(a)) /\ IsFiniteSet(Working(a))

-----------------------------------------------------------------------------
(* The promise the gate implements *)

Promise == INSTANCE PaidOnce WITH
  Payment <- Proof,
  received <- [k \in Proof |-> Received(k)],
  ran <- [k \in Proof |-> [i \in DOMAIN executed[k] |-> Price[executed[k][i]]]],
  credited <- [k \in Proof |-> IF grants[k] = NoGrant THEN 0 ELSE grants[k].amount]

(* Seen from outside, requests, replays, lost answers, failures, restarts  *)
(* and revocations are invisible: the gate implements PaidOnce.            *)
PromiseKept == Promise!Spec

-----------------------------------------------------------------------------
(* Liveness *)

\* Where a buyer spends a proof: what its challenge was issued for.
TargetOf(k) == IF k \in Hash THEN challenge[k].resource ELSE TopUp

Holds(r, k) == req[r].by = k /\ req[r].target = TargetOf(k)

\* A buyer's attempt to spend a proof, and each step the server takes for it.
Spends(k) == \E r \in Req : /\ k \in Hash => challenge[k] # NoChallenge
                            /\ PresentProof(r, k, TargetOf(k))
Settles(k) == \E r \in Req, d \in BOOLEAN : Holds(r, k) /\ Settle(r, d)
Credits(k) == \E r \in Req, d \in BOOLEAN : Holds(r, k) /\ GrantCredits(r, d)
UsesToken(h) == \E r \in Req : /\ challenge[h] # NoChallenge
                               /\ TargetOf(h) \in CallTool \ McpTool
                               /\ PresentToken(r, h, TargetOf(h))

(* Buyers retry until they are answered, store errors are not permanent,   *)
(* handlers return, and blocks keep confirming.  The clock, restarts,      *)
(* payments and revocations happen or not.                                 *)
Fairness ==
  /\ \A k \in Proof : SF_vars(Spends(k)) /\ SF_vars(Settles(k)) /\ SF_vars(Credits(k))
  /\ \A h \in Hash : SF_vars(UsesToken(h))
  /\ \A r \in Req : WF_vars(Handle(r))
  /\ \A x \in TxId : WF_vars(ConfirmDeposit(x))

FairSpec == Spec /\ Fairness

ChallengeDead(h) == challenge[h] # NoChallenge /\ now > challenge[h].expires
TokenDead(h) ==
  challenge[h] # NoChallenge /\ (h \notin rootKey \/ now > challenge[h].tokenUntil)

(* verifyOnchain: "A deposit that IS found is never stranded on the TTL":  *)
(* a deposit of the offered amount is credited in the end, however late it *)
(* is sent or confirmed and wherever a restart or an error falls.          *)
DepositCredited ==
  \A x \in TxId, a \in Addr :
    (/\ wallet[x] # NoTx
     /\ onchain[a] # NoChallenge
     /\ PaidTo(x, a) = onchain[a].amount) ~> (grants[<<x, a>>] # NoGrant)

(* serveTopupSettlement: a replay of a proof that was settled but whose    *)
(* grant was lost converges: a paid top-up is credited, unless its         *)
(* challenge expires first.                                                *)
TopupCredited ==
  \A h \in Hash :
    (h \in paid /\ challenge[h].resource = TopUp) ~>
      (grants[h] # NoGrant \/ ChallengeDead(h))

(* A per-call sale survives a restart between Store.Settle and the         *)
(* handler: the proof is spent but the credential of the same challenge is *)
(* served, until it is revoked or expires.                                 *)
PaidCallServed ==
  \A h \in Hash :
    (h \in paid /\ challenge[h].resource \in CallTool \ McpTool) ~>
      (executed[h] # <<>> \/ h \in tokenRuns \/ TokenDead(h))

=============================================================================
