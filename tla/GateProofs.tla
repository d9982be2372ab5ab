----------------------------- MODULE GateProofs -----------------------------
(***************************************************************************)
(* Proofs about the gate, for any number of invoices, addresses,           *)
(* transactions, tools, requests, restarts and any clock bound.            *)
(***************************************************************************)
EXTENDS Gate, SumTheorems, TLAPS

USE GateAssumption, RailsDisjoint, NoChallengeAssumption, NoTxAssumption, NoRowAssumption

-----------------------------------------------------------------------------
(* Facts about proofs and credentials *)

\* A proof is a payment hash or a pair of a transaction and an address.
LEMMA ProofCases ==
  ASSUME NEW k \in Proof
  PROVE  \/ k \in Hash
         \/ /\ k \notin Hash
            /\ k \in TxId \X Addr
            /\ k[1] \in TxId
            /\ k[2] \in Addr
            /\ k = <<k[1], k[2]>>
  BY DEF Proof

\* A credential is named by a hash or by an address, never by both.
LEMMA CredCases ==
  ASSUME NEW c \in Cred
  PROVE  (c \in Hash /\ c \notin Addr) \/ (c \in Addr /\ c \notin Hash)
  BY DEF Cred

\* The amount and the account of a backed proof are those of a stored record.
LEMMA BackedTyped ==
  ASSUME TypeOK, NEW k \in Proof, Backed(k)
  PROVE  /\ AmountOf(k) \in Nat \ {0}
         /\ AccountOf(k) \in Hash
         /\ CredentialOf(k) \in Cred
         /\ Received(k) = AmountOf(k)
<1>1. CASE k \in Hash
  BY <1>1 DEF TypeOK, Backed, AmountOf, AccountOf, CredentialOf, Received, Cred, ChallengeRec
<1>2. CASE k \notin Hash
  BY <1>2, ProofCases DEF TypeOK, Backed, AmountOf, AccountOf, CredentialOf, Received, Cred, OnchainRec, TxRec
<1> QED BY <1>1, <1>2

\* A proof that verifies is backed.
LEMMA VerifiedBacked ==
  ASSUME TypeOK, NEW k \in Proof, Verified(k)
  PROVE  Backed(k)
<1>1. CASE k \in Hash
  BY <1>1 DEF Verified, LightningVerified, Backed
<1>2. CASE k \notin Hash
  BY <1>2, ProofCases DEF TypeOK, Verified, OnchainVerified, PaidTo, Backed, OnchainRec, TxRec
<1> QED BY <1>1, <1>2

-----------------------------------------------------------------------------
(* Type correctness *)

\* The fields of TypeOK that concern the store, the outside and the requests.
LEMMA ReqTyped ==
  ASSUME TypeOK, NEW r \in Req
  PROVE  /\ req[r] \in ReqRec
         /\ req[r].by \in Proof \cup Cred \cup {Nobody}
         /\ req[r].target \in Tool \cup {TopUp}
         /\ req[r].key \in IdemKey \cup {NoKey}
  BY DEF TypeOK, ReqRec

\* Idle is a request record.
LEMMA IdleTyped == Idle \in ReqRec
  BY DEF Idle, ReqRec, Phase

\* What a request knows of the proof it holds.
LEMMA ProofRequest ==
  ASSUME GateInv, NEW r \in Req, req[r].phase \in {"settle", "grant", "serveProof"}
  PROVE  /\ req[r].by \in Proof
         /\ Backed(req[r].by)
         /\ AmountOf(req[r].by) \in Nat \ {0}
         /\ AccountOf(req[r].by) \in Hash
         /\ CredentialOf(req[r].by) \in Cred
<1>1. req[r].by \in Proof /\ Backed(req[r].by)
  BY DEF GateInv, ProofRequests
<1> QED BY <1>1, BackedTyped DEF GateInv

\* A settled deposit names a stored on-chain challenge.
LEMMA KnownTyped ==
  ASSUME GateInv, NEW c \in known
  PROVE  /\ c \in Cred
         /\ c \in Hash => challenge[c] \in ChallengeRec
         /\ c \notin Hash => onchain[c] \in OnchainRec
         /\ TokenAccount(c) \in Hash
<1>1. c \in Cred
  BY DEF GateInv, TypeOK
<1>2. CASE c \in Hash
  BY <1>1, <1>2 DEF GateInv, TypeOK, KnownIsBacked, PaidWasOffered, OffersAreStored, TokenAccount
<1>3. CASE c \notin Hash
  <2>1. PICK x \in TxId : <<x, c>> \in settled
    BY <1>3 DEF GateInv, KnownIsBacked
  <2>2. c \in Addr /\ <<x, c>> \notin Hash
    BY <1>1, <1>3 DEF Cred
  <2>3. onchain[c] # NoChallenge
    BY <2>1, <2>2 DEF GateInv, SettledIsBacked, Backed
  <2> QED BY <1>1, <1>3, <2>2, <2>3 DEF GateInv, TypeOK, TokenAccount, OnchainRec
<1> QED BY <1>2, <1>3

\* What a request knows of the credential it was authorized with.
LEMMA CredentialRequest ==
  ASSUME GateInv, NEW r \in Req,
         req[r].phase \in {"serveToken", "charge", "serveCharged", "serveReplay"}
  PROVE  /\ req[r].by \in known
         /\ req[r].by \in Cred
         /\ req[r].target \in Tool
         /\ TokenAccount(req[r].by) \in Hash
<1>1. req[r].by \in known /\ req[r].target \in Tool
  BY DEF GateInv, CredentialRequests
<1> QED BY <1>1, KnownTyped

\* The on-chain entry of a top-up is for a deposit address, if there is one.
LEMMA DepositAddressesTyped ==
  ASSUME NEW as \in DepositAddresses \cup {{}}
  PROVE  as \subseteq Addr
<1>1. CASE as = {}
  BY <1>1
<1>2. CASE as \in DepositAddresses /\ Addr = {}
  BY <1>2 DEF DepositAddresses
<1>3. CASE as \in DepositAddresses /\ Addr # {}
  <2>1. PICK a \in Addr : as = {a}
    BY <1>3, Zenon DEF DepositAddresses
  <2> QED BY <2>1
<1> QED BY <1>1, <1>2, <1>3

\* Steps of the store and of the challenge builders keep the types.
LEMMA BuildTyped ==
  ASSUME TypeOK, NEW h \in Hash,
         \/ \E t \in CallTool : BuildChallenge(t, h)
         \/ \E n \in TopUpAmount, as \in DepositAddresses : BuildTopupChallenge(n, h, as)
         \/ ChallengeFails(h)
         \/ \E n \in TopUpAmount, as \in DepositAddresses \cup {{}} : TopupFails(n, h, as)
  PROVE  TypeOK'
<1> USE DEF TypeOK, LedgerTypeOK, ledger, outside, history
<1>1. ASSUME NEW t \in CallTool, BuildChallenge(t, h) PROVE TypeOK'
  <2>1. ChallengeFor(t, Price[t]) \in ChallengeRec
    BY SMTT(30) DEF ChallengeFor, ChallengeRec, Tool, Time
  <2>2. challenge' \in [Hash -> ChallengeRec \cup {NoChallenge}]
    BY <1>1, <2>1 DEF BuildChallenge, PutChallenge
  <2> QED BY <1>1, <2>2 DEF BuildChallenge, PutRootKeys, Cred
<1>2. ASSUME NEW n \in TopUpAmount, NEW as \in DepositAddresses, BuildTopupChallenge(n, h, as)
      PROVE TypeOK'
  <2>0. as \subseteq Addr
    BY DepositAddressesTyped
  <2>1. ChallengeFor(TopUp, n) \in ChallengeRec
    BY SMTT(30) DEF ChallengeFor, ChallengeRec, Time
  <2>2. challenge' \in [Hash -> ChallengeRec \cup {NoChallenge}]
    BY <1>2, <2>1 DEF BuildTopupChallenge, PutChallenge
  <2>3. [account |-> h, amount |-> n, expires |-> now + ChallengeTTL,
         tokenUntil |-> now + TokenTTL] \in OnchainRec
    BY SMTT(30) DEF OnchainRec, Time
  <2>4. onchain' \in [Addr -> OnchainRec \cup {NoChallenge}]
    BY <1>2, <2>3 DEF BuildTopupChallenge, PutOnchainChallenges
  <2> QED BY <1>2, <2>0, <2>2, <2>4 DEF BuildTopupChallenge, PutRootKeys, Cred
<1>3. ASSUME ChallengeFails(h) PROVE TypeOK'
  BY <1>3 DEF ChallengeFails, PutRootKeys, Cred
<1>4. ASSUME NEW n \in TopUpAmount, NEW as \in DepositAddresses \cup {{}}, TopupFails(n, h, as)
      PROVE TypeOK'
  <2>0. as \subseteq Addr
    BY DepositAddressesTyped
  <2>1. ChallengeFor(TopUp, n) \in ChallengeRec
    BY SMTT(30) DEF ChallengeFor, ChallengeRec, Time
  <2>2. challenge' \in [Hash -> ChallengeRec \cup {NoChallenge}]
    BY <1>4, <2>1 DEF TopupFails, PutChallenge
  <2> QED BY <1>4, <2>0, <2>2 DEF TopupFails, PutRootKeys, Cred
<1> QED BY <1>1, <1>2, <1>3, <1>4

\* Steps of the node, the wallet, the operator, the clock and a restart keep
\* the types.
LEMMA EnvironmentTyped ==
  ASSUME TypeOK, Environment
  PROVE  TypeOK'
<1> USE DEF TypeOK, LedgerTypeOK, ledger, storeVars, outside, history
<1>1. ASSUME NEW h \in Hash, PayInvoice(h) PROVE TypeOK'
  BY <1>1 DEF PayInvoice, Cred
<1>2. ASSUME NEW x \in TxId, NEW a \in Addr, NEW n \in TopUpAmount, SendDeposit(x, a, n)
      PROVE TypeOK'
  <2>1. [addr |-> a, amount |-> n, confs |-> 0] \in TxRec
    BY DEF TxRec
  <2> QED BY <1>2, <2>1 DEF SendDeposit
<1>3. ASSUME NEW x \in TxId, ConfirmDeposit(x) PROVE TypeOK'
  <2>0. wallet[x] \in TxRec /\ wallet[x].confs + 1 \in 0 .. Depth
    BY <1>3 DEF ConfirmDeposit, TxRec
  <2>1. [wallet[x] EXCEPT !.confs = @ + 1] \in TxRec
    BY <2>0 DEF TxRec
  <2>2. wallet' = [wallet EXCEPT ![x] = [wallet[x] EXCEPT !.confs = @ + 1]]
    BY <1>3 DEF ConfirmDeposit
  <2>3. wallet' \in [TxId -> TxRec \cup {NoTx}]
    BY <2>1, <2>2
  <2> QED BY <1>3, <2>3 DEF ConfirmDeposit
<1>4. ASSUME NEW c \in Cred, Revoke(c) PROVE TypeOK'
  BY <1>4 DEF Revoke, DeleteRootKey
<1>5. ASSUME Tick PROVE TypeOK'
  <2>1. now' \in Time
    <3>1. now \in 0 .. MaxTime /\ now < MaxTime /\ now' = now + 1
      BY <1>5 DEF Tick, Time
    <3> QED BY <3>1, GateAssumption DEF Time
  <2>2. UNCHANGED <<storeVars, ledger, outside, req, restarts, history>>
    BY <1>5 DEF Tick
  <2> QED BY <2>1, <2>2
<1>6. ASSUME Restart PROVE TypeOK'
  BY SMTT(30), <1>6, IdleTyped DEF Restart
<1> QED BY <1>1, <1>2, <1>3, <1>4, <1>5, <1>6 DEF Environment

\* Accepting a request and every step of handling it keep the types.
LEMMA RequestTyped ==
  ASSUME GateInv, NEW r \in Req, Present(r) \/ Handle(r)
  PROVE  TypeOK'
<1> USE DEF LedgerTypeOK, ledger, storeVars, outside, history
<1>t. TypeOK
  BY DEF GateInv
<1>r. req[r] \in ReqRec
  BY <1>t, ReqTyped
<1>1. ASSUME NEW k \in Proof, NEW t \in CallTool \cup TopUpEndpoint, PresentProof(r, k, t)
      PROVE TypeOK'
  <2>1. [phase |-> "settle", by |-> k, target |-> t, key |-> NoKey] \in ReqRec
    BY DEF ReqRec, Phase, Tool, TopUpEndpoint
  <2> QED BY <1>1, <1>t, <2>1 DEF TypeOK, PresentProof
<1>2. ASSUME NEW c \in Cred, NEW t \in CallTool, PresentToken(r, c, t)
      PROVE TypeOK'
  <2>1. [phase |-> "serveToken", by |-> c, target |-> t, key |-> NoKey] \in ReqRec
    BY DEF ReqRec, Phase, Tool
  <2> QED BY <1>2, <1>t, <2>1 DEF TypeOK, PresentToken
<1>3. ASSUME NEW c \in Cred, NEW t \in CreditTool, NEW key \in IdemKey \cup {NoKey},
             PresentCredit(r, c, t, key)
      PROVE TypeOK'
  <2>1. [phase |-> "charge", by |-> c, target |-> t, key |-> key] \in ReqRec
    BY DEF ReqRec, Phase, Tool
  <2> QED BY <1>3, <1>t, <2>1 DEF TypeOK, PresentCredit
<1>4. ASSUME NEW d \in BOOLEAN, Settle(r, d) PROVE TypeOK'
  <2>1. /\ req[r].by \in Proof
        /\ CredentialOf(req[r].by) \in Cred
    BY <1>4, ProofRequest DEF Settle
  <2>2. ASSUME NEW p \in Phase PROVE [req[r] EXCEPT !.phase = p] \in ReqRec
    BY <1>r DEF ReqRec
  <2>3. CASE req[r].target \in Tool /\ AlreadySettled(req[r].by)
    <3>1. req' = [req EXCEPT ![r] = Idle] /\ known' \subseteq known \cup {CredentialOf(req[r].by)}
      BY <1>4, <2>3 DEF Settle, Answer
    <3>2. req' \in [Req -> ReqRec] /\ known' \subseteq Cred
      BY <3>1, <1>t, <2>1, IdleTyped DEF TypeOK
    <3> QED BY <1>4, <1>t, <2>1, <3>2 DEF TypeOK, Settle, StoreSettle
  <2>4. CASE ~(req[r].target \in Tool /\ AlreadySettled(req[r].by))
    <3> DEFINE p == IF req[r].target \in Tool THEN "serveProof" ELSE "grant"
    <3>1. req' = [req EXCEPT ![r] = [req[r] EXCEPT !.phase = p]]
      BY <1>4, <1>t, <2>4 DEF Settle, TypeOK
    <3>2. [req[r] EXCEPT !.phase = p] \in ReqRec
      BY <2>2 DEF Phase
    <3>3. req' \in [Req -> ReqRec]
      BY <3>1, <3>2, <1>t DEF TypeOK
    <3>4. UNCHANGED known
      BY <1>4, <2>4 DEF Settle
    <3> QED BY <1>4, <1>t, <2>1, <3>3, <3>4 DEF TypeOK, Settle, StoreSettle
  <2> QED BY <2>3, <2>4
<1>5. ASSUME NEW d \in BOOLEAN, ServeProof(r, d) PROVE TypeOK'
  <2>1. /\ req[r].by \in Proof
        /\ CredentialOf(req[r].by) \in Cred
    BY <1>5, ProofRequest DEF ServeProof
  <2>2. req[r].target \in Tool
    BY <1>5 DEF ServeProof, GateInv, ProofRequests
  <2>3. executed' \in [Proof -> Seq(Tool)]
    BY <1>5, <1>t, <2>1, <2>2 DEF TypeOK, ServeProof
  <2> QED BY <1>5, <1>t, <2>1, <2>3, IdleTyped DEF TypeOK, ServeProof, Answer
<1>6. ASSUME NEW d \in BOOLEAN, GrantCredits(r, d) PROVE TypeOK'
  <2> DEFINE k == req[r].by
  <2>1. /\ k \in Proof
        /\ AmountOf(k) \in Nat \ {0}
        /\ AccountOf(k) \in Hash
        /\ CredentialOf(k) \in Cred
    BY <1>6, ProofRequest DEF GrantCredits
  <2>2. [account |-> AccountOf(k), amount |-> AmountOf(k)] \in GrantRow
    BY <2>1 DEF GrantRow
  <2>3. LedgerTypeOK'
    <3>1. Grant(AccountOf(k), AmountOf(k), k)
      BY <1>6 DEF GrantCredits
    <3>2. CASE grants[k] # NoGrant
      BY <3>1, <3>2, <1>t DEF TypeOK, Grant
    <3>3. CASE grants[k] = NoGrant
      <4>1. /\ grants' = [grants EXCEPT ![k] = [account |-> AccountOf(k), amount |-> AmountOf(k)]]
            /\ balance' = [balance EXCEPT ![AccountOf(k)] = @ + AmountOf(k)]
            /\ UNCHANGED <<keyed, charged>>
        BY <3>1, <3>3 DEF Grant
      <4>2. grants' \in [Proof -> GrantRow \cup {NoGrant}]
        BY <4>1, <1>t, <2>1, <2>2 DEF TypeOK
      <4>3. balance' \in [Hash -> Nat]
        BY <4>1, <1>t, <2>1 DEF TypeOK
      <4> QED BY <4>1, <4>2, <4>3, <1>t DEF TypeOK
    <3> QED BY <3>2, <3>3
  <2> QED BY <1>6, <1>t, <2>1, <2>3, IdleTyped DEF TypeOK, GrantCredits, Answer
<1>7. ASSUME ServeToken(r) PROVE TypeOK'
  BY <1>7, <1>t, CredentialRequest, IdleTyped DEF TypeOK, ServeToken
<1>8. ASSUME ChargeCredential(r) PROVE TypeOK'
  <2> DEFINE a == TokenAccount(req[r].by)
             n == Price[req[r].target]
  <2>1. a \in Hash /\ n \in Nat \ {0}
    BY <1>8, CredentialRequest DEF ChargeCredential
  <2>2. req[r].key \in IdemKey \cup {NoKey}
    BY <1>t, ReqTyped
  <2>3. LedgerTypeOK'
    <3>1. CASE ChargeDebit(a, n, req[r].key)
      <4>1. balance' \in [Hash -> Nat]
        <5>1. balance[a] - n \in Nat
          BY <3>1, <1>t, <2>1 DEF TypeOK, ChargeDebit
        <5> QED BY <3>1, <5>1, <1>t, <2>1 DEF TypeOK, ChargeDebit
      <4>2. charged' \in [Hash -> Nat]
        BY SMTT(30), <3>1, <1>t, <2>1 DEF TypeOK, ChargeDebit
      <4>3. keyed' \subseteq Hash \X IdemKey
        BY <3>1, <1>t, <2>1, <2>2 DEF TypeOK, ChargeDebit
      <4> QED BY <3>1, <4>1, <4>2, <4>3, <1>t DEF TypeOK, ChargeDebit
    <3>2. CASE UNCHANGED <<balance, grants, keyed, charged>>
      BY <3>2, <1>t DEF TypeOK
    <3> QED BY <1>8, <3>1, <3>2 DEF ChargeCredential, ChargeReplay, ChargeRefused
  <2>4. req' \in [Req -> ReqRec]
    <3>1. ASSUME NEW p \in Phase PROVE [req[r] EXCEPT !.phase = p] \in ReqRec
      BY <1>r DEF ReqRec
    <3>2. \/ req' = [req EXCEPT ![r] = [req[r] EXCEPT !.phase = "serveReplay"]]
          \/ req' = [req EXCEPT ![r] = [req[r] EXCEPT !.phase = "serveCharged"]]
          \/ req' = [req EXCEPT ![r] = Idle]
      BY <1>8, <1>t DEF ChargeCredential, TypeOK
    <3> QED BY <3>1, <3>2, <1>t, IdleTyped DEF TypeOK, Phase
  <2> QED BY <1>8, <1>t, <2>3, <2>4 DEF TypeOK, ChargeCredential
<1>9. ASSUME ServeCredit(r) PROVE TypeOK'
  <2>1. /\ TokenAccount(req[r].by) \in Hash
        /\ Price[req[r].target] \in Nat
    BY <1>9, CredentialRequest DEF ServeCredit
  <2>2. creditRuns' \in [Hash -> Nat]
    BY SMTT(30), <1>9, <1>t, <2>1 DEF TypeOK, ServeCredit
  <2> QED BY <1>9, <1>t, <2>2, IdleTyped DEF TypeOK, ServeCredit
<1>10. ASSUME Fail(r) PROVE TypeOK'
  BY <1>10, <1>t, IdleTyped DEF TypeOK, Fail
<1> QED BY <1>1, <1>2, <1>3, <1>4, <1>5, <1>6, <1>7, <1>8, <1>9, <1>10 DEF Present, Handle

-----------------------------------------------------------------------------
(* Records only grow *)

\* A step never changes a stored challenge, a payment or a settlement record.
Grows ==
  /\ \A h \in Hash : challenge[h] # NoChallenge => challenge'[h] = challenge[h]
  /\ \A a \in Addr : onchain[a] # NoChallenge => onchain'[a] = onchain[a]
  /\ \A x \in TxId : wallet[x] # NoTx =>
       /\ wallet'[x] # NoTx
       /\ wallet'[x].addr = wallet[x].addr
       /\ wallet'[x].amount = wallet[x].amount
       /\ wallet[x].confs >= Depth => wallet'[x].confs >= Depth
  /\ paid \subseteq paid'
  /\ settled \subseteq settled'
  /\ offered \subseteq offered'
  /\ known \subseteq known'

\* Every step of the gate and of its environment only grows the records.
LEMMA NextGrows ==
  ASSUME TypeOK, Next
  PROVE  Grows
<1> USE DEF ledger, storeVars, outside, history
<1>1. ASSUME NEW h \in Hash, NEW t \in CallTool, BuildChallenge(t, h) PROVE Grows
  BY <1>1 DEF Grows, BuildChallenge, PutChallenge, PutRootKeys, TypeOK
<1>2. ASSUME NEW n \in TopUpAmount, NEW h \in Hash, NEW as \in DepositAddresses,
             BuildTopupChallenge(n, h, as) PROVE Grows
  BY <1>2 DEF Grows, BuildTopupChallenge, PutChallenge, PutOnchainChallenges, TypeOK
<1>3. ASSUME NEW h \in Hash, ChallengeFails(h) PROVE Grows
  BY <1>3 DEF Grows, ChallengeFails
<1>topup. ASSUME NEW n \in TopUpAmount, NEW h \in Hash, NEW as \in DepositAddresses \cup {{}},
              TopupFails(n, h, as) PROVE Grows
  BY <1>topup DEF Grows, TopupFails, PutChallenge, TypeOK
<1>4. ASSUME NEW r \in Req, Present(r) PROVE Grows
  BY <1>4 DEF Grows, Present, PresentProof, PresentToken, PresentCredit
<1>5. ASSUME NEW r \in Req, Handle(r) PROVE Grows
  <2>1. ASSUME NEW d \in BOOLEAN, Settle(r, d) PROVE Grows
    BY <2>1 DEF Grows, Settle, StoreSettle, Answer
  <2>2. ASSUME NEW d \in BOOLEAN, ServeProof(r, d) \/ GrantCredits(r, d) PROVE Grows
    BY <2>2 DEF Grows, ServeProof, GrantCredits, Answer
  <2>3. ASSUME ServeToken(r) \/ ChargeCredential(r) \/ ServeCredit(r) \/ Fail(r) PROVE Grows
    BY <2>3 DEF Grows, ServeToken, ChargeCredential, ServeCredit, Fail
  <2> QED BY <1>5, <2>1, <2>2, <2>3 DEF Handle
<1>6. ASSUME Environment PROVE Grows
  <2>1. ASSUME NEW h \in Hash, PayInvoice(h) PROVE Grows
    BY <2>1 DEF Grows, PayInvoice
  <2>2. ASSUME NEW x \in TxId, NEW a \in Addr, NEW n \in TopUpAmount, SendDeposit(x, a, n)
        PROVE Grows
    BY <2>2 DEF Grows, SendDeposit, TypeOK
  <2>3. ASSUME NEW x \in TxId, ConfirmDeposit(x) PROVE Grows
    <3>1. wallet[x] \in TxRec
      BY <2>3 DEF ConfirmDeposit, TypeOK
    <3>2. wallet' = [wallet EXCEPT ![x] = [wallet[x] EXCEPT !.confs = wallet[x].confs + 1]]
      BY <2>3 DEF ConfirmDeposit
    <3>3. [wallet[x] EXCEPT !.confs = wallet[x].confs + 1] \in TxRec
      BY <2>3, <3>1 DEF ConfirmDeposit, TxRec
    <3>4. \A y \in TxId : wallet[y] # NoTx =>
            /\ wallet'[y] # NoTx
            /\ wallet'[y].addr = wallet[y].addr
            /\ wallet'[y].amount = wallet[y].amount
            /\ wallet[y].confs >= Depth => wallet'[y].confs >= Depth
      <4>1. ASSUME NEW y \in TxId, y # x PROVE wallet'[y] = wallet[y]
        BY <3>2, <4>1 DEF TypeOK
      <4>2. wallet'[x] = [wallet[x] EXCEPT !.confs = wallet[x].confs + 1]
        BY <3>2 DEF TypeOK
      <4>3. /\ wallet'[x] # NoTx
            /\ wallet'[x].addr = wallet[x].addr /\ wallet'[x].amount = wallet[x].amount
            /\ wallet[x].confs >= Depth => wallet'[x].confs >= Depth
        BY <3>1, <3>3, <4>2 DEF TxRec
      <4> QED BY <4>1, <4>3
    <3> QED BY <2>3, <3>4 DEF Grows, ConfirmDeposit
  <2>4. ASSUME NEW c \in Cred, Revoke(c) PROVE Grows
    BY <2>4 DEF Grows, Revoke, DeleteRootKey
  <2>5. ASSUME Tick \/ Restart PROVE Grows
    BY <2>5 DEF Grows, Tick, Restart
  <2> QED BY <1>6, <2>1, <2>2, <2>3, <2>4, <2>5 DEF Environment
<1> QED BY <1>1, <1>2, <1>3, <1>topup, <1>4, <1>5, <1>6 DEF Next

\* What backs a proof, its amount and its account outlive every step.
LEMMA BackedStays ==
  ASSUME TypeOK, Grows, NEW k \in Proof, Backed(k)
  PROVE  /\ Backed(k)'
         /\ AmountOf(k)' = AmountOf(k)
         /\ AccountOf(k)' = AccountOf(k)
<1>1. CASE k \in Hash
  BY <1>1 DEF Grows, Backed, AmountOf, AccountOf
<1>2. CASE k \notin Hash
  BY <1>2, ProofCases DEF Grows, Backed, AmountOf, AccountOf
<1> QED BY <1>1, <1>2

-----------------------------------------------------------------------------
(* The inductive invariant *)

\* The initial state satisfies the invariant.
LEMMA InitGateInv == Init => GateInv
<1> SUFFICES ASSUME Init PROVE GateInv
  OBVIOUS
<1> USE DEF Init, StoreInit, LedgerInit
<1>1. TypeOK
  BY IdleTyped DEF TypeOK, LedgerTypeOK, Time
<1>2. \A r \in Req : req[r].phase = "idle"
  BY DEF Idle
<1> QED BY <1>1, <1>2 DEF GateInv, OffersAreStored, PaidWasOffered, KnownIsBacked,
           SettledIsBacked, ProofRequests, CredentialRequests, OneRunner,
           RunsWereSettled, GrantsWereSettled

\* Everything the invariant says of the old records still holds of them after
\* a step that only grows the records.
LEMMA OldFactsStay ==
  ASSUME GateInv, Grows
  PROVE  /\ \A c \in offered : IF c \in Hash THEN challenge'[c] # NoChallenge
                                             ELSE onchain'[c] # NoChallenge
         /\ paid \subseteq offered'
         /\ \A c \in known : IF c \in Hash THEN c \in paid'
                             ELSE \E x \in TxId : <<x, c>> \in settled'
         /\ \A k \in settled : Backed(k)'
         /\ \A k \in Proof : Backed(k) =>
              Backed(k)' /\ AmountOf(k)' = AmountOf(k) /\ AccountOf(k)' = AccountOf(k)
         /\ \A k \in Proof : executed[k] # <<>> =>
              /\ k \in settled'
              /\ Price[executed[k][1]] <= AmountOf(k)'
         /\ \A k \in Proof : grants[k] # NoGrant =>
              /\ k \in settled'
              /\ grants[k].amount = AmountOf(k)'
              /\ grants[k].account = AccountOf(k)'
<1>t. TypeOK
  BY DEF GateInv
<1>1. \A c \in offered : IF c \in Hash THEN challenge'[c] # NoChallenge
                                       ELSE onchain'[c] # NoChallenge
  <2> SUFFICES ASSUME NEW c \in offered
               PROVE  IF c \in Hash THEN challenge'[c] # NoChallenge
                                    ELSE onchain'[c] # NoChallenge
    OBVIOUS
  <2>1. c \in Cred
    BY <1>t DEF TypeOK
  <2> QED BY <2>1, CredCases DEF GateInv, OffersAreStored, Grows
<1>2. paid \subseteq offered'
  BY DEF GateInv, PaidWasOffered, Grows
<1>3. \A c \in known : IF c \in Hash THEN c \in paid'
                       ELSE \E x \in TxId : <<x, c>> \in settled'
  BY DEF GateInv, KnownIsBacked, Grows
<1>4. \A k \in settled : Backed(k)' /\ AmountOf(k)' = AmountOf(k) /\ AccountOf(k)' = AccountOf(k)
  BY <1>t, BackedStays DEF GateInv, SettledIsBacked, TypeOK
<1>5. \A k \in Proof : Backed(k) =>
        Backed(k)' /\ AmountOf(k)' = AmountOf(k) /\ AccountOf(k)' = AccountOf(k)
  BY <1>t, BackedStays
<1>6. \A k \in Proof : executed[k] # <<>> => k \in settled /\ Price[executed[k][1]] <= AmountOf(k)
  BY DEF GateInv, RunsWereSettled
<1>7. \A k \in Proof : grants[k] # NoGrant =>
        k \in settled /\ grants[k].amount = AmountOf(k) /\ grants[k].account = AccountOf(k)
  BY DEF GateInv, GrantsWereSettled
<1>8. settled \subseteq settled'
  BY DEF Grows
<1>9. \A k \in Proof : executed[k] # <<>> => k \in settled' /\ Price[executed[k][1]] <= AmountOf(k)'
  BY <1>4, <1>6, <1>8
<1>10. \A k \in Proof : grants[k] # NoGrant =>
         k \in settled' /\ grants[k].amount = AmountOf(k)' /\ grants[k].account = AccountOf(k)'
  BY <1>4, <1>7, <1>8
<1>11. \A k \in settled : Backed(k)'
  BY <1>4
<1> QED BY <1>1, <1>2, <1>3, <1>5, <1>9, <1>10, <1>11

\* Steps that leave settlements, credentials, runs and grants alone and drop
\* requests at most: challenges, deposits, revocation, the clock, a restart,
\* an error, and the service of a token or of charged work.
LEMMA QuietStep ==
  ASSUME GateInv, TypeOK', Grows,
         UNCHANGED <<settled, executed, grants>>,
         known' = known \cup (paid' \ paid),
         OffersAreStored', PaidWasOffered',
         \A r \in Req : req'[r] = req[r] \/ req'[r] = Idle
  PROVE  GateInv'
<1> USE OldFactsStay
<1>0. \A r \in Req : req'[r].phase # "idle" => req'[r] = req[r]
  BY DEF Idle
<1>1. KnownIsBacked'
  <2>1. paid' \subseteq Hash
    BY DEF TypeOK
  <2> QED BY <2>1 DEF KnownIsBacked
<1>2. SettledIsBacked'
  BY DEF SettledIsBacked
<1>3. ProofRequests'
  BY <1>0 DEF GateInv, ProofRequests, CoversPrice
<1>4. CredentialRequests'
  BY <1>0 DEF GateInv, CredentialRequests
<1>5. OneRunner'
  BY <1>0 DEF GateInv, OneRunner
<1>6. RunsWereSettled'
  BY DEF GateInv, RunsWereSettled
<1>7. GrantsWereSettled'
  BY DEF GateInv, GrantsWereSettled
<1> QED BY <1>1, <1>2, <1>3, <1>4, <1>5, <1>6, <1>7 DEF GateInv

\* A step that gives one request a new record, and leaves the rest alone,
\* keeps the invariant when the new record satisfies what the invariant says.
LEMMA PresentStep ==
  ASSUME GateInv, TypeOK', Grows, NEW r \in Req, NEW rec,
         UNCHANGED <<challenge, onchain, settled, paid, wallet, offered, known, executed, grants>>,
         req' = [req EXCEPT ![r] = rec],
         rec.phase \notin {"grant", "serveProof"},
         rec.phase = "settle" =>
           rec.by \in Proof /\ Backed(rec.by) /\ CoversPrice(rec.by, rec.target),
         rec.phase \in {"serveToken", "charge", "serveCharged", "serveReplay"} =>
           rec.by \in known /\ rec.target \in Tool
  PROVE  GateInv'
<1>t. TypeOK
  BY DEF GateInv
<1>0. \A s \in Req : req'[s] = IF s = r THEN rec ELSE req[s]
  BY <1>t DEF TypeOK
<1>1. OffersAreStored' /\ PaidWasOffered' /\ KnownIsBacked'
  BY DEF GateInv, OffersAreStored, PaidWasOffered, KnownIsBacked
<1>2. SettledIsBacked' /\ RunsWereSettled' /\ GrantsWereSettled'
  BY DEF GateInv, SettledIsBacked, RunsWereSettled, GrantsWereSettled, Backed, AmountOf, AccountOf
<1>3. ProofRequests'
  <2>1. \A k : Backed(k)' <=> Backed(k)
    BY DEF Backed
  <2>2. \A k, t : CoversPrice(k, t)' <=> CoversPrice(k, t)
    BY DEF CoversPrice, AmountOf
  <2>3. SUFFICES ASSUME NEW s \in Req, req'[s].phase \in {"settle", "grant", "serveProof"}
                 PROVE  /\ req'[s].by \in Proof
                        /\ Backed(req'[s].by)
                        /\ CoversPrice(req'[s].by, req'[s].target)
                        /\ req'[s].phase # "settle" => req'[s].by \in settled
                        /\ req'[s].phase = "serveProof" => req'[s].target \in Tool
    BY <2>1, <2>2 DEF ProofRequests
  <2>4. CASE s = r
    BY <1>0, <2>3, <2>4
  <2>5. CASE s # r
    BY <1>0, <2>3, <2>5 DEF GateInv, ProofRequests
  <2> QED BY <2>4, <2>5
<1>4. CredentialRequests'
  BY <1>0 DEF GateInv, CredentialRequests
<1>5. OneRunner'
  BY <1>0 DEF GateInv, OneRunner
<1> QED BY <1>1, <1>2, <1>3, <1>4, <1>5 DEF GateInv

\* Accepting a request keeps the invariant.
LEMMA PresentInv ==
  ASSUME GateInv, TypeOK', Grows, NEW r \in Req, Present(r)
  PROVE  GateInv'
<1> USE DEF ledger, storeVars, outside, history
<1>1. ASSUME NEW k \in Proof, NEW t \in CallTool \cup TopUpEndpoint, PresentProof(r, k, t)
      PROVE GateInv'
  <2>1. Backed(k) /\ CoversPrice(k, t)
    BY <1>1, VerifiedBacked DEF PresentProof, GateInv
  <2> QED BY <1>1, <2>1, PresentStep DEF PresentProof
<1>2. ASSUME NEW c \in Cred, NEW t \in CallTool, PresentToken(r, c, t) PROVE GateInv'
  BY <1>2, PresentStep DEF PresentToken, AuthorizeToken, Tool
<1>3. ASSUME NEW c \in Cred, NEW t \in CreditTool, NEW key \in IdemKey \cup {NoKey},
             PresentCredit(r, c, t, key)
      PROVE GateInv'
  BY <1>3, PresentStep DEF PresentCredit, AuthorizeToken, Tool
<1> QED BY <1>1, <1>2, <1>3 DEF Present

\* The answer to the holder of a settled, backed proof keeps credentials backed.
LEMMA AnswerKeepsKnown ==
  ASSUME GateInv, Grows, NEW k \in Proof, Backed(k), k \in settled', PaidWasOffered,
         known' \subseteq known \cup {CredentialOf(k)}
  PROVE  KnownIsBacked'
<1> USE OldFactsStay
<1>1. CASE k \in Hash
  BY <1>1 DEF KnownIsBacked, CredentialOf, Backed, Grows
<1>2. CASE k \notin Hash
  <2>1. k[2] \notin Hash /\ <<k[1], k[2]>> \in settled' /\ k[1] \in TxId
    BY <1>2, ProofCases
  <2> QED BY <1>2, <2>1 DEF KnownIsBacked, CredentialOf
<1> QED BY <1>1, <1>2

\* Store.Settle keeps the invariant: only the first request to consume a proof
\* goes on to run the handler for it.
LEMMA SettleInv ==
  ASSUME GateInv, TypeOK', Grows, NEW r \in Req, NEW d \in BOOLEAN, Settle(r, d)
  PROVE  GateInv'
<1> USE OldFactsStay
<1> DEFINE k == req[r].by
<1>t. TypeOK
  BY DEF GateInv
<1>1. /\ k \in Proof
      /\ Backed(k)
      /\ CoversPrice(k, req[r].target)
      /\ req[r].target \in Tool \cup {TopUp}
  BY <1>t, ReqTyped DEF Settle, GateInv, ProofRequests
<1>2. /\ settled' = settled \cup {k}
      /\ UNCHANGED <<challenge, onchain, wallet, paid, offered, executed, grants>>
  BY DEF Settle, StoreSettle, history, ledger
<1>3. \A s \in Req : s # r => req'[s] = req[s]
  BY <1>t DEF Settle, Answer, TypeOK
<1>4. \/ req'[r] = Idle
      \/ /\ req'[r].by = k
         /\ req'[r].target = req[r].target
         /\ \/ req'[r].phase = "grant"
            \/ req'[r].phase = "serveProof" /\ k \notin settled /\ req[r].target \in Tool
  <2>1. CASE req[r].target \in Tool /\ AlreadySettled(k)
    BY <2>1, <1>t DEF Settle, Answer, TypeOK
  <2>2. CASE ~(req[r].target \in Tool /\ AlreadySettled(k))
    <3>1. req' = [req EXCEPT ![r] = [req[r] EXCEPT !.phase =
                    IF req[r].target \in Tool THEN "serveProof" ELSE "grant"]]
      BY <2>2, <1>t DEF Settle, TypeOK
    <3>2. req[r] \in ReqRec
      BY <1>t, ReqTyped
    <3> QED BY <2>2, <3>1, <3>2, <1>t DEF AlreadySettled, TypeOK, ReqRec
  <2> QED BY <2>1, <2>2
<1>5. OffersAreStored' /\ PaidWasOffered'
  BY <1>2 DEF GateInv, OffersAreStored, PaidWasOffered
<1>6. KnownIsBacked'
  <2>1. known' \subseteq known \cup {CredentialOf(k)}
    BY DEF Settle, Answer
  <2> QED BY <1>1, <1>2, <2>1, AnswerKeepsKnown DEF GateInv
<1>7. SettledIsBacked'
  <2>1. \A j \in settled \cup {k} : Backed(j)'
    BY <1>1
  <2> QED BY <1>2, <2>1 DEF SettledIsBacked
<1>8. ProofRequests'
  <2> SUFFICES ASSUME NEW s \in Req, req'[s].phase \in {"settle", "grant", "serveProof"}
               PROVE  /\ req'[s].by \in Proof
                      /\ Backed(req[s].by)'
                      /\ CoversPrice(req[s].by, req[s].target)'
                      /\ req'[s].phase # "settle" => req'[s].by \in settled'
                      /\ req'[s].phase = "serveProof" => req'[s].target \in Tool
    BY DEF ProofRequests
  <2>1. \A j \in Proof, t \in Tool \cup {TopUp} :
          Backed(j) /\ CoversPrice(j, t) =>
            /\ Backed(j)'
            /\ (t \in Tool => AmountOf(j)' >= Price[t])
    BY DEF CoversPrice
  <2>2. CASE s # r
    BY <1>2, <1>3, <2>1, <2>2 DEF GateInv, ProofRequests, CoversPrice
  <2>3. CASE s = r
    <3>1. req'[r].by = k /\ req'[r].target = req[r].target
      BY <1>4, <2>3 DEF Idle
    <3>2. req'[r].phase # "settle" /\ (req'[r].phase = "serveProof" => req[r].target \in Tool)
      BY <1>4, <2>3 DEF Idle
    <3> QED BY <1>1, <1>2, <2>1, <2>3, <3>1, <3>2 DEF CoversPrice
  <2> QED BY <2>2, <2>3
<1>9. CredentialRequests'
  <2>1. known \subseteq known'
    BY DEF Grows
  <2>2. req'[r].phase \notin {"serveToken", "charge", "serveCharged", "serveReplay"}
    BY <1>4 DEF Idle
  <2> QED BY <1>3, <2>1, <2>2 DEF GateInv, CredentialRequests
<1>10. OneRunner'
  <2>1. \A s \in Req : req[s].phase = "serveProof" => req[s].by \in settled
    BY DEF GateInv, ProofRequests
  <2>2. req'[r].phase = "serveProof" => k \notin settled /\ req'[r].by = k
    BY <1>4 DEF Idle
  <2>3. k \notin settled => executed[k] = <<>>
    BY <1>1 DEF GateInv, RunsWereSettled
  <2> QED BY <1>2, <1>3, <2>1, <2>2, <2>3 DEF GateInv, OneRunner
<1>11. RunsWereSettled' /\ GrantsWereSettled'
  BY <1>2 DEF GateInv, RunsWereSettled, GrantsWereSettled
<1> QED BY <1>5, <1>6, <1>7, <1>8, <1>9, <1>10, <1>11 DEF GateInv

\* A step that answers one request and leaves the store, the payments and the
\* other requests alone keeps every conjunct but those about runs and grants.
LEMMA AnswerStep ==
  ASSUME GateInv, TypeOK', Grows, NEW r \in Req, NEW d \in BOOLEAN,
         req[r].phase \in {"grant", "serveProof"},
         UNCHANGED <<challenge, onchain, settled, paid, wallet, offered>>,
         Answer(r, d)
  PROVE  /\ OffersAreStored' /\ PaidWasOffered' /\ KnownIsBacked'
         /\ SettledIsBacked' /\ ProofRequests' /\ CredentialRequests'
         /\ \A s \in Req : req'[s] = IF s = r THEN Idle ELSE req[s]
<1> USE OldFactsStay
<1>t. TypeOK
  BY DEF GateInv
<1>0. \A s \in Req : req'[s] = IF s = r THEN Idle ELSE req[s]
  BY <1>t DEF Answer, TypeOK
<1>1. OffersAreStored' /\ PaidWasOffered' /\ SettledIsBacked'
  BY DEF GateInv, OffersAreStored, PaidWasOffered, SettledIsBacked
<1>2. KnownIsBacked'
  <2>1. req[r].by \in Proof /\ Backed(req[r].by) /\ req[r].by \in settled'
    BY DEF GateInv, ProofRequests
  <2>2. known' \subseteq known \cup {CredentialOf(req[r].by)}
    BY DEF Answer
  <2> QED BY <2>1, <2>2, AnswerKeepsKnown DEF GateInv
<1>3. \A s \in Req : req'[s].phase # "idle" => req'[s] = req[s]
  BY <1>0 DEF Idle
<1>4. ProofRequests'
  BY <1>3 DEF GateInv, ProofRequests, CoversPrice
<1>5. CredentialRequests'
  BY <1>3 DEF GateInv, CredentialRequests, Grows
<1> QED BY <1>0, <1>1, <1>2, <1>4, <1>5

\* Running the handler keeps the invariant: the proof had not run before.
LEMMA ServeProofInv ==
  ASSUME GateInv, TypeOK', Grows, NEW r \in Req, NEW d \in BOOLEAN, ServeProof(r, d)
  PROVE  GateInv'
<1> DEFINE k == req[r].by
           t == req[r].target
<1>t. TypeOK
  BY DEF GateInv
<1>1. /\ k \in Proof
      /\ k \in settled
      /\ t \in Tool
      /\ Price[t] <= AmountOf(k)
      /\ executed[k] = <<>>
  <2>1. k \in Proof /\ k \in settled /\ t \in Tool /\ CoversPrice(k, t)
    BY DEF ServeProof, GateInv, ProofRequests
  <2>2. Backed(k)
    BY <2>1 DEF GateInv, SettledIsBacked
  <2>3. AmountOf(k) \in Nat /\ Price[t] \in Nat
    BY <1>t, <2>1, <2>2, BackedTyped
  <2>4. executed[k] = <<>>
    BY DEF ServeProof, GateInv, OneRunner
  <2> QED BY <2>1, <2>3, <2>4 DEF CoversPrice
<1>2. /\ UNCHANGED <<challenge, onchain, settled, paid, wallet, offered, grants>>
      /\ Answer(r, d)
      /\ req[r].phase = "serveProof"
  BY DEF ServeProof, storeVars, ledger
<1>3. executed' = [executed EXCEPT ![k] = <<t>>]
  BY <1>1 DEF ServeProof
<1>4. /\ OffersAreStored' /\ PaidWasOffered' /\ KnownIsBacked'
      /\ SettledIsBacked' /\ ProofRequests' /\ CredentialRequests'
      /\ \A s \in Req : req'[s] = IF s = r THEN Idle ELSE req[s]
  BY <1>2, AnswerStep
<1>5. OneRunner'
  <2>1. \A s \in Req : req'[s].phase = "serveProof" => s # r /\ req'[s] = req[s]
    BY <1>4 DEF Idle
  <2>2. \A s \in Req : s # r /\ req[s].phase = "serveProof" => req[s].by # k
    BY <1>2 DEF GateInv, OneRunner
  <2>3. \A j \in Proof : j # k => executed'[j] = executed[j]
    BY <1>1, <1>3, <1>t DEF TypeOK
  <2>4. \A s \in Req : req[s].phase = "serveProof" => req[s].by \in Proof
    BY DEF GateInv, ProofRequests
  <2> QED BY <2>1, <2>2, <2>3, <2>4 DEF GateInv, OneRunner
<1>6. RunsWereSettled'
  <2> SUFFICES ASSUME NEW j \in Proof, executed'[j] # <<>>
               PROVE  /\ j \in settled'
                      /\ Len(executed'[j]) = 1
                      /\ Price[executed'[j][1]] <= AmountOf(j)'
    BY DEF RunsWereSettled
  <2>0. AmountOf(j)' = AmountOf(j)
    BY <1>2 DEF AmountOf
  <2>1. CASE j = k
    <3>1. executed'[j] = <<t>>
      BY <1>1, <1>3, <1>t, <2>1 DEF TypeOK
    <3> QED BY <1>1, <1>2, <2>0, <2>1, <3>1
  <2>2. CASE j # k
    <3>1. executed'[j] = executed[j]
      BY <1>1, <1>3, <1>t, <2>2 DEF TypeOK
    <3> QED BY <1>2, <2>0, <3>1 DEF GateInv, RunsWereSettled
  <2> QED BY <2>1, <2>2
<1>7. GrantsWereSettled'
  BY <1>2 DEF GateInv, GrantsWereSettled, AmountOf, AccountOf
<1> QED BY <1>4, <1>5, <1>6, <1>7 DEF GateInv

\* Ledger.Grant keeps the invariant: a new grants row repeats the challenge.
LEMMA GrantCreditsInv ==
  ASSUME GateInv, TypeOK', Grows, NEW r \in Req, NEW d \in BOOLEAN, GrantCredits(r, d)
  PROVE  GateInv'
<1> DEFINE k == req[r].by
<1>t. TypeOK
  BY DEF GateInv
<1>1. k \in Proof /\ k \in settled
  BY DEF GrantCredits, GateInv, ProofRequests
<1>2. /\ UNCHANGED <<challenge, onchain, settled, paid, wallet, offered, executed>>
      /\ Answer(r, d)
      /\ req[r].phase = "grant"
  BY DEF GrantCredits, storeVars, history
<1>3. \/ grants' = grants
      \/ grants' = [grants EXCEPT ![k] = [account |-> AccountOf(k), amount |-> AmountOf(k)]]
  BY DEF GrantCredits, Grant
<1>4. /\ OffersAreStored' /\ PaidWasOffered' /\ KnownIsBacked'
      /\ SettledIsBacked' /\ ProofRequests' /\ CredentialRequests'
      /\ \A s \in Req : req'[s] = IF s = r THEN Idle ELSE req[s]
  BY <1>2, AnswerStep
<1>5. OneRunner'
  <2>1. \A s \in Req : req'[s].phase = "serveProof" => req'[s] = req[s]
    BY <1>4 DEF Idle
  <2> QED BY <1>2, <2>1 DEF GateInv, OneRunner
<1>6. RunsWereSettled'
  BY <1>2 DEF GateInv, RunsWereSettled, AmountOf
<1>7. GrantsWereSettled'
  <2> SUFFICES ASSUME NEW j \in Proof, grants'[j] # NoGrant
               PROVE  /\ j \in settled'
                      /\ grants'[j].amount = AmountOf(j)'
                      /\ grants'[j].account = AccountOf(j)'
    BY DEF GrantsWereSettled
  <2>0. AmountOf(j)' = AmountOf(j) /\ AccountOf(j)' = AccountOf(j)
    BY <1>2 DEF AmountOf, AccountOf
  <2>1. CASE grants'[j] = grants[j]
    BY <1>2, <2>0, <2>1 DEF GateInv, GrantsWereSettled
  <2>2. CASE grants'[j] # grants[j]
    <3>1. j = k /\ grants'[j] = [account |-> AccountOf(k), amount |-> AmountOf(k)]
      BY <1>1, <1>3, <1>t, <2>2 DEF TypeOK, LedgerTypeOK
    <3> QED BY <1>1, <1>2, <2>0, <3>1
  <2> QED BY <2>1, <2>2
<1> QED BY <1>4, <1>5, <1>6, <1>7 DEF GateInv

\* Every step of a request that was accepted keeps the invariant.
LEMMA HandleInv ==
  ASSUME GateInv, TypeOK', Grows, NEW r \in Req, Handle(r)
  PROVE  GateInv'
<1> USE DEF ledger, storeVars, outside, history
<1>t. TypeOK
  BY DEF GateInv
<1>1. ASSUME NEW d \in BOOLEAN, Settle(r, d) \/ ServeProof(r, d) \/ GrantCredits(r, d)
      PROVE  GateInv'
  BY <1>1, SettleInv, ServeProofInv, GrantCreditsInv
<1>2. CASE ChargeCredential(r)
  <2>1. \E rec : /\ req' = [req EXCEPT ![r] = rec]
                 /\ \/ rec.phase = "idle"
                    \/ /\ rec.phase \in {"serveCharged", "serveReplay"}
                       /\ rec.by = req[r].by
                       /\ rec.target = req[r].target
    <3>1. req[r] \in ReqRec
      BY <1>t, ReqTyped
    <3>2. ASSUME NEW p \in {"serveCharged", "serveReplay"},
                 req' = [req EXCEPT ![r] = [req[r] EXCEPT !.phase = p]]
          PROVE  \E rec : /\ req' = [req EXCEPT ![r] = rec]
                          /\ rec.phase \in {"serveCharged", "serveReplay"}
                          /\ rec.by = req[r].by
                          /\ rec.target = req[r].target
      <4> DEFINE new == [req[r] EXCEPT !.phase = p]
      <4>1. new.phase = p /\ new.by = req[r].by /\ new.target = req[r].target
        BY <3>1 DEF ReqRec
      <4>2. req' = [req EXCEPT ![r] = new]
        BY <3>2
      <4> HIDE DEF new
      <4> QED BY <4>1, <4>2
    <3>3. \/ req' = [req EXCEPT ![r] = [req[r] EXCEPT !.phase = "serveReplay"]]
          \/ req' = [req EXCEPT ![r] = [req[r] EXCEPT !.phase = "serveCharged"]]
          \/ req' = [req EXCEPT ![r] = Idle]
      BY <1>2, <1>t DEF ChargeCredential, TypeOK
    <3>4. Idle.phase = "idle"
      BY DEF Idle
    <3> QED BY <3>2, <3>3, <3>4
  <2>2. PICK rec : /\ req' = [req EXCEPT ![r] = rec]
                   /\ \/ rec.phase = "idle"
                      \/ /\ rec.phase \in {"serveCharged", "serveReplay"}
                         /\ rec.by = req[r].by
                         /\ rec.target = req[r].target
    BY <2>1
  <2>3. req[r].by \in known /\ req[r].target \in Tool
    BY <1>2, CredentialRequest DEF ChargeCredential
  <2>4. UNCHANGED <<challenge, onchain, settled, paid, wallet, offered, known, executed, grants>>
    BY <1>2 DEF ChargeCredential, ChargeReplay, ChargeDebit, ChargeRefused
  <2> QED BY <2>2, <2>3, <2>4, PresentStep
<1>3. CASE ServeToken(r) \/ ServeCredit(r) \/ Fail(r)
  <2>1. /\ UNCHANGED <<challenge, onchain, settled, paid, wallet, offered, known, executed, grants>>
        /\ req' = [req EXCEPT ![r] = Idle]
    BY <1>3 DEF ServeToken, ServeCredit, Fail
  <2>2. Idle.phase = "idle"
    BY DEF Idle
  <2> QED BY <2>1, <2>2, PresentStep
<1> QED BY <1>1, <1>2, <1>3 DEF Handle

\* New challenges, payments, deposits, revocations, the clock and a restart
\* keep the invariant.
LEMMA OutsideInv ==
  ASSUME GateInv, TypeOK', Grows,
         \/ \E t \in CallTool, h \in Hash : BuildChallenge(t, h)
         \/ \E n \in TopUpAmount, h \in Hash, as \in DepositAddresses :
              BuildTopupChallenge(n, h, as)
         \/ \E h \in Hash : ChallengeFails(h)
         \/ \E n \in TopUpAmount, h \in Hash, as \in DepositAddresses \cup {{}} :
              TopupFails(n, h, as)
         \/ Environment
  PROVE  GateInv'
<1> USE DEF ledger, storeVars, outside, history
<1>t. TypeOK
  BY DEF GateInv
<1>o. \A c \in offered : IF c \in Hash THEN challenge'[c] # NoChallenge
                                       ELSE onchain'[c] # NoChallenge
  BY OldFactsStay
<1>n. now \in Nat
  BY <1>t DEF TypeOK, Time
<1>1. ASSUME NEW t \in CallTool, NEW h \in Hash, BuildChallenge(t, h) PROVE GateInv'
  <2>1. challenge'[h] # NoChallenge
    <3>1. ChallengeFor(t, Price[t]) \in ChallengeRec
      BY <1>n DEF ChallengeFor, ChallengeRec, Tool
    <3> QED BY <1>1, <1>t, <3>1 DEF BuildChallenge, PutChallenge, TypeOK
  <2>2. OffersAreStored' /\ PaidWasOffered'
    BY <1>1, <1>o, <2>1 DEF BuildChallenge, OffersAreStored, PaidWasOffered, GateInv
  <2> QED BY <1>1, <2>2, QuietStep DEF BuildChallenge
<1>2. ASSUME NEW n \in TopUpAmount, NEW h \in Hash, NEW as \in DepositAddresses,
             BuildTopupChallenge(n, h, as)
      PROVE GateInv'
  <2>0. as \subseteq Addr
    BY DepositAddressesTyped
  <2>1. challenge'[h] # NoChallenge
    <3>1. ChallengeFor(TopUp, n) \in ChallengeRec
      BY <1>n DEF ChallengeFor, ChallengeRec
    <3> QED BY <1>2, <1>t, <3>1 DEF BuildTopupChallenge, PutChallenge, TypeOK
  <2>2. \A a \in as : onchain'[a] # NoChallenge
    <3>1. [account |-> h, amount |-> n, expires |-> now + ChallengeTTL,
           tokenUntil |-> now + TokenTTL] \in OnchainRec
      BY <1>n DEF OnchainRec
    <3> QED BY <1>2, <2>0, <3>1 DEF BuildTopupChallenge, PutOnchainChallenges
  <2>3. OffersAreStored' /\ PaidWasOffered'
    BY <1>2, <1>o, <2>0, <2>1, <2>2
       DEF BuildTopupChallenge, OffersAreStored, PaidWasOffered, GateInv
  <2> QED BY <1>2, <2>3, QuietStep DEF BuildTopupChallenge
<1>3. ASSUME NEW h \in Hash, ChallengeFails(h) PROVE GateInv'
  <2>1. OffersAreStored' /\ PaidWasOffered'
    BY <1>3, <1>o DEF ChallengeFails, OffersAreStored, PaidWasOffered, GateInv
  <2> QED BY <1>3, <2>1, QuietStep DEF ChallengeFails
<1>topup. ASSUME NEW n \in TopUpAmount, NEW h \in Hash, NEW as \in DepositAddresses \cup {{}},
              TopupFails(n, h, as)
       PROVE GateInv'
  <2>1. OffersAreStored' /\ PaidWasOffered'
    BY <1>topup, <1>o DEF TopupFails, OffersAreStored, PaidWasOffered, GateInv
  <2> QED BY <1>topup, <2>1, QuietStep DEF TopupFails
<1>4. ASSUME NEW h \in Hash, PayInvoice(h) PROVE GateInv'
  <2>1. OffersAreStored' /\ PaidWasOffered'
    BY <1>4, <1>o DEF PayInvoice, OffersAreStored, PaidWasOffered, GateInv
  <2> QED BY <1>4, <2>1, QuietStep DEF PayInvoice
<1>5. CASE \/ \E x \in TxId, a \in Addr, n \in TopUpAmount : SendDeposit(x, a, n)
           \/ \E x \in TxId : ConfirmDeposit(x)
           \/ \E c \in Cred : Revoke(c)
           \/ Tick
           \/ Restart
  <2>1. /\ UNCHANGED <<challenge, onchain, settled, paid, offered, known, executed, grants>>
        /\ req' = req \/ req' = [r \in Req |-> Idle]
    BY <1>5 DEF SendDeposit, ConfirmDeposit, Revoke, DeleteRootKey, Tick, Restart
  <2>2. OffersAreStored' /\ PaidWasOffered'
    BY <1>o, <2>1 DEF OffersAreStored, PaidWasOffered, GateInv
  <2> QED BY <2>1, <2>2, QuietStep
<1> QED BY <1>1, <1>2, <1>3, <1>topup, <1>4, <1>5 DEF Environment

\* GateInv is inductive.
LEMMA StepGateInv ==
  ASSUME GateInv, [Next]_vars
  PROVE  GateInv'
<1>t. TypeOK
  BY DEF GateInv
<1>1. CASE Next
  <2>1. Grows
    BY <1>1, <1>t, NextGrows
  <2>2. TypeOK'
    BY <1>1, <1>t, BuildTyped, EnvironmentTyped, RequestTyped DEF Next
  <2> QED BY <1>1, <2>1, <2>2, PresentInv, HandleInv, OutsideInv DEF Next
<1>2. CASE UNCHANGED vars
  BY <1>2 DEF vars, GateInv, TypeOK, LedgerTypeOK, OffersAreStored, PaidWasOffered,
       KnownIsBacked, SettledIsBacked, ProofRequests, CredentialRequests, OneRunner,
       RunsWereSettled, GrantsWereSettled, Backed, CoversPrice, AmountOf, AccountOf
<1> QED BY <1>1, <1>2

-----------------------------------------------------------------------------
(* The accounts add up *)

\* The account a credential names does not change.
LEMMA AccountStays ==
  ASSUME GateInv, Grows, NEW c \in known
  PROVE  TokenAccount(c)' = TokenAccount(c)
<1>1. c \in Cred /\ (c \notin Hash => onchain[c] \in OnchainRec)
  BY KnownTyped
<1>2. CASE c \in Hash
  BY <1>2 DEF TokenAccount
<1>3. CASE c \notin Hash
  <2>1. c \in Addr /\ onchain[c] # NoChallenge
    BY <1>1, <1>3 DEF Cred
  <2> QED BY <1>3, <2>1 DEF TokenAccount, Grows
<1> QED BY <1>2, <1>3

\* A step changes an account by one grant, by one debit, or not at all.
LEMMA MoneySteps ==
  ASSUME TypeOK, Next
  PROVE  \/ UNCHANGED ledger
         \/ \E r \in Req : req[r].phase = "grant" /\ Grant(AccountOf(req[r].by), AmountOf(req[r].by), req[r].by)
         \/ \E r \in Req : /\ req[r].phase = "charge"
                           /\ ChargeDebit(TokenAccount(req[r].by), Price[req[r].target], req[r].key)
                           /\ req' = [req EXCEPT ![r] = [req[r] EXCEPT !.phase = "serveCharged"]]
<1> USE DEF ledger, storeVars, outside, history
<1>1. ASSUME NEW r \in Req, Handle(r)
      PROVE  \/ UNCHANGED ledger
             \/ req[r].phase = "grant" /\ Grant(AccountOf(req[r].by), AmountOf(req[r].by), req[r].by)
             \/ /\ req[r].phase = "charge"
                /\ ChargeDebit(TokenAccount(req[r].by), Price[req[r].target], req[r].key)
                /\ req' = [req EXCEPT ![r] = [req[r] EXCEPT !.phase = "serveCharged"]]
  <2>1. ASSUME NEW d \in BOOLEAN, Settle(r, d) \/ ServeProof(r, d) PROVE UNCHANGED ledger
    BY <2>1 DEF Settle, ServeProof
  <2>2. ASSUME NEW d \in BOOLEAN, GrantCredits(r, d)
        PROVE  req[r].phase = "grant" /\ Grant(AccountOf(req[r].by), AmountOf(req[r].by), req[r].by)
    BY <2>2 DEF GrantCredits
  <2>3. ASSUME ServeToken(r) \/ ServeCredit(r) \/ Fail(r) PROVE UNCHANGED ledger
    BY <2>3 DEF ServeToken, ServeCredit, Fail
  <2>4. ASSUME ChargeCredential(r)
        PROVE  \/ UNCHANGED ledger
               \/ /\ req[r].phase = "charge"
                  /\ ChargeDebit(TokenAccount(req[r].by), Price[req[r].target], req[r].key)
                  /\ req' = [req EXCEPT ![r] = [req[r] EXCEPT !.phase = "serveCharged"]]
    BY <2>4 DEF ChargeCredential, ChargeReplay, ChargeRefused, TypeOK
  <2> QED BY <1>1, <2>1, <2>2, <2>3, <2>4 DEF Handle
<1>2. ASSUME NEW r \in Req, Present(r) PROVE UNCHANGED ledger
  BY <1>2 DEF Present, PresentProof, PresentToken, PresentCredit
<1>3. ASSUME Environment PROVE UNCHANGED ledger
  BY <1>3 DEF Environment, PayInvoice, SendDeposit, ConfirmDeposit, Revoke, Tick, Restart
<1>4. ASSUME \/ \E t \in CallTool, h \in Hash : BuildChallenge(t, h)
             \/ \E n \in TopUpAmount, h \in Hash, as \in DepositAddresses :
                  BuildTopupChallenge(n, h, as)
             \/ \E h \in Hash : ChallengeFails(h)
             \/ \E n \in TopUpAmount, h \in Hash, as \in DepositAddresses \cup {{}} :
                  TopupFails(n, h, as)
      PROVE  UNCHANGED ledger
  BY <1>4 DEF BuildChallenge, BuildTopupChallenge, ChallengeFails, TopupFails
<1> QED BY <1>1, <1>2, <1>3, <1>4 DEF Next

\* A grant adds its row to the rows of one account.
LEMMA GrantSolvent ==
  ASSUME LedgerTypeOK, Solvent, \A a \in Hash : IsFiniteSet(GrantsTo(a)),
         NEW a \in Hash, NEW n \in Nat \ {0}, NEW k \in Proof, Grant(a, n, k)
  PROVE  Solvent' /\ \A b \in Hash : IsFiniteSet(GrantsTo(b)')
<1>1. CASE grants[k] # NoGrant
  <2>1. UNCHANGED <<balance, grants, charged>>
    BY <1>1 DEF Grant
  <2>2. \A b \in Hash : GrantsTo(b)' = GrantsTo(b)
    BY <2>1 DEF GrantsTo
  <2> QED BY <2>1, <2>2 DEF Solvent
<1>2. CASE grants[k] = NoGrant
  <2> DEFINE row == [account |-> a, amount |-> n]
  <2>1. /\ grants' = [grants EXCEPT ![k] = row]
        /\ balance' = [balance EXCEPT ![a] = @ + n] /\ charged' = charged
    BY <1>2 DEF Grant
  <2>2. row # NoGrant /\ row.account = a /\ row.amount = n
    <3>1. row \in GrantRow
      BY DEF GrantRow
    <3> QED BY <3>1
  <2>3. grants'[k] = row /\ \A j \in Proof : j # k => grants'[j] = grants[j]
    BY <2>1 DEF LedgerTypeOK
  <2> HIDE DEF row
  <2>4. ASSUME NEW b \in Hash
        PROVE  /\ IsFiniteSet(GrantsTo(b)')
               /\ balance'[b] + charged'[b]
                    = SumFunction([j \in GrantsTo(b)' |-> grants'[j].amount])
    <3> DEFINE f == [j \in GrantsTo(b) |-> grants[j].amount]
               g == [j \in GrantsTo(b)' |-> grants'[j].amount]
    <3>1. Counts(f, GrantsTo(b))
      BY DEF LedgerTypeOK, GrantRow, GrantsTo, Counts
    <3>2. /\ balance[b] \in Nat /\ charged[b] \in Nat
          /\ balance[b] + charged[b] = SumFunctionOnSet(f, GrantsTo(b))
      BY DEF LedgerTypeOK, Solvent, SumFunction
    <3>3. k \notin GrantsTo(b) /\ \A j \in GrantsTo(b) : j \in Proof /\ j # k
      BY <1>2 DEF GrantsTo
    <3>4. CASE b = a
      <4>1. GrantsTo(b)' = GrantsTo(b) \cup {k}
        BY <2>2, <2>3, <3>3, <3>4 DEF GrantsTo
      <4>2. /\ g[k] = n /\ \A j \in GrantsTo(b) : g[j] = f[j]
            /\ DOMAIN g = GrantsTo(b) \cup {k}
        BY <2>2, <2>3, <3>3, <4>1
      <4> HIDE DEF f, g
      <4>3. /\ Counts(g, GrantsTo(b) \cup {k})
            /\ SumFunctionOnSet(g, GrantsTo(b) \cup {k}) = SumFunctionOnSet(f, GrantsTo(b)) + n
        <5>1. g[k] \in Nat
          BY <4>2
        <5>2. Counts(g, GrantsTo(b)) /\ SumFunctionOnSet(g, GrantsTo(b)) = SumFunctionOnSet(f, GrantsTo(b))
          BY <3>1, <4>2, SumSame
        <5>3. /\ Counts(g, GrantsTo(b) \cup {k})
              /\ SumFunctionOnSet(g, GrantsTo(b) \cup {k}) = SumFunctionOnSet(g, GrantsTo(b)) + g[k]
          BY <3>3, <5>1, <5>2, SumAdd
        <5> QED BY <4>2, <5>2, <5>3
      <4>4. IsFiniteSet(GrantsTo(b)') /\ SumFunction(g) = SumFunctionOnSet(f, GrantsTo(b)) + n
        BY <4>1, <4>2, <4>3 DEF SumFunction, Counts
      <4>5. balance'[b] + charged'[b] = balance[b] + charged[b] + n
        BY <2>1, <3>2, <3>4 DEF LedgerTypeOK
      <4>6. balance'[b] + charged'[b] = SumFunction(g)
        BY <3>2, <4>4, <4>5
      <4> QED BY <4>4, <4>6 DEF g
    <3>5. CASE b # a
      <4>1. GrantsTo(b)' = GrantsTo(b)
        BY <2>2, <2>3, <3>3, <3>5 DEF GrantsTo
      <4>2. g = f
        BY <2>3, <3>3, <4>1
      <4>3. balance'[b] + charged'[b] = balance[b] + charged[b]
        BY <2>1, <3>5 DEF LedgerTypeOK
      <4>4. DOMAIN f = GrantsTo(b)
        OBVIOUS
      <4> QED BY <3>2, <4>1, <4>2, <4>3, <4>4 DEF SumFunction
    <3> QED BY <3>4, <3>5
  <2> QED BY <2>4 DEF Solvent
<1> QED BY <1>1, <1>2

\* Every step keeps the accounts solvent.
LEMMA StepSolvent ==
  ASSUME MoneyInv, Next
  PROVE  Solvent' /\ \A a \in Hash : IsFiniteSet(GrantsTo(a)')
<1>t. GateInv /\ TypeOK /\ LedgerTypeOK
  BY DEF MoneyInv, GateInv, TypeOK
<1>m. Solvent /\ \A a \in Hash : IsFiniteSet(GrantsTo(a))
  BY DEF MoneyInv
<1>1. CASE UNCHANGED ledger
  <2>1. UNCHANGED <<balance, grants, charged>>
    BY <1>1 DEF ledger
  <2>2. \A a \in Hash : GrantsTo(a)' = GrantsTo(a)
    BY <2>1 DEF GrantsTo
  <2> QED BY <1>m, <2>1, <2>2 DEF Solvent
<1>2. ASSUME NEW r \in Req, req[r].phase = "grant",
             Grant(AccountOf(req[r].by), AmountOf(req[r].by), req[r].by)
      PROVE  Solvent' /\ \A a \in Hash : IsFiniteSet(GrantsTo(a)')
  <2>1. /\ req[r].by \in Proof
        /\ AmountOf(req[r].by) \in Nat \ {0} /\ AccountOf(req[r].by) \in Hash
    BY <1>2, <1>t, ProofRequest
  <2> QED BY <1>2, <1>t, <1>m, <2>1, GrantSolvent
<1>3. ASSUME NEW r \in Req, req[r].phase = "charge",
             ChargeDebit(TokenAccount(req[r].by), Price[req[r].target], req[r].key)
      PROVE  Solvent' /\ \A a \in Hash : IsFiniteSet(GrantsTo(a)')
  <2> DEFINE c == TokenAccount(req[r].by)
             n == Price[req[r].target]
  <2>1. c \in Hash /\ n \in Nat
    BY <1>3, <1>t, CredentialRequest
  <2>2. /\ grants' = grants
        /\ balance' = [balance EXCEPT ![c] = @ - n] /\ charged' = [charged EXCEPT ![c] = @ + n]
    BY <1>3 DEF ChargeDebit
  <2>3. \A a \in Hash : GrantsTo(a)' = GrantsTo(a)
    BY <2>2 DEF GrantsTo
  <2> HIDE DEF c, n
  <2>4. \A a \in Hash : balance'[a] + charged'[a] = balance[a] + charged[a]
    BY <1>t, <2>1, <2>2 DEF LedgerTypeOK
  <2> QED BY <1>m, <2>2, <2>3, <2>4 DEF Solvent
<1> QED BY <1>t, <1>1, <1>2, <1>3, MoneySteps

\* Where a request starts charged work, and where one ends it.
LEMMA WorkSteps ==
  ASSUME TypeOK, Next
  PROVE  \/ /\ UNCHANGED creditRuns
            /\ \A r \in Req : req'[r].phase = "serveCharged" => req'[r] = req[r]
         \/ \E r \in Req : /\ UNCHANGED creditRuns
                           /\ req[r].phase = "charge"
                           /\ ChargeDebit(TokenAccount(req[r].by), Price[req[r].target], req[r].key)
                           /\ req' = [req EXCEPT ![r] = [req[r] EXCEPT !.phase = "serveCharged"]]
         \/ \E r \in Req : /\ req[r].phase = "serveCharged"
                           /\ req' = [req EXCEPT ![r] = Idle]
                           /\ creditRuns' = [creditRuns EXCEPT ![TokenAccount(req[r].by)] =
                                               @ + Price[req[r].target]]
<1> USE DEF ledger, storeVars, outside, history
<1> DEFINE Quiet == /\ UNCHANGED creditRuns
                    /\ \A r \in Req : req'[r].phase = "serveCharged" => req'[r] = req[r]
<1>1. ASSUME NEW r \in Req, NEW rec, UNCHANGED creditRuns, rec.phase # "serveCharged",
             req' = [req EXCEPT ![r] = rec]
      PROVE  Quiet
  BY <1>1 DEF TypeOK
<1>i. Idle.phase # "serveCharged"
  BY DEF Idle
<1>2. ASSUME NEW r \in Req, Present(r) PROVE Quiet
  <2>1. ASSUME NEW k \in Proof, NEW t \in CallTool \cup TopUpEndpoint, PresentProof(r, k, t) PROVE Quiet
    BY <1>1, <2>1 DEF PresentProof
  <2>2. ASSUME NEW c \in Cred, NEW t \in CallTool \ McpTool, PresentToken(r, c, t) PROVE Quiet
    BY <1>1, <2>2 DEF PresentToken
  <2>3. ASSUME NEW c \in Cred, NEW t \in CreditTool, NEW key \in IdemKey \cup {NoKey},
               PresentCredit(r, c, t, key)
        PROVE  Quiet
    BY <1>1, <2>3 DEF PresentCredit
  <2> QED BY <1>2, <2>1, <2>2, <2>3 DEF Present
<1>3. ASSUME NEW r \in Req, req' = [req EXCEPT ![r] = Idle], UNCHANGED creditRuns PROVE Quiet
  BY <1>1, <1>3, <1>i
<1>4. ASSUME NEW r \in Req, NEW d \in BOOLEAN, Settle(r, d) PROVE Quiet
  <2>1. UNCHANGED creditRuns
    BY <1>4 DEF Settle
  <2>2. CASE req[r].target \in Tool /\ AlreadySettled(req[r].by)
    BY <1>3, <1>4, <2>1, <2>2 DEF Settle, Answer
  <2>3. CASE ~(req[r].target \in Tool /\ AlreadySettled(req[r].by))
    <3> DEFINE rec == [req[r] EXCEPT !.phase =
                         IF req[r].target \in Tool THEN "serveProof" ELSE "grant"]
    <3>1. req' = [req EXCEPT ![r] = rec]
      BY <1>4, <2>3 DEF Settle, TypeOK
    <3>2. rec.phase # "serveCharged"
      BY ReqTyped DEF ReqRec
    <3> HIDE DEF rec
    <3> QED BY <1>1, <2>1, <3>1, <3>2
  <2> QED BY <2>2, <2>3
<1>5. ASSUME NEW r \in Req, NEW d \in BOOLEAN, ServeProof(r, d) \/ GrantCredits(r, d) PROVE Quiet
  BY <1>3, <1>5 DEF ServeProof, GrantCredits, Answer
<1>6. ASSUME NEW r \in Req, ServeToken(r) \/ Fail(r) PROVE Quiet
  BY <1>3, <1>6 DEF ServeToken, Fail
<1>7. ASSUME NEW r \in Req, ChargeCredential(r)
      PROVE  \/ Quiet
             \/ /\ UNCHANGED creditRuns
                /\ req[r].phase = "charge"
                /\ ChargeDebit(TokenAccount(req[r].by), Price[req[r].target], req[r].key)
                /\ req' = [req EXCEPT ![r] = [req[r] EXCEPT !.phase = "serveCharged"]]
  <2>1. UNCHANGED creditRuns /\ req[r].phase = "charge"
    BY <1>7 DEF ChargeCredential
  <2>2. CASE req' = [req EXCEPT ![r] = [req[r] EXCEPT !.phase = "serveReplay"]]
    <3> DEFINE rec == [req[r] EXCEPT !.phase = "serveReplay"]
    <3>1. rec.phase # "serveCharged"
      BY ReqTyped DEF ReqRec
    <3>2. req' = [req EXCEPT ![r] = rec]
      BY <2>2
    <3> HIDE DEF rec
    <3> QED BY <1>1, <2>1, <3>1, <3>2
  <2>3. CASE req' = [req EXCEPT ![r] = Idle]
    BY <1>3, <2>1, <2>3
  <2>4. \/ req' = [req EXCEPT ![r] = [req[r] EXCEPT !.phase = "serveReplay"]]
        \/ req' = [req EXCEPT ![r] = Idle]
        \/ /\ ChargeDebit(TokenAccount(req[r].by), Price[req[r].target], req[r].key)
           /\ req' = [req EXCEPT ![r] = [req[r] EXCEPT !.phase = "serveCharged"]]
    BY <1>7 DEF ChargeCredential, TypeOK
  <2> QED BY <2>1, <2>2, <2>3, <2>4
<1>8. ASSUME NEW r \in Req, ServeCredit(r)
      PROVE  \/ Quiet
             \/ /\ req[r].phase = "serveCharged"
                /\ req' = [req EXCEPT ![r] = Idle]
                /\ creditRuns' = [creditRuns EXCEPT ![TokenAccount(req[r].by)] =
                                    @ + Price[req[r].target]]
  BY <1>3, <1>8 DEF ServeCredit
<1>9. ASSUME \/ Environment
             \/ \E t \in CallTool, h \in Hash : BuildChallenge(t, h)
             \/ \E n \in TopUpAmount, h \in Hash, as \in DepositAddresses :
                  BuildTopupChallenge(n, h, as)
             \/ \E h \in Hash : ChallengeFails(h)
             \/ \E n \in TopUpAmount, h \in Hash, as \in DepositAddresses \cup {{}} :
                  TopupFails(n, h, as)
      PROVE  Quiet
  <2>1. UNCHANGED creditRuns /\ (req' = req \/ req' = [r \in Req |-> Idle])
    BY <1>9 DEF Environment, PayInvoice, SendDeposit, ConfirmDeposit, Revoke, Tick, Restart,
                BuildChallenge, BuildTopupChallenge, ChallengeFails, TopupFails
  <2> QED BY <1>i, <2>1
<1> HIDE DEF Quiet
<1>10. ASSUME NEW r \in Req, Handle(r)
       PROVE  \/ Quiet
              \/ /\ UNCHANGED creditRuns
                 /\ req[r].phase = "charge"
                 /\ ChargeDebit(TokenAccount(req[r].by), Price[req[r].target], req[r].key)
                 /\ req' = [req EXCEPT ![r] = [req[r] EXCEPT !.phase = "serveCharged"]]
              \/ /\ req[r].phase = "serveCharged"
                 /\ req' = [req EXCEPT ![r] = Idle]
                 /\ creditRuns' = [creditRuns EXCEPT ![TokenAccount(req[r].by)] =
                                     @ + Price[req[r].target]]
  BY <1>4, <1>5, <1>6, <1>7, <1>8, <1>10 DEF Handle
<1>11. \/ Quiet
       \/ \E r \in Req : Handle(r)
  BY <1>2, <1>9 DEF Next
<1> QED BY <1>10, <1>11 DEF Quiet

\* Every step keeps the work done or about to be done within what was charged.
LEMMA StepWork ==
  ASSUME MoneyInv, Next, GateInv'
  PROVE  WorkIsCharged' /\ \A a \in Hash : IsFiniteSet(Working(a)')
<1>t. GateInv /\ TypeOK /\ TypeOK' /\ LedgerTypeOK /\ LedgerTypeOK' /\ Grows
  BY NextGrows DEF MoneyInv, GateInv, TypeOK
<1> DEFINE f(a) == [r \in Working(a) |-> Price[req[r].target]]
           g(a) == [r \in Working(a)' |-> Price[req'[r].target]]
<1>p. \A r \in Req : req[r].phase = "serveCharged" =>
        /\ req[r].by \in known /\ Price[req[r].target] \in Nat
        /\ TokenAccount(req[r].by) \in Hash
  BY <1>t, CredentialRequest
<1>w. ASSUME NEW a \in Hash
      PROVE  /\ creditRuns[a] \in Nat /\ charged[a] \in Nat
             /\ Counts(f(a), Working(a))
             /\ SumFunctionOnSet(f(a), Working(a)) \in Nat
             /\ creditRuns[a] + SumFunctionOnSet(f(a), Working(a)) <= charged[a]
  <2>1. Counts(f(a), Working(a))
    BY <1>p DEF MoneyInv, Counts, Working
  <2>2. creditRuns[a] + SumFunctionOnSet(f(a), Working(a)) <= charged[a]
    BY DEF MoneyInv, WorkIsCharged, SumFunction
  <2> QED BY <1>t, <2>1, <2>2, SumNat DEF TypeOK, LedgerTypeOK
<1>s. ASSUME NEW a \in Hash, NEW r \in Req, req'[r] = req[r]
      PROVE  r \in Working(a)' <=> r \in Working(a)
  <2>1. req[r].phase = "serveCharged" => TokenAccount(req[r].by)' = TokenAccount(req[r].by)
    <3>1. ASSUME req[r].phase = "serveCharged" PROVE TokenAccount(req[r].by)' = TokenAccount(req[r].by)
      <4>1. \A c \in known : TokenAccount(c)' = TokenAccount(c)
        BY <1>t, AccountStays
      <4> QED BY <1>p, <1>s, <3>1, <4>1
    <3> QED BY <3>1
  <2> QED BY <1>s, <2>1 DEF Working
<1>c. \A a \in Hash : charged'[a] >= charged[a]
  <2>1. ASSUME NEW r \in Req, req[r].phase = "charge",
               ChargeDebit(TokenAccount(req[r].by), Price[req[r].target], req[r].key)
        PROVE  \A a \in Hash : charged'[a] >= charged[a]
    <3>1. TokenAccount(req[r].by) \in Hash /\ Price[req[r].target] \in Nat
      BY <1>t, <2>1, CredentialRequest
    <3> QED BY <1>t, <2>1, <3>1 DEF ChargeDebit, LedgerTypeOK
  <2>2. CASE charged' = charged
    BY <1>t, <2>2 DEF LedgerTypeOK
  <2> QED BY <1>t, <2>1, <2>2, MoneySteps DEF Grant, ledger
<1>g. ASSUME NEW a \in Hash, Counts(g(a), Working(a)'),
             creditRuns'[a] + SumFunctionOnSet(g(a), Working(a)') <= charged'[a]
      PROVE  /\ creditRuns'[a] + SumFunction(g(a)) <= charged'[a]
             /\ IsFiniteSet(Working(a)')
  <2>1. DOMAIN g(a) = Working(a)'
    OBVIOUS
  <2> QED BY <1>g, <2>1 DEF Counts, SumFunction
<1>1. CASE /\ UNCHANGED creditRuns
           /\ \A r \in Req : req'[r].phase = "serveCharged" => req'[r] = req[r]
  <2>1. ASSUME NEW a \in Hash
        PROVE  /\ Counts(g(a), Working(a)')
               /\ creditRuns'[a] + SumFunctionOnSet(g(a), Working(a)') <= charged'[a]
    <3>1. Working(a)' \in SUBSET Working(a)
      BY <1>1, <1>s DEF Working
    <3>2. \A r \in Working(a)' : g(a)[r] = f(a)[r]
      BY <1>1, <3>1 DEF Working
    <3> HIDE DEF f, g
    <3>3. /\ Counts(g(a), Working(a)')
          /\ SumFunctionOnSet(g(a), Working(a)') <= SumFunctionOnSet(f(a), Working(a))
      BY <1>w, <3>1, <3>2, SumShrink
    <3>4. SumFunctionOnSet(g(a), Working(a)') \in Nat
      BY <3>3, SumNat
    <3>5. charged'[a] \in Nat
      BY <1>t DEF LedgerTypeOK
    <3> QED BY <1>1, <1>w, <1>c, <3>3, <3>4, <3>5
  <2> QED BY <1>g, <2>1 DEF WorkIsCharged
<1>2. ASSUME NEW r \in Req, UNCHANGED creditRuns, req[r].phase = "charge",
             ChargeDebit(TokenAccount(req[r].by), Price[req[r].target], req[r].key),
             req' = [req EXCEPT ![r] = [req[r] EXCEPT !.phase = "serveCharged"]]
      PROVE  WorkIsCharged' /\ \A a \in Hash : IsFiniteSet(Working(a)')
  <2> DEFINE b == TokenAccount(req[r].by)
             n == Price[req[r].target]
  <2>1. b \in Hash /\ n \in Nat /\ req[r].by \in known
    BY <1>2, <1>t, CredentialRequest
  <2>2. /\ req'[r].phase = "serveCharged" /\ req'[r].by = req[r].by /\ req'[r].target = req[r].target
        /\ \A s \in Req : s # r => req'[s] = req[s]
    BY <1>2, <1>t, ReqTyped DEF TypeOK, ReqRec
  <2>3. TokenAccount(req[r].by)' = b
    <3>1. \A c \in known : TokenAccount(c)' = TokenAccount(c)
      BY <1>t, AccountStays
    <3> QED BY <2>1, <2>2, <3>1
  <2>4. charged' = [charged EXCEPT ![b] = @ + n]
    BY <1>2 DEF ChargeDebit
  <2>5. ASSUME NEW a \in Hash
        PROVE  /\ Counts(g(a), Working(a)')
               /\ creditRuns'[a] + SumFunctionOnSet(g(a), Working(a)') <= charged'[a]
    <3>1. r \notin Working(a)
      BY <1>2 DEF Working
    <3>2. CASE a = b
      <4>1. Working(a)' = Working(a) \cup {r}
        BY <1>s, <2>2, <2>3, <3>2 DEF Working
      <4>2. g(a)[r] = n /\ \A s \in Working(a) : g(a)[s] = f(a)[s]
        <5>1. \A s \in Working(a) : s \in Req /\ s # r
          BY <3>1 DEF Working
        <5> QED BY <2>2, <4>1, <5>1
      <4>3. charged'[a] = charged[a] + n
        BY <1>t, <2>1, <2>4, <3>2 DEF LedgerTypeOK
      <4> HIDE DEF f, g, n, b
      <4>4. /\ Counts(g(a), Working(a) \cup {r})
            /\ SumFunctionOnSet(g(a), Working(a) \cup {r}) = SumFunctionOnSet(f(a), Working(a)) + n
        <5>1. g(a)[r] \in Nat /\ Counts(f(a), Working(a))
          BY <1>w, <2>1, <4>2
        <5>2. /\ Counts(g(a), Working(a))
              /\ SumFunctionOnSet(g(a), Working(a)) = SumFunctionOnSet(f(a), Working(a))
          BY <4>2, <5>1, SumSame
        <5>3. /\ Counts(g(a), Working(a) \cup {r})
              /\ SumFunctionOnSet(g(a), Working(a) \cup {r})
                   = SumFunctionOnSet(g(a), Working(a)) + g(a)[r]
          BY <3>1, <5>1, <5>2, SumAdd
        <5> QED BY <4>2, <5>2, <5>3
      <4>5. /\ Counts(g(a), Working(a)')
            /\ SumFunctionOnSet(g(a), Working(a)') = SumFunctionOnSet(f(a), Working(a)) + n
        BY <4>1, <4>4
      <4> QED BY <1>2, <1>w, <2>1, <4>3, <4>5
    <3>3. CASE a # b
      <4>1. Working(a)' = Working(a)
        BY <1>s, <2>2, <2>3, <3>1, <3>3 DEF Working
      <4>2. \A s \in Working(a) : g(a)[s] = f(a)[s]
        <5>1. \A s \in Working(a) : s \in Req /\ s # r
          BY <3>1 DEF Working
        <5> QED BY <2>2, <4>1, <5>1
      <4> HIDE DEF f, g
      <4>3. Counts(g(a), Working(a)) /\ SumFunctionOnSet(g(a), Working(a)) = SumFunctionOnSet(f(a), Working(a))
        BY <1>w, <4>2, SumSame
      <4>4. Counts(g(a), Working(a)') /\ SumFunctionOnSet(g(a), Working(a)') = SumFunctionOnSet(f(a), Working(a))
        BY <4>1, <4>3
      <4>5. charged'[a] \in Nat
        BY <1>t DEF LedgerTypeOK
      <4> QED BY <1>2, <1>w, <1>c, <4>4, <4>5
    <3> QED BY <3>2, <3>3
  <2> QED BY <1>g, <2>5 DEF WorkIsCharged
<1>3. ASSUME NEW r \in Req, req[r].phase = "serveCharged", req' = [req EXCEPT ![r] = Idle],
             creditRuns' = [creditRuns EXCEPT ![TokenAccount(req[r].by)] = @ + Price[req[r].target]]
      PROVE  WorkIsCharged' /\ \A a \in Hash : IsFiniteSet(Working(a)')
  <2> DEFINE b == TokenAccount(req[r].by)
             n == Price[req[r].target]
  <2>1. b \in Hash /\ n \in Nat
    BY <1>3, <1>p
  <2>2. /\ req'[r].phase # "serveCharged"
        /\ \A s \in Req : s # r => req'[s] = req[s]
    BY <1>3, <1>t DEF TypeOK, Idle
  <2>3. ASSUME NEW a \in Hash
        PROVE  /\ Counts(g(a), Working(a)')
               /\ creditRuns'[a] + SumFunctionOnSet(g(a), Working(a)') <= charged'[a]
    <3>1. Working(a)' = Working(a) \ {r}
      BY <1>s, <2>2 DEF Working
    <3>2. \A s \in Working(a)' : g(a)[s] = f(a)[s] /\ s \in Working(a)
      BY <2>2, <3>1 DEF Working
    <3>3. r \in Working(a) => a = b /\ f(a)[r] = n
      BY DEF Working
    <3>4. a = b => r \in Working(a)
      BY <1>3 DEF Working
    <3>5. creditRuns'[a] = IF a = b THEN creditRuns[a] + n ELSE creditRuns[a]
      BY <1>3, <1>t, <2>1 DEF TypeOK
    <3>6. charged'[a] \in Nat /\ charged'[a] >= charged[a]
      BY <1>t, <1>c DEF LedgerTypeOK
    <3> HIDE DEF f, g, b, n
    <3>7. Counts(f(a), Working(a)') /\ SumFunctionOnSet(f(a), Working(a)') <= SumFunctionOnSet(f(a), Working(a))
      BY <1>w, <3>2, SumSubset
    <3>8. Counts(g(a), Working(a)') /\ SumFunctionOnSet(g(a), Working(a)') = SumFunctionOnSet(f(a), Working(a)')
      BY <3>2, <3>7, SumSame
    <3>9. SumFunctionOnSet(f(a), Working(a)') \in Nat
      BY <3>7, SumNat
    <3>10. CASE a # b
      BY <1>w, <3>5, <3>6, <3>7, <3>8, <3>9, <3>10
    <3>11. CASE a = b
      <4>1. r \in Working(a) /\ f(a)[r] = n /\ r \notin Working(a)' /\ Working(a)' \cup {r} = Working(a)
        BY <3>1, <3>3, <3>4, <3>11
      <4>2. SumFunctionOnSet(f(a), Working(a)' \cup {r}) = SumFunctionOnSet(f(a), Working(a)') + n
        BY <2>1, <3>7, <4>1, SumAdd
      <4>3. SumFunctionOnSet(f(a), Working(a)) = SumFunctionOnSet(f(a), Working(a)') + n
        BY <4>1, <4>2
      <4> QED BY <1>w, <2>1, <3>5, <3>6, <3>8, <3>9, <3>11, <4>3
    <3> QED BY <3>10, <3>11
  <2> QED BY <1>g, <2>3 DEF WorkIsCharged
<1> QED BY <1>t, <1>1, <1>2, <1>3, WorkSteps

\* The first state adds up, and so does every later one.
LEMMA MoneyInvariant ==
  /\ Init => MoneyInv
  /\ MoneyInv /\ [Next]_vars => MoneyInv'
<1>1. ASSUME Init PROVE MoneyInv
  <2>1. \A a \in Hash : GrantsTo(a) = {} /\ Working(a) = {}
    BY <1>1 DEF Init, LedgerInit, GrantsTo, Working, Idle
  <2>2. \A a \in Hash : balance[a] = 0 /\ charged[a] = 0 /\ creditRuns[a] = 0
    BY <1>1 DEF Init, LedgerInit
  <2>3. ASSUME NEW f, DOMAIN f = {} PROVE SumFunction(f) = 0
    BY <2>3, SumEmpty DEF SumFunction
  <2>4. ASSUME NEW a \in Hash
        PROVE  /\ balance[a] + charged[a] = SumFunction([k \in GrantsTo(a) |-> grants[k].amount])
               /\ creditRuns[a] + SumFunction([r \in Working(a) |-> Price[req[r].target]]) <= charged[a]
               /\ IsFiniteSet(GrantsTo(a)) /\ IsFiniteSet(Working(a))
    <3> DEFINE f == [k \in GrantsTo(a) |-> grants[k].amount]
               g == [r \in Working(a) |-> Price[req[r].target]]
    <3>1. DOMAIN f = {} /\ DOMAIN g = {}
      BY <2>1
    <3> HIDE DEF f, g
    <3>2. SumFunction(f) = 0 /\ SumFunction(g) = 0
      BY <2>3, <3>1
    <3>3. balance[a] + charged[a] = SumFunction(f) /\ creditRuns[a] + SumFunction(g) <= charged[a]
      BY <2>2, <3>2
    <3> QED BY <2>1, <3>3, FS_EmptySet DEF f, g
  <2>5. Solvent /\ WorkIsCharged
    BY <2>4 DEF Solvent, WorkIsCharged
  <2> QED BY <1>1, <2>4, <2>5, InitGateInv DEF MoneyInv
<1>2. ASSUME MoneyInv, [Next]_vars PROVE MoneyInv'
  <2>1. GateInv'
    BY <1>2, StepGateInv DEF MoneyInv
  <2>2. CASE Next
    BY <1>2, <2>1, <2>2, StepSolvent, StepWork DEF MoneyInv
  <2>3. CASE UNCHANGED vars
    <3>1. UNCHANGED <<balance, grants, charged, req, creditRuns, onchain>>
      BY <2>3 DEF vars
    <3>2. \A a \in Hash : GrantsTo(a)' = GrantsTo(a) /\ Working(a)' = Working(a)
      BY <3>1 DEF GrantsTo, Working, TokenAccount
    <3> QED BY <1>2, <2>1, <3>1, <3>2 DEF MoneyInv, Solvent, WorkIsCharged
  <2> QED BY <1>2, <2>2, <2>3
<1> QED BY <1>1, <1>2

-----------------------------------------------------------------------------
(* The gate implements PaidOnce *)

\* The prices of no run and of one run, as PaidOnce sees them.
LEMMA PricesOfRuns ==
  /\ [i \in DOMAIN <<>> |-> Price[<<>>[i]]] = <<>>
  /\ \A t \in Tool : [i \in DOMAIN <<t>> |-> Price[<<t>>[i]]] = <<Price[t]>>
<1>1. [i \in DOMAIN <<>> |-> Price[<<>>[i]]] = <<>>
  OBVIOUS
<1>2. ASSUME NEW t \in Tool PROVE [i \in DOMAIN <<t>> |-> Price[<<t>>[i]]] = <<Price[t]>>
  <2>1. DOMAIN <<t>> = {1} /\ <<t>>[1] = t
    OBVIOUS
  <2>2. DOMAIN <<Price[t]>> = {1} /\ <<Price[t]>>[1] = Price[t]
    OBVIOUS
  <2> QED BY <2>1, <2>2
<1> QED BY <1>1, <1>2

\* Without a payment, what the seller holds for a proof stays the same.
LEMMA ReceivedStays ==
  ASSUME GateInv, Grows, paid' = paid, wallet' = wallet, NEW k \in Proof
  PROVE  Received(k)' = Received(k)
<1>1. CASE k \in Hash /\ k \in paid
  <2>1. challenge[k] # NoChallenge
    BY <1>1 DEF GateInv, PaidWasOffered, OffersAreStored
  <2> QED BY <1>1, <2>1 DEF Received, Grows
<1>2. CASE ~(k \in Hash /\ k \in paid)
  BY <1>2 DEF Received
<1> QED BY <1>1, <1>2

\* A step receives one payment at most, and the whole of it at once.
LEMMA ReceivedOnce ==
  ASSUME GateInv, Next
  PROVE  \/ \A k \in Proof : Received(k)' = Received(k)
         \/ /\ UNCHANGED <<executed, grants>>
            /\ \E k \in Proof : /\ Received(k) = 0 /\ Received(k)' > 0
                                /\ \A j \in Proof : j # k => Received(j)' = Received(j)
<1>t. TypeOK /\ Grows
  BY NextGrows DEF GateInv
<1> USE DEF ledger, storeVars, outside, history
<1>1. ASSUME NEW h \in Hash, PayInvoice(h)
      PROVE  \E k \in Proof : /\ Received(k) = 0 /\ Received(k)' > 0
                              /\ \A j \in Proof : j # k => Received(j)' = Received(j)
  <2>1. /\ h \notin paid /\ paid' = paid \cup {h} /\ h \in offered
        /\ UNCHANGED <<challenge, wallet>>
    BY <1>1 DEF PayInvoice
  <2>2. challenge[h].amount \in Nat /\ challenge[h].amount > 0
    BY <1>t, <2>1 DEF GateInv, TypeOK, OffersAreStored, ChallengeRec
  <2>3. h \in Proof /\ Received(h) = 0 /\ Received(h)' = challenge[h].amount
    BY <2>1 DEF Proof, Received
  <2>4. \A j \in Proof : j # h => Received(j)' = Received(j)
    BY <2>1 DEF Received
  <2> QED BY <2>2, <2>3, <2>4
<1>2. ASSUME NEW x \in TxId, NEW a \in Addr, NEW w \in TxRec, w.addr = a,
             wallet' = [wallet EXCEPT ![x] = w], UNCHANGED <<challenge, paid>>,
             \/ wallet[x] = NoTx
             \/ wallet[x] \in TxRec /\ wallet[x].addr = a /\ wallet[x].confs < Depth
      PROVE  \/ \A k \in Proof : Received(k)' = Received(k)
             \/ \E k \in Proof : /\ Received(k) = 0 /\ Received(k)' > 0
                                 /\ \A j \in Proof : j # k => Received(j)' = Received(j)
  <2>1. <<x, a>> \in Proof /\ <<x, a>> \notin Hash
    BY DEF Proof
  <2>2. wallet'[x] = w /\ w # NoTx /\ \A y \in TxId : y # x => wallet'[y] = wallet[y]
    BY <1>2, <1>t DEF TypeOK
  <2>3. w.amount \in Nat /\ w.amount > 0 /\ w.confs \in Nat
    BY <1>2 DEF TxRec
  <2>4. /\ Received(<<x, a>>) = 0
        /\ Received(<<x, a>>)' = IF w.confs >= Depth THEN w.amount ELSE 0
    <3>1. <<x, a>>[1] = x /\ <<x, a>>[2] = a
      OBVIOUS
    <3>2. wallet[x] \in TxRec => wallet[x].confs \in Nat
      BY DEF TxRec
    <3>3. ~(wallet[x] # NoTx /\ wallet[x].addr = a /\ wallet[x].confs >= Depth)
      BY <1>2, <3>2
    <3> QED BY <1>2, <2>1, <2>2, <3>1, <3>3 DEF Received
  <2>5. ASSUME NEW j \in Proof, j # <<x, a>> PROVE Received(j)' = Received(j)
    <3>1. CASE j \in Hash
      BY <1>2, <3>1 DEF Received
    <3>2. CASE j \notin Hash /\ j[1] # x
      <4>1. wallet'[j[1]] = wallet[j[1]]
        BY <2>2, <3>2, ProofCases
      <4> QED BY <3>2, <4>1 DEF Received
    <3>3. CASE j \notin Hash /\ j[1] = x
      <4>1. j[2] # a
        BY <2>5, <3>3, ProofCases
      <4>2. ~(wallet[x] # NoTx /\ wallet[x].addr = j[2]) /\ ~(w # NoTx /\ w.addr = j[2])
        BY <1>2, <4>1
      <4> QED BY <2>2, <3>3, <4>2 DEF Received
    <3> QED BY <3>1, <3>2, <3>3
  <2>6. CASE w.confs >= Depth
    BY <2>1, <2>3, <2>4, <2>5, <2>6
  <2>7. CASE ~(w.confs >= Depth)
    <3>1. Received(<<x, a>>)' = Received(<<x, a>>)
      BY <2>4, <2>7
    <3> QED BY <2>5, <3>1
  <2> QED BY <2>6, <2>7
<1>3. ASSUME NEW x \in TxId, NEW a \in Addr, NEW n \in TopUpAmount, SendDeposit(x, a, n)
      PROVE  \/ \A k \in Proof : Received(k)' = Received(k)
             \/ \E k \in Proof : /\ Received(k) = 0 /\ Received(k)' > 0
                                 /\ \A j \in Proof : j # k => Received(j)' = Received(j)
  <2> DEFINE w == [addr |-> a, amount |-> n, confs |-> 0]
  <2>1. /\ w \in TxRec /\ w.addr = a /\ wallet[x] = NoTx
        /\ wallet' = [wallet EXCEPT ![x] = w] /\ UNCHANGED <<challenge, paid>>
    BY <1>3 DEF SendDeposit, TxRec
  <2> HIDE DEF w
  <2> QED BY <1>2, <2>1
<1>4. ASSUME NEW x \in TxId, ConfirmDeposit(x)
      PROVE  \/ \A k \in Proof : Received(k)' = Received(k)
             \/ \E k \in Proof : /\ Received(k) = 0 /\ Received(k)' > 0
                                 /\ \A j \in Proof : j # k => Received(j)' = Received(j)
  <2> DEFINE w == [wallet[x] EXCEPT !.confs = @ + 1]
  <2>1. /\ wallet[x] \in TxRec /\ wallet[x].confs < Depth
        /\ wallet' = [wallet EXCEPT ![x] = w] /\ UNCHANGED <<challenge, paid>>
    BY <1>4, <1>t DEF ConfirmDeposit, TypeOK
  <2>2. w \in TxRec /\ w.addr = wallet[x].addr /\ wallet[x].addr \in Addr
    BY <2>1 DEF TxRec
  <2> HIDE DEF w
  <2> QED BY <1>2, <2>1, <2>2
<1>5. CASE paid' = paid /\ wallet' = wallet
  BY <1>5, <1>t, ReceivedStays
<1>6. CASE \/ \E h \in Hash : PayInvoice(h)
           \/ \E x \in TxId, a \in Addr, n \in TopUpAmount : SendDeposit(x, a, n)
           \/ \E x \in TxId : ConfirmDeposit(x)
  <2>1. UNCHANGED <<executed, grants>>
    BY <1>6 DEF PayInvoice, SendDeposit, ConfirmDeposit
  <2> QED BY <1>1, <1>3, <1>4, <1>6, <2>1
<1>7. \/ paid' = paid /\ wallet' = wallet
      \/ \E h \in Hash : PayInvoice(h)
      \/ \E x \in TxId, a \in Addr, n \in TopUpAmount : SendDeposit(x, a, n)
      \/ \E x \in TxId : ConfirmDeposit(x)
  <2>1. ASSUME NEW r \in Req, Present(r) \/ Handle(r) PROVE paid' = paid /\ wallet' = wallet
    BY <2>1 DEF Present, Handle, PresentProof, PresentToken, PresentCredit, Settle, ServeProof,
                GrantCredits, ServeToken, ChargeCredential, ServeCredit, Fail
  <2> QED BY <2>1 DEF Next, Environment, BuildChallenge, BuildTopupChallenge, ChallengeFails,
                      TopupFails, Revoke, Tick, Restart
<1> QED BY <1>5, <1>6, <1>7

\* A step runs a tool for a proof, credits one, or does neither.
LEMMA RunOrCredit ==
  ASSUME GateInv, Next
  PROVE  \/ UNCHANGED <<executed, grants>>
         \/ \E k \in Proof, t \in Tool :
              /\ executed[k] = <<>> /\ executed' = [executed EXCEPT ![k] = <<t>>]
              /\ k \in settled /\ Price[t] <= AmountOf(k)
              /\ UNCHANGED <<grants, paid, wallet>>
         \/ \E k \in Proof :
              /\ grants[k] = NoGrant /\ k \in settled
              /\ grants' = [grants EXCEPT ![k] = [account |-> AccountOf(k), amount |-> AmountOf(k)]]
              /\ UNCHANGED <<executed, paid, wallet>>
<1> USE DEF ledger, storeVars, outside, history
<1>t. TypeOK
  BY DEF GateInv
<1>1. ASSUME NEW r \in Req, NEW d \in BOOLEAN, ServeProof(r, d)
      PROVE  \E k \in Proof, t \in Tool :
               /\ executed[k] = <<>> /\ executed' = [executed EXCEPT ![k] = <<t>>]
               /\ k \in settled /\ Price[t] <= AmountOf(k)
               /\ UNCHANGED <<grants, paid, wallet>>
  <2> DEFINE k == req[r].by
             t == req[r].target
  <2>1. k \in Proof /\ k \in settled /\ t \in Tool /\ CoversPrice(k, t)
    BY <1>1 DEF ServeProof, GateInv, ProofRequests
  <2>2. AmountOf(k) \in Nat /\ Price[t] \in Nat
    BY <1>t, <2>1, BackedTyped DEF GateInv, SettledIsBacked
  <2>3. executed[k] = <<>>
    BY <1>1 DEF ServeProof, GateInv, OneRunner
  <2>4. executed' = [executed EXCEPT ![k] = <<t>>] /\ UNCHANGED <<grants, paid, wallet>>
    BY <1>1, <2>3 DEF ServeProof
  <2>5. Price[t] <= AmountOf(k)
    BY <2>1, <2>2 DEF CoversPrice
  <2> HIDE DEF k, t
  <2> QED BY <2>1, <2>3, <2>4, <2>5
<1>2. ASSUME NEW r \in Req, NEW d \in BOOLEAN, GrantCredits(r, d)
      PROVE  \/ UNCHANGED <<executed, grants>>
             \/ \E k \in Proof :
                  /\ grants[k] = NoGrant /\ k \in settled
                  /\ grants' = [grants EXCEPT ![k] = [account |-> AccountOf(k), amount |-> AmountOf(k)]]
                  /\ UNCHANGED <<executed, paid, wallet>>
  <2>1. req[r].by \in Proof /\ req[r].by \in settled
    BY <1>2 DEF GrantCredits, GateInv, ProofRequests
  <2> QED BY <1>2, <2>1 DEF GrantCredits, Grant
<1>3. ASSUME NEW r \in Req, Present(r) PROVE UNCHANGED <<executed, grants>>
  BY <1>3 DEF Present, PresentProof, PresentToken, PresentCredit
<1>4. ASSUME NEW r \in Req, \/ \E d \in BOOLEAN : Settle(r, d)
                            \/ ServeToken(r) \/ ChargeCredential(r) \/ ServeCredit(r) \/ Fail(r)
      PROVE  UNCHANGED <<executed, grants>>
  BY <1>4 DEF Settle, ServeToken, ChargeCredential, ChargeReplay, ChargeDebit, ChargeRefused,
              ServeCredit, Fail
<1>5. ASSUME \/ Environment
             \/ \E t \in CallTool, h \in Hash : BuildChallenge(t, h)
             \/ \E n \in TopUpAmount, h \in Hash, as \in DepositAddresses :
                  BuildTopupChallenge(n, h, as)
             \/ \E h \in Hash : ChallengeFails(h)
             \/ \E n \in TopUpAmount, h \in Hash, as \in DepositAddresses \cup {{}} :
                  TopupFails(n, h, as)
      PROVE  UNCHANGED <<executed, grants>>
  BY <1>5 DEF Environment, PayInvoice, SendDeposit, ConfirmDeposit, Revoke, Tick, Restart,
              BuildChallenge, BuildTopupChallenge, ChallengeFails, TopupFails
<1> QED BY <1>1, <1>2, <1>3, <1>4, <1>5 DEF Next, Handle

\* Every step of the gate is a step of PaidOnce or invisible to it.
LEMMA PromiseStep ==
  ASSUME GateInv, [Next]_vars
  PROVE  [Promise!Next]_(Promise!promiseVars)
<1> DEFINE received == [k \in Proof |-> Received(k)]
           ran == [k \in Proof |-> [i \in DOMAIN executed[k] |-> Price[executed[k][i]]]]
           credited == [k \in Proof |-> IF grants[k] = NoGrant THEN 0 ELSE grants[k].amount]
<1>t. TypeOK
  BY DEF GateInv
<1>s. UNCHANGED <<received, ran, credited>> => UNCHANGED Promise!promiseVars
  BY DEF Promise!promiseVars
<1>g. grants' = grants => credited' = credited
  OBVIOUS
<1>e. executed' = executed => ran' = ran
  OBVIOUS
<1>r. (\A k \in Proof : Received(k)' = Received(k)) => received' = received
  OBVIOUS
<1>b. ASSUME NEW k \in settled PROVE Received(k) = AmountOf(k) /\ AmountOf(k) \in Nat \ {0}
  BY <1>t, BackedTyped DEF GateInv, SettledIsBacked, TypeOK
<1>1. CASE UNCHANGED vars
  <2>1. UNCHANGED <<executed, grants, challenge, paid, wallet>>
    BY <1>1 DEF vars
  <2>2. \A k \in Proof : Received(k)' = Received(k)
    BY <2>1 DEF Received
  <2> QED BY <1>s, <1>g, <1>e, <1>r, <2>1, <2>2
<1>2. ASSUME UNCHANGED <<executed, grants>>, NEW k \in Proof,
             Received(k) = 0, Received(k)' > 0, \A j \in Proof : j # k => Received(j)' = Received(j)
      PROVE  Promise!Next
  <2>1. received[k] = 0 /\ received'[k] > 0
    BY <1>2
  <2>2. received' = [received EXCEPT ![k] = received'[k]]
    BY <1>2
  <2>3. Promise!Receive(k)
    BY <1>g, <1>e, <1>2, <2>1, <2>2 DEF Promise!Receive
  <2> QED BY <2>3 DEF Promise!Next
<1>3. ASSUME NEW k \in Proof, NEW t \in Tool, executed[k] = <<>>,
             executed' = [executed EXCEPT ![k] = <<t>>], k \in settled, Price[t] <= AmountOf(k),
             UNCHANGED <<grants, paid, wallet>>, Grows
      PROVE  Promise!Next
  <2>1. received' = received
    BY <1>r, <1>3, ReceivedStays
  <2>2. executed'[k] = <<t>> /\ \A j \in Proof : j # k => executed'[j] = executed[j]
    BY <1>3, <1>t DEF TypeOK
  <2>3. ran[k] = <<>> /\ ran'[k] = <<Price[t]>>
    <3>1. ran[k] = [i \in DOMAIN <<>> |-> Price[<<>>[i]]]
      BY <1>3
    <3>2. ran'[k] = [i \in DOMAIN <<t>> |-> Price[<<t>>[i]]]
      BY <2>2
    <3> QED BY <3>1, <3>2, PricesOfRuns
  <2>4. ran' = [ran EXCEPT ![k] = ran'[k]]
    BY <2>2
  <2>5. received[k] = AmountOf(k)
    BY <1>b, <1>3
  <2>6. Len(ran'[k]) = 1 /\ ran'[k][1] <= received[k]
    BY <1>3, <2>3, <2>5
  <2> HIDE DEF received, ran, credited
  <2>7. credited' = credited
    BY <1>g, <1>3
  <2>8. Promise!Run(k)
    BY <2>1, <2>3, <2>4, <2>6, <2>7 DEF Promise!Run, received, ran, credited
  <2> QED BY <2>8 DEF Promise!Next
<1>4. ASSUME NEW k \in Proof, grants[k] = NoGrant, k \in settled,
             grants' = [grants EXCEPT ![k] = [account |-> AccountOf(k), amount |-> AmountOf(k)]],
             UNCHANGED <<executed, paid, wallet>>, Grows
      PROVE  Promise!Next
  <2>1. received' = received /\ ran' = ran
    BY <1>r, <1>e, <1>4, ReceivedStays
  <2>2. received[k] = AmountOf(k) /\ received[k] > 0
    BY <1>b, <1>4
  <2>3. [account |-> AccountOf(k), amount |-> AmountOf(k)] \in GrantRow
    BY <1>t, <1>4, BackedTyped DEF GateInv, SettledIsBacked, GrantRow
  <2>4. /\ grants'[k] = [account |-> AccountOf(k), amount |-> AmountOf(k)]
        /\ \A j \in Proof : j # k => grants'[j] = grants[j]
    BY <1>4, <1>t DEF TypeOK, LedgerTypeOK
  <2>5. credited[k] = 0 /\ credited'[k] = AmountOf(k) /\ \A j \in Proof : j # k => credited'[j] = credited[j]
    BY <1>4, <2>3, <2>4
  <2>6. credited' = [credited EXCEPT ![k] = received[k]]
    BY <2>2, <2>5
  <2>7. Promise!Credit(k)
    BY <2>1, <2>2, <2>5, <2>6 DEF Promise!Credit
  <2> QED BY <2>7 DEF Promise!Next
<1>5. CASE Next
  <2>1. Grows
    BY <1>5, <1>t, NextGrows
  <2>2. CASE UNCHANGED <<executed, grants>> /\ \A k \in Proof : Received(k)' = Received(k)
    BY <1>s, <1>g, <1>e, <1>r, <2>2
  <2> QED BY <1>5, <1>2, <1>3, <1>4, <2>1, <2>2, ReceivedOnce, RunOrCredit
<1> QED BY <1>1, <1>5

-----------------------------------------------------------------------------
(* The theorems *)

\* The inductive invariant holds in every behaviour of the gate: what a request
\* relied on when it called the store or the ledger is still true when it acts.
THEOREM GateInvariant == Spec => []GateInv
<1>1. Init => GateInv
  BY InitGateInv
<1>2. GateInv /\ [Next]_vars => GateInv'
  BY StepGateInv
<1> QED BY <1>1, <1>2, PTL DEF Spec

\* Every variable of the gate keeps its type; in particular no balance is ever
\* negative, whatever charges and grants interleave.
THEOREM GateTypeOK == Spec => []TypeOK
<1>1. GateInv => TypeOK
  BY DEF GateInv
<1> QED BY <1>1, GateInvariant, PTL

\* servePayment and settleFull: the paid operation runs at most once for a
\* proof, with any number of concurrent requests, replays and restarts.
THEOREM ProofRunsAtMostOnce == Spec => []ProofRunsOnce
<1>1. GateInv => ProofRunsOnce
  <2> SUFFICES ASSUME GateInv, NEW k \in Proof
               PROVE  Len(executed[k]) <= 1
    BY DEF ProofRunsOnce
  <2>1. CASE executed[k] # <<>>
    <3>1. Len(executed[k]) = 1
      BY <2>1 DEF GateInv, RunsWereSettled
    <3> QED BY <3>1
  <2>2. CASE executed[k] = <<>>
    BY <2>2
  <2> QED BY <2>1, <2>2
<1> QED BY <1>1, GateInvariant, PTL

\* settleFull: an operation only runs for a payment the seller holds and that
\* covers its price.
THEOREM EveryRunIsPaid == Spec => []RunsArePaid
<1>1. GateInv => RunsArePaid
  <2> SUFFICES ASSUME GateInv, NEW k \in Proof, NEW i \in DOMAIN executed[k]
               PROVE  Price[executed[k][i]] <= Received(k)
    BY DEF RunsArePaid
  <2>1. TypeOK /\ executed[k] \in Seq(Tool)
    BY DEF GateInv, TypeOK
  <2>2. executed[k] # <<>>
    BY <2>1
  <2>3. k \in settled /\ Len(executed[k]) = 1 /\ Price[executed[k][1]] <= AmountOf(k)
    BY <2>2 DEF GateInv, RunsWereSettled
  <2>4. i = 1
    BY <2>1, <2>3
  <2>5. Received(k) = AmountOf(k)
    BY <2>1, <2>3, BackedTyped DEF GateInv, SettledIsBacked
  <2> QED BY <2>3, <2>4, <2>5
<1> QED BY <1>1, GateInvariant, PTL

\* serveTopupSettlement: a credit is exactly a payment the seller holds, on the
\* account of the challenge that was paid.
THEOREM EveryCreditIsPaid == Spec => []CreditsArePaid
<1>1. GateInv => CreditsArePaid
  <2> SUFFICES ASSUME GateInv, NEW k \in Proof, grants[k] # NoGrant
               PROVE  grants[k].amount = Received(k) /\ grants[k].account = AccountOf(k)
    BY DEF CreditsArePaid
  <2>1. k \in settled /\ grants[k].amount = AmountOf(k) /\ grants[k].account = AccountOf(k)
    BY DEF GateInv, GrantsWereSettled
  <2>2. Received(k) = AmountOf(k)
    BY <2>1, BackedTyped DEF GateInv, SettledIsBacked
  <2> QED BY <2>1, <2>2
<1> QED BY <1>1, GateInvariant, PTL

\* A credential minted at challenge time cannot be used before its challenge is
\* paid, on either rail.
THEOREM EveryCredentialIsPaid == Spec => []CredentialsArePaid
<1>1. GateInv => CredentialsArePaid
  <2> SUFFICES ASSUME GateInv, NEW c \in known, c \notin Hash
               PROVE  \E x \in TxId : /\ <<x, c>> \in settled
                                      /\ Received(<<x, c>>) = onchain[c].amount
    BY DEF CredentialsArePaid, GateInv, KnownIsBacked
  <2>1. PICK x \in TxId : <<x, c>> \in settled
    BY DEF GateInv, KnownIsBacked
  <2>2. c \in Cred /\ c \in Addr
    BY KnownTyped DEF Cred
  <2>3. <<x, c>> \in Proof /\ <<x, c>> \notin Hash
    BY <2>2 DEF Proof
  <2>4. Received(<<x, c>>) = AmountOf(<<x, c>>)
    BY <2>1, <2>3, BackedTyped DEF GateInv, SettledIsBacked
  <2>5. AmountOf(<<x, c>>) = onchain[c].amount
    BY <2>3 DEF AmountOf
  <2> QED BY <2>1, <2>4, <2>5
<1> QED BY <1>1, GateInvariant, PTL

\* No interleaving of grants, charges, replays and restarts creates or loses
\* credit: every atom on an account came from a grant, every debit is a charge.
THEOREM AccountsAreSolvent == Spec => []Solvent
<1>1. MoneyInv => Solvent
  BY DEF MoneyInv
<1> QED BY <1>1, MoneyInvariant, PTL DEF Spec

\* RequireCredits: the work that was served or is about to be served on an
\* account was debited from it first.
THEOREM ChargedBeforeServed == Spec => []WorkIsCharged
<1>1. MoneyInv => WorkIsCharged
  BY DEF MoneyInv
<1> QED BY <1>1, MoneyInvariant, PTL DEF Spec

\* The gate implements PaidOnce: whatever requests, replays, lost answers,
\* failures, restarts and revocations happen, each payment is received once,
\* buys at most one run that it covers, and is credited at most once and for
\* exactly its amount.
THEOREM GateKeepsPromise == Spec => PromiseKept
<1>1. Init => Promise!Init
  <2> SUFFICES ASSUME Init PROVE Promise!Init
    OBVIOUS
  <2>1. /\ paid = {} /\ wallet = [x \in TxId |-> NoTx]
        /\ grants = [k \in Proof |-> NoGrant] /\ executed = [k \in Proof |-> <<>>]
    BY DEF Init, LedgerInit
  <2>2. \A k \in Proof : Received(k) = 0
    BY <2>1, ProofCases DEF Received
  <2>3. \A k \in Proof : [i \in DOMAIN executed[k] |-> Price[executed[k][i]]] = <<>>
    <3> SUFFICES ASSUME NEW k \in Proof
                 PROVE  [i \in DOMAIN executed[k] |-> Price[executed[k][i]]] = <<>>
      OBVIOUS
    <3>1. executed[k] = <<>>
      BY <2>1
    <3> QED BY <3>1, PricesOfRuns
  <2> QED BY <2>1, <2>2, <2>3 DEF Promise!Init
<1>2. GateInv /\ [Next]_vars => [Promise!Next]_(Promise!promiseVars)
  BY PromiseStep
<1> QED BY <1>1, <1>2, GateInvariant, PTL DEF Spec, PromiseKept, Promise!Spec

=============================================================================
