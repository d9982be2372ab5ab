------------------------------ MODULE PayClient ------------------------------
(***************************************************************************)
(* The paying HTTP client of the agent (src/agent/payclient) with its      *)
(* credential cache, and the recording of what it paid by fetch_paid       *)
(* (src/agent/service.go).  Fetches run one at a time under payMu; the     *)
(* merchant, the clock, lost answers, store errors and restarts interleave *)
(* with the steps of a fetch.                                              *)
(*                                                                         *)
(* External: the Lightning node, and merchants.  An honest merchant sells  *)
(* access for its price and serves whoever presents a credential it issued *)
(* and has not dropped; any other merchant answers anything at any time.   *)
(*                                                                         *)
(* Abstractions.  A credential is named by its site and the number of the  *)
(* payment that bought it.  The claims of an x402 envelope that must equal *)
(* the invoice (hash, payee, network, version) are one Boolean.  An atom   *)
(* is Milli milli-atoms, and products wrap at Wrap, the width of an int64. *)
(* The ruling of the policy gate is modelled in Spend.                     *)
(***************************************************************************)
EXTENDS Integers, Sequences, FiniteSets

CONSTANTS Site,           \* services, by URL
          HostOf,         \* the host name of a site, without its port
          Honest,         \* sites with an honest merchant
          Price,          \* what they charge, in atoms
          Offer,          \* challenges other merchants send
          Guard,          \* values of max_amount, 0 for none
          Limit,          \* the most the policy ever allows
          Milli, Wrap,
          TTL,            \* lifetime of a credential, 0 for unlimited
          MaxFetches,     \* bound: fetches started
          MaxFaults,      \* bound: lost answers and failed calls
          MaxRestarts,    \* bound: restarts of the daemon
          MaxTime,        \* bound: the clock stops here
          NoToken, NoSite

Host == {HostOf[s] : s \in Site}

\* What a 402 carries: the amount the envelope claims and the invoice's own.
ChallengeRec == [rail: {"x402", "l402"}, atoms: Nat, mAtoms: Nat, agrees: BOOLEAN]

Credential == [site: Site, number: Nat, until: Nat]
TokenRec == [cred: Credential, validUntil: Nat]

ASSUME PayClientAssumption ==
  /\ DOMAIN HostOf = Site
  /\ Honest \subseteq Site
  /\ Offer \subseteq ChallengeRec
  /\ Guard \subseteq Nat
  /\ {Price, Limit, TTL, MaxFetches, MaxFaults, MaxRestarts, MaxTime} \subseteq Nat
  /\ Milli \in Nat \ {0} /\ Wrap \in Nat \ {0}
  /\ Price > 0 /\ Price <= Limit /\ Price * Milli < Wrap
  /\ NoToken \notin TokenRec /\ NoSite \notin Site

VARIABLES
  now,
  tokens,       \* l402_tokens, by host
  f,            \* the fetch that holds payMu: where it is, its arguments, the
                \* cached credential it sends, its challenge, what it bought
  paid,         \* external: payments the node made, in order
  books,        \* the payments table: the number of the payment and atoms
  issued,       \* external: credentials honest merchants issued
  dropped,      \* external: credentials they no longer honour
  lost,         \* history: payments whose row a crash or an error prevented
  fetches, faults, restarts

merchant == <<issued, dropped>>
bounds == <<fetches, faults, restarts>>
vars == <<now, tokens, f, paid, books, issued, dropped,
          lost, fetches, faults, restarts>>

Phase == {"idle", "send", "refused", "bare", "parse", "gate", "pay", "present", "cache",
          "record"}
Paying == {"present", "cache", "record"}

FetchRec == [phase: Phase, site: Site \cup {NoSite}, guard: Nat,
             auth: TokenRec \cup {NoToken}, ch: ChallengeRec,
             got: TokenRec \cup {NoToken}]
PaidRec == [site: Site, mAtoms: Nat, atoms: Nat, guard: Nat, seen: BOOLEAN]

TypeOK ==
  /\ now \in 0 .. MaxTime
  /\ tokens \in [Host -> TokenRec \cup {NoToken}]
  /\ f \in FetchRec
  /\ f.phase # "idle" => f.site \in Site
  /\ paid \in Seq(PaidRec)
  /\ books \subseteq [number: DOMAIN paid, atoms: Nat]
  /\ issued \subseteq Credential /\ dropped \subseteq issued
  /\ lost \subseteq DOMAIN paid
  /\ fetches \in 0 .. MaxFetches
  /\ faults \in 0 .. MaxFaults
  /\ restarts \in 0 .. MaxRestarts

NoChallenge == [rail |-> "x402", atoms |-> 0, mAtoms |-> 0, agrees |-> FALSE]

\* No fetch is under way.
Idle == [phase |-> "idle", site |-> NoSite, guard |-> 0, auth |-> NoToken,
         ch |-> NoChallenge, got |-> NoToken]

Init ==
  /\ now = 0
  /\ tokens = [h \in Host |-> NoToken]
  /\ f = Idle
  /\ paid = <<>> /\ books = {}
  /\ issued = {} /\ dropped = {}
  /\ lost = {}
  /\ fetches = 0 /\ faults = 0 /\ restarts = 0

Fault == faults < MaxFaults /\ faults' = faults + 1

-----------------------------------------------------------------------------
(* Credentials *)

\* A token that never expires, or whose time is not over.
Current(t) == t # NoToken /\ (t.validUntil = 0 \/ now < t.validUntil)

(* What an honest merchant still serves.                                   *)
Lapsed(c) == c \in dropped \/ (c.until # 0 /\ now >= c.until)
Honoured(t) == t # NoToken /\ t.cred.site = f.site /\ t.cred \in issued /\ ~Lapsed(t.cred)

(* An honest merchant answers with a reason: a credential it honours is    *)
(* served and anything else is challenged.  Other answers are hiccups.     *)
Answers(t, status) ==
  \/ f.site \notin Honest /\ UNCHANGED faults
  \/ f.site \in Honest /\ status = (IF Honoured(t) THEN "ok" ELSE "402") /\ UNCHANGED faults
  \/ f.site \in Honest /\ status = "error" /\ Fault

-----------------------------------------------------------------------------
(* FetchPaid, step by step *)

Goto(phase) == f' = [f EXCEPT !.phase = phase]

\* FetchPaid returns: payMu is released and its locals are gone.
Return == f' = Idle

(* The cached credential is read and sent; a failed read sends none.       *)
Start(s, g) ==
  LET cached == tokens[HostOf[s]] IN
  /\ f.phase = "idle"
  /\ fetches < MaxFetches
  /\ fetches' = fetches + 1
  /\ \E t \in {cached, NoToken} :
       /\ \/ t = (IF Current(cached) THEN cached ELSE NoToken) /\ UNCHANGED faults
          \/ t = NoToken /\ Fault
       /\ f' = [Idle EXCEPT !.phase = "send", !.site = s, !.guard = g, !.auth = t]
  /\ UNCHANGED <<now, tokens, paid, books, merchant, lost, restarts>>

(* The first answer: access (free, or by the cached credential), a         *)
(* challenge, a credential that is refused, or an error.                   *)
Send(status) ==
  /\ f.phase = "send"
  /\ Answers(f.auth, status)
  /\ \/ status \in {"401", "402"} /\ f.auth # NoToken /\ Goto("refused")
     \/ status = "402" /\ f.auth = NoToken /\ Goto("parse")
     \/ status = "401" /\ f.auth = NoToken /\ Return
     \/ status \in {"ok", "error"} /\ Return
  /\ UNCHANGED <<now, tokens, paid, books, merchant, lost, fetches, restarts>>

(* DeleteToken, whose error is ignored; the request is then sent bare.     *)
DropToken ==
  /\ f.phase = "refused"
  /\ \/ tokens' = [tokens EXCEPT ![HostOf[f.site]] = NoToken] /\ UNCHANGED faults
     \/ Fault /\ UNCHANGED tokens
  /\ f' = [f EXCEPT !.phase = "bare", !.auth = NoToken]
  /\ UNCHANGED <<now, paid, books, merchant, lost, fetches, restarts>>

\* The answer to the bare request.
SendBare(status) ==
  /\ f.phase = "bare"
  /\ Answers(NoToken, status)
  /\ IF status = "402" THEN Goto("parse") ELSE Return
  /\ UNCHANGED <<now, tokens, paid, books, merchant, lost, fetches, restarts>>

\* A faulty cross-check that leaves the amount of the invoice out.
X402Trusted(c) == c.agrees /\ c.atoms > 0

(* parseX402: the claims agree and the invoice is for exactly the amount   *)
(* claimed, in an int64.                                                   *)
X402Valid(c) == c.agrees /\ c.atoms > 0 /\ (c.atoms * Milli) % Wrap = c.mAtoms

(* parseChallenge: the challenge as policy sees it.  A legacy challenge    *)
(* has only its invoice, in whole atoms.                                   *)
Parsed(c) == IF c.rail = "x402" THEN c ELSE [c EXCEPT !.atoms = c.mAtoms \div Milli]

Acceptable(c) == IF c.rail = "x402" THEN X402Valid(c) ELSE Parsed(c).atoms > 0

(* What the merchant of this site may challenge with.                      *)
Offered ==
  IF f.site \in Honest
  THEN [rail: {"x402", "l402"}, atoms: {Price}, mAtoms: {Price * Milli}, agrees: {TRUE}]
  ELSE Offer

(* The challenge is parsed and held against the caller's own guard.        *)
Parse(c) ==
  /\ f.phase = "parse"
  /\ IF Acceptable(c) /\ (f.guard > 0 => Parsed(c).atoms <= f.guard)
     THEN f' = [f EXCEPT !.phase = "gate", !.ch = Parsed(c)]
     ELSE Return
  /\ UNCHANGED <<now, tokens, paid, books, merchant, lost, bounds>>

(* The policy gate rules on the amount of the challenge.                   *)
Gate(allow) ==
  /\ f.phase = "gate"
  /\ allow => f.ch.atoms <= Limit
  /\ IF allow THEN Goto("pay") ELSE Return
  /\ UNCHANGED <<now, tokens, paid, books, merchant, lost, bounds>>

Payment(seen) == [site |-> f.site, mAtoms |-> f.ch.mAtoms, atoms |-> f.ch.atoms,
                  guard |-> f.guard, seen |-> seen]

(* LN.Pay pays the invoice.                                                *)
Pay ==
  /\ f.phase = "pay"
  /\ paid' = Append(paid, Payment(TRUE))
  /\ Goto("present")
  /\ UNCHANGED <<now, tokens, books, merchant, lost, bounds>>

\* A faulty client that reports a receipt with the error.
PayErrorBooked ==
  /\ f.phase = "pay"
  /\ Fault
  /\ paid' \in {paid, Append(paid, Payment(FALSE))}
  /\ Goto("record")
  /\ UNCHANGED <<now, tokens, books, merchant, lost, fetches, restarts>>

(* LN.Pay returns an error; the payment may settle all the same.           *)
PayError ==
  /\ f.phase = "pay"
  /\ Fault
  /\ paid' \in {paid, Append(paid, Payment(FALSE))}
  /\ Return
  /\ UNCHANGED <<now, tokens, books, merchant, lost, fetches, restarts>>

(* The credential a paid answer brings, and its expiry as the client knows *)
(* it: the settlement of an x402 answer states it, a macaroon does not.    *)
NewCredential == [site |-> f.site, number |-> Len(paid),
                  until |-> IF TTL = 0 THEN 0 ELSE now + TTL]
NewToken == [cred |-> NewCredential,
             validUntil |-> IF f.ch.rail = "x402" THEN NewCredential.until ELSE 0]

Issue == issued' = IF f.site \in Honest THEN issued \cup {NewCredential} ELSE issued

(* A 2xx answer to the proof.  The answer to a legacy proof leaves the     *)
(* macaroon that was shown; an x402 answer may bring no credential.        *)
Present(token) ==
  /\ f.phase = "present"
  /\ token \in {NewToken, NoToken}
  /\ f.ch.rail = "l402" \/ f.site \in Honest => token = NewToken
  /\ f' = [f EXCEPT !.phase = "cache", !.got = token]
  /\ Issue
  /\ UNCHANGED <<now, tokens, paid, books, dropped, lost, bounds>>

\* A faulty client that reports the error without its result.
PresentLosesResult ==
  /\ f.phase = "present"
  /\ IF f.site \in Honest THEN Fault ELSE UNCHANGED faults
  /\ Issue
  /\ Return
  /\ UNCHANGED <<now, tokens, paid, books, dropped, lost, fetches, restarts>>

(* Any other answer, or none: an error, with the receipt.  The merchant    *)
(* may have issued the credential.                                         *)
PresentError ==
  /\ f.phase = "present"
  /\ IF f.site \in Honest THEN Fault ELSE UNCHANGED faults
  /\ Issue
  /\ Goto("record")
  /\ UNCHANGED <<now, tokens, paid, books, dropped, lost, fetches, restarts>>

\* A faulty client that keeps only credentials whose expiry it knows.
CacheExpiring ==
  /\ f.phase = "cache"
  /\ tokens' = IF f.got = NoToken \/ f.got.validUntil = 0 THEN tokens
               ELSE [tokens EXCEPT ![HostOf[f.site]] = f.got]
  /\ Goto("record")
  /\ UNCHANGED <<now, paid, books, merchant, lost, bounds>>

(* PutToken replaces the credential of the host; its error is ignored.     *)
Cache ==
  /\ f.phase = "cache"
  /\ \/ /\ tokens' = IF f.got = NoToken THEN tokens
                     ELSE [tokens EXCEPT ![HostOf[f.site]] = f.got]
        /\ UNCHANGED faults
     \/ f.got # NoToken /\ Fault /\ UNCHANGED tokens
  /\ Goto("record")
  /\ UNCHANGED <<now, paid, books, merchant, lost, fetches, restarts>>

(* Service.FetchPaid books what was paid before it reports any error; an   *)
(* error of the store is dropped.                                          *)
Record ==
  /\ f.phase = "record"
  /\ \/ /\ books' = books \cup {[number |-> Len(paid), atoms |-> f.ch.atoms]}
        /\ UNCHANGED <<lost, faults>>
     \/ Fault /\ lost' = lost \cup {Len(paid)} /\ UNCHANGED books
  /\ Return
  /\ UNCHANGED <<now, tokens, paid, merchant, fetches, restarts>>

Status == {"ok", "401", "402", "error"}

Step ==
  \/ \E status \in Status : Send(status) \/ SendBare(status)
  \/ DropToken
  \/ \E c \in Offered : Parse(c)
  \/ \E allow \in BOOLEAN : Gate(allow)
  \/ Pay \/ PayError
  \/ \E token \in {NewToken, NoToken} : Present(token)
  \/ PresentError
  \/ Cache
  \/ Record

-----------------------------------------------------------------------------
(* The world *)

(* The daemon stops in the middle of a fetch; the tables survive.          *)
Restart ==
  /\ f.phase # "idle"
  /\ restarts < MaxRestarts
  /\ restarts' = restarts + 1
  /\ lost' = IF f.phase \in Paying THEN lost \cup {Len(paid)} ELSE lost
  /\ Return
  /\ UNCHANGED <<now, tokens, paid, books, merchant, fetches, faults>>

(* An honest merchant revokes a credential.                                *)
Drop(c) ==
  /\ c \notin dropped
  /\ dropped' = dropped \cup {c}
  /\ UNCHANGED <<now, tokens, f, paid, books, issued, lost, bounds>>

Tick ==
  /\ now < MaxTime
  /\ now' = now + 1
  /\ UNCHANGED <<tokens, f, paid, books, merchant, lost, bounds>>

Next ==
  \/ \E s \in Site, g \in Guard : Start(s, g)
  \/ Step
  \/ Restart
  \/ \E c \in issued : Drop(c)
  \/ Tick

Spec == Init /\ [][Next]_vars

-----------------------------------------------------------------------------
(* Properties *)

(* Whatever a merchant claims, the node pays only what policy and caller   *)
(* ruled on: the invoice it pays is for less than one atom more than the   *)
(* amount of the challenge, which is within the guard and the limit.  Both *)
(* envelopes, truncated milli-atoms and a product that wraps included.     *)
PaidAsRuled ==
  \A k \in DOMAIN paid :
    /\ paid[k].mAtoms < (paid[k].atoms + 1) * Milli
    /\ paid[k].atoms <= Limit
    /\ paid[k].guard > 0 => paid[k].atoms <= paid[k].guard

(* "Record any settled payment BEFORE surfacing a merchant error": every   *)
(* payment the node confirmed is in the books with the amount ruled on,    *)
(* however the merchant answers, unless a crash or a store error came      *)
(* between, or the fetch is still under way.                               *)
ReceiptKept ==
  \A k \in DOMAIN paid : paid[k].seen =>
    \/ [number |-> k, atoms |-> paid[k].atoms] \in books
    \/ k \in lost
    \/ k = Len(paid) /\ f.phase \in Paying

Alone(s) == \A r \in Site : HostOf[r] = HostOf[s] => r = s
PaymentsTo(s) == {k \in DOMAIN paid : paid[k].site = s}

\* Credentials the merchant of a site issued and no longer honours.
LapsedAt(s) == {c \in issued : c.site = s /\ Lapsed(c)}

(* "Cached credentials make repeat access free": an honest site that has   *)
(* its host for itself is paid once, and once more for each credential it  *)
(* no longer honours, for each error and for each restart.                 *)
RepeatIsFree ==
  \A s \in Honest : Alone(s) =>
    Cardinality(PaymentsTo(s)) <= 1 + faults + restarts + Cardinality(LapsedAt(s))

-----------------------------------------------------------------------------
(* The inductive invariant behind the safety properties *)

\* What the gate and the node are handed was parsed and held against the guard.
Ruled ==
  /\ f.phase \in {"gate", "pay"} =>
       /\ f.ch.mAtoms < (f.ch.atoms + 1) * Milli
       /\ f.guard > 0 => f.ch.atoms <= f.guard
  /\ f.phase = "pay" => f.ch.atoms <= Limit

\* A fetch that holds a receipt holds the one of the last payment.
HoldsReceipt ==
  f.phase \in Paying => /\ paid # <<>>
                        /\ paid[Len(paid)].site = f.site
                        /\ paid[Len(paid)].atoms = f.ch.atoms

PayClientInv == TypeOK /\ Ruled /\ HoldsReceipt /\ PaidAsRuled /\ ReceiptKept

\* A credential is issued for a payment, at most one for each.
IssuedForPayment ==
  /\ IsFiniteSet(issued)
  /\ \A c \in issued : c.number <= Len(paid)
  /\ f.phase = "present" => \A c \in issued : c.number < Len(paid)

\* What an honest site that has its host for itself issued, as the client has it.
Belongs(t, s) ==
  t # NoToken => /\ t.cred.site = s /\ t.cred \in issued
                 /\ t.validUntil \in {0, t.cred.until}

CacheBelongs(s) ==
  /\ Belongs(tokens[HostOf[s]], s)
  /\ f.site = s /\ f.phase = "send" => f.auth \in {NoToken, tokens[HostOf[s]]}
  /\ f.site = s /\ f.phase = "cache" => f.got # NoToken /\ Belongs(f.got, s)

Live(t) == t # NoToken /\ ~Lapsed(t.cred)

\* The fetch under way is going to pay, unless something stops it.
GoesToPay(s) ==
  /\ f.site = s
  /\ \/ f.phase \in {"refused", "bare", "parse", "gate", "pay"}
     \/ f.phase = "send" /\ f.auth = NoToken

\* The client has access to the site for what it paid last.
HasAccess(s) ==
  \/ f.site = s /\ f.phase = "present"
  \/ f.site = s /\ f.phase = "cache" /\ Live(f.got)
  \/ /\ ~(f.site = s /\ f.phase \in {"present", "cache"})
     /\ ~GoesToPay(s)
     /\ Live(tokens[HostOf[s]])

\* A payment that gives no access was followed by a lapse, an error or a restart.
PaidForAccess(s) ==
  Cardinality(PaymentsTo(s)) <=
    faults + restarts + Cardinality(LapsedAt(s)) + (IF HasAccess(s) THEN 1 ELSE 0)

AccessInv ==
  /\ PayClientInv /\ IssuedForPayment
  /\ \A s \in Honest : Alone(s) => CacheBelongs(s) /\ PaidForAccess(s)

=============================================================================
