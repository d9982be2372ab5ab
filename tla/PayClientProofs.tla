--------------------------- MODULE PayClientProofs ---------------------------
(***************************************************************************)
(* Proofs about the paying client, for any sites, hosts, prices, offers,   *)
(* guards and number of fetches, faults and restarts.                      *)
(***************************************************************************)
EXTENDS PayClient, FiniteSetTheorems, TLAPS

\* The bounds and amounts are natural numbers.
LEMMA Numbers ==
  /\ Price \in Nat /\ Limit \in Nat /\ TTL \in Nat
  /\ MaxFetches \in Nat /\ MaxFaults \in Nat /\ MaxRestarts \in Nat /\ MaxTime \in Nat
  /\ Milli \in Nat \ {0} /\ Wrap \in Nat \ {0}
<1>1. {Price, Limit, TTL, MaxFetches, MaxFaults, MaxRestarts, MaxTime} \subseteq Nat
  BY PayClientAssumption
<1> QED BY <1>1, PayClientAssumption

USE PayClientAssumption, Numbers

-----------------------------------------------------------------------------
(* Challenges *)

\* A remainder is no larger than the number.
LEMMA Remainder ==
  ASSUME NEW n \in Nat, NEW w \in Nat \ {0}
  PROVE  /\ n \div w \in Nat /\ n % w \in Nat
         /\ n = w * (n \div w) + (n % w)
         /\ n % w < w /\ n % w <= n
<1>1. n \div w \in Nat /\ n % w \in Nat /\ n % w < w
  OBVIOUS
<1>2. n = w * (n \div w) + (n % w)
  OBVIOUS
<1>3. \A q, r \in Nat : n = w * q + r => r <= n
  OBVIOUS
<1> QED BY <1>1, <1>2, <1>3

\* parseChallenge: an acceptable challenge asks for less than one atom more
\* than the amount policy sees, wrapped products and truncation included.
LEMMA AcceptableAmount ==
  ASSUME NEW c \in ChallengeRec, Acceptable(c)
  PROVE  Parsed(c).mAtoms < (Parsed(c).atoms + 1) * Milli
<1>0. c.mAtoms \in Nat /\ c.atoms \in Nat
  BY DEF ChallengeRec
<1>1. CASE c.rail = "x402"
  <2> DEFINE p == c.atoms * Milli
  <2>1. p \in Nat /\ (c.atoms + 1) * Milli = p + Milli
    BY <1>0
  <2>2. c.mAtoms = p % Wrap
    BY <1>1 DEF Acceptable, X402Valid
  <2> HIDE DEF p
  <2>3. p % Wrap \in Nat /\ p % Wrap <= p
    BY <2>1, Remainder
  <2>4. c.mAtoms < (c.atoms + 1) * Milli
    BY <2>1, <2>2, <2>3
  <2> QED BY <1>1, <2>4 DEF Parsed
<1>2. CASE c.rail # "x402"
  <2> DEFINE q == c.mAtoms \div Milli
  <2>1. Parsed(c).mAtoms = c.mAtoms /\ Parsed(c).atoms = q
    BY <1>2 DEF Parsed, ChallengeRec
  <2>2. q \in Nat /\ c.mAtoms = Milli * q + (c.mAtoms % Milli) /\ c.mAtoms % Milli < Milli
        /\ c.mAtoms % Milli \in Nat
    BY <1>0, Remainder
  <2> HIDE DEF q
  <2>3. (q + 1) * Milli = Milli * q + Milli /\ Milli * q \in Nat
    BY <2>2
  <2> QED BY <1>0, <2>1, <2>2, <2>3
<1> QED BY <1>1, <1>2

\* What policy sees is a challenge.
LEMMA ParsedTyped ==
  ASSUME NEW c \in ChallengeRec
  PROVE  Parsed(c) \in ChallengeRec
<1>1. c.mAtoms \div Milli \in Nat
  BY Remainder DEF ChallengeRec
<1> QED BY <1>1 DEF Parsed, ChallengeRec

\* Merchants send challenges.
LEMMA OfferedTyped == Offered \subseteq ChallengeRec
<1>1. Price * Milli \in Nat
  OBVIOUS
<1> QED BY <1>1 DEF Offered, ChallengeRec

-----------------------------------------------------------------------------
(* Types *)

\* The fetch under way, field by field.
LEMMA FetchTyped ==
  ASSUME TypeOK
  PROVE  /\ f = [phase |-> f.phase, site |-> f.site, guard |-> f.guard,
                 auth |-> f.auth, ch |-> f.ch, got |-> f.got]
         /\ f.phase \in Phase /\ f.site \in Site \cup {NoSite} /\ f.guard \in Nat
         /\ f.auth \in TokenRec \cup {NoToken} /\ f.ch \in ChallengeRec
         /\ f.got \in TokenRec \cup {NoToken}
         /\ f.ch.atoms \in Nat /\ f.ch.mAtoms \in Nat
         /\ f.phase # "idle" => f.site \in Site
<1>1. f \in FetchRec
  BY DEF TypeOK
<1>2. f.ch \in ChallengeRec
  BY <1>1 DEF FetchRec
<1> QED BY <1>1, <1>2 DEF TypeOK, FetchRec, ChallengeRec

\* No fetch is a fetch record.
LEMMA IdleTyped == Idle \in FetchRec /\ Idle.phase = "idle" /\ Idle.site = NoSite
<1>1. NoChallenge \in ChallengeRec
  BY DEF NoChallenge, ChallengeRec
<1> QED BY <1>1 DEF Idle, FetchRec, Phase

\* Where the fetch goes next.
LEMMA GotoTyped ==
  ASSUME TypeOK, NEW p \in Phase, p # "idle" => f.phase # "idle", Goto(p)
  PROVE  /\ f' \in FetchRec /\ (f'.phase # "idle" => f'.site \in Site)
         /\ f'.phase = p /\ f'.site = f.site /\ f'.guard = f.guard
         /\ f'.auth = f.auth /\ f'.ch = f.ch /\ f'.got = f.got
  BY FetchTyped DEF Goto, FetchRec

\* Tokens and hosts of the sites.
LEMMA HostTyped == \A s \in Site : HostOf[s] \in Host
  BY DEF Host

\* The credential bought with the last payment.
LEMMA NewTyped ==
  ASSUME TypeOK, f.phase # "idle"
  PROVE  NewCredential \in Credential /\ NewToken \in TokenRec
<1>1. Len(paid) \in Nat /\ now \in Nat /\ f.site \in Site
  BY FetchTyped DEF TypeOK
<1>2. NewCredential \in Credential
  BY <1>1 DEF NewCredential, Credential
<1>3. NewCredential.until \in Nat
  BY <1>2 DEF Credential
<1> QED BY <1>2, <1>3 DEF NewToken, TokenRec

\* One payment more.
LEMMA PaidTyped ==
  ASSUME TypeOK, f.phase # "idle", NEW b \in BOOLEAN
  PROVE  LET p == Append(paid, Payment(b))
         IN  /\ Payment(b) \in PaidRec
             /\ p \in Seq(PaidRec) /\ Len(p) = Len(paid) + 1 /\ Len(paid) \in Nat
             /\ DOMAIN paid = 1 .. Len(paid) /\ DOMAIN p = 1 .. Len(paid) + 1
             /\ p[Len(paid) + 1] = Payment(b)
             /\ \A k \in DOMAIN paid : p[k] = paid[k]
<1>1. Payment(b) \in PaidRec
  BY FetchTyped DEF Payment, PaidRec
<1>2. paid \in Seq(PaidRec)
  BY DEF TypeOK
<1> QED BY <1>1, <1>2

\* What the steps do to the clock, the cache, the merchants and the bounds.
RestTyped ==
  /\ now \in 0 .. MaxTime
  /\ tokens \in [Host -> TokenRec \cup {NoToken}]
  /\ issued \subseteq Credential /\ dropped \subseteq issued
  /\ fetches \in 0 .. MaxFetches
  /\ faults \in 0 .. MaxFaults
  /\ restarts \in 0 .. MaxRestarts

\* Every step keeps them typed.
LEMMA RestStays ==
  ASSUME TypeOK, [Next]_vars
  PROVE  RestTyped'
<1> USE DEF merchant, bounds
<1>r. RestTyped
  BY DEF TypeOK, RestTyped
<1>f. ASSUME Fault PROVE faults' \in 0 .. MaxFaults
  BY <1>f, <1>r DEF Fault, RestTyped
<1>1. CASE UNCHANGED vars
  BY <1>1, <1>r DEF vars, RestTyped
<1>2. ASSUME NEW s \in Site, NEW g \in Guard, Start(s, g) PROVE RestTyped'
  <2>1. fetches' \in 0 .. MaxFetches
    BY <1>2, <1>r DEF Start, RestTyped
  <2>2. faults' \in 0 .. MaxFaults /\ UNCHANGED <<now, tokens, issued, dropped, restarts>>
    BY <1>2, <1>r, <1>f DEF Start, RestTyped
  <2> QED BY <1>r, <2>1, <2>2 DEF RestTyped
<1>3. ASSUME NEW status \in Status, Send(status) \/ SendBare(status) PROVE RestTyped'
  <2>1. /\ faults' \in 0 .. MaxFaults
        /\ UNCHANGED <<now, tokens, issued, dropped, fetches, restarts>>
    BY <1>3, <1>r, <1>f DEF Send, SendBare, Answers, RestTyped
  <2> QED BY <1>r, <2>1 DEF RestTyped
<1>4. CASE DropToken \/ Cache
  <2>1. /\ faults' \in 0 .. MaxFaults
        /\ UNCHANGED <<now, issued, dropped, fetches, restarts>>
    BY <1>4, <1>r, <1>f DEF DropToken, Cache, RestTyped
  <2>2. tokens' \in [Host -> TokenRec \cup {NoToken}]
    <3>1. f.site \in Site /\ HostOf[f.site] \in Host /\ f.got \in TokenRec \cup {NoToken}
      BY <1>4, FetchTyped, HostTyped DEF DropToken, Cache
    <3> QED BY <1>4, <1>r, <3>1 DEF DropToken, Cache, RestTyped
  <2> QED BY <1>r, <2>1, <2>2 DEF RestTyped
<1>5. CASE (\E c \in Offered : Parse(c)) \/ (\E allow \in BOOLEAN : Gate(allow)) \/ Pay
  BY <1>5, <1>r DEF Parse, Gate, Pay, RestTyped
<1>6. CASE PayError \/ Record
  <2>1. /\ faults' \in 0 .. MaxFaults
        /\ UNCHANGED <<now, tokens, issued, dropped, fetches, restarts>>
    BY <1>6, <1>r, <1>f DEF PayError, Record, RestTyped
  <2> QED BY <1>r, <2>1 DEF RestTyped
<1>7. CASE (\E token \in {NewToken, NoToken} : Present(token)) \/ PresentError
  <2>1. NewCredential \in Credential
    BY <1>7, NewTyped DEF Present, PresentError
  <2>2. /\ faults' \in 0 .. MaxFaults
        /\ UNCHANGED <<now, tokens, dropped, fetches, restarts>>
        /\ issued' \in {issued, issued \cup {NewCredential}}
    BY <1>7, <1>r, <1>f DEF Present, PresentError, Issue, RestTyped
  <2> QED BY <1>r, <2>1, <2>2 DEF RestTyped
<1>8. CASE Restart \/ Tick \/ \E c \in issued : Drop(c)
  BY <1>8, <1>r DEF Restart, Tick, Drop, RestTyped
<1> QED BY <1>1, <1>2, <1>3, <1>4, <1>5, <1>6, <1>7, <1>8 DEF Next, Step

-----------------------------------------------------------------------------
(* The inductive invariant *)

\* A step that pays nothing keeps the invariant, if the fetch it leaves is
\* ruled on and the receipt it may drop is booked or given up.
LEMMA NoPayment ==
  ASSUME PayClientInv, RestTyped', paid' = paid,
         f' \in FetchRec, f'.phase # "idle" => f'.site \in Site, Ruled',
         books' \subseteq books \cup {[number |-> Len(paid), atoms |-> f.ch.atoms]},
         books \subseteq books', lost \subseteq lost', lost' \subseteq lost \cup {Len(paid)},
         books' # books \/ lost' # lost => f.phase \in Paying,
         f.phase \in Paying =>
           \/ f'.phase \in Paying /\ f'.site = f.site /\ f'.ch = f.ch
           \/ [number |-> Len(paid), atoms |-> f.ch.atoms] \in books'
           \/ Len(paid) \in lost',
         f'.phase \in Paying => f.phase \in Paying /\ f'.site = f.site /\ f'.ch = f.ch
  PROVE  PayClientInv'
<1>t. TypeOK /\ paid \in Seq(PaidRec) /\ f.ch.atoms \in Nat
  BY FetchTyped DEF PayClientInv, TypeOK
<1>l. f.phase \in Paying => Len(paid) \in DOMAIN paid /\ paid[Len(paid)].atoms = f.ch.atoms
  BY <1>t DEF PayClientInv, HoldsReceipt
<1>1. books' \subseteq [number: DOMAIN paid, atoms: Nat] /\ lost' \subseteq DOMAIN paid
  <2>1. CASE f.phase \in Paying
    <3>1. [number |-> Len(paid), atoms |-> f.ch.atoms] \in [number: DOMAIN paid, atoms: Nat]
      BY <1>t, <1>l, <2>1
    <3> QED BY <1>t, <1>l, <2>1, <3>1 DEF TypeOK
  <2>2. CASE f.phase \notin Paying
    BY <1>t, <2>2 DEF TypeOK
  <2> QED BY <2>1, <2>2
<1>2. TypeOK'
  BY <1>t, <1>1 DEF TypeOK, RestTyped
<1>3. HoldsReceipt'
  BY DEF PayClientInv, HoldsReceipt
<1>4. PaidAsRuled'
  BY DEF PayClientInv, PaidAsRuled
<1>5. ReceiptKept'
  <2> SUFFICES ASSUME NEW k \in DOMAIN paid, paid[k].seen
               PROVE  \/ [number |-> k, atoms |-> paid[k].atoms] \in books'
                      \/ k \in lost'
                      \/ k = Len(paid) /\ f'.phase \in Paying
    BY DEF ReceiptKept
  <2>1. \/ [number |-> k, atoms |-> paid[k].atoms] \in books
        \/ k \in lost
        \/ k = Len(paid) /\ f.phase \in Paying
    BY DEF PayClientInv, ReceiptKept
  <2> QED BY <1>l, <2>1
<1> QED BY <1>2, <1>3, <1>4, <1>5 DEF PayClientInv

\* A step that ends a fetch which holds no receipt.
LEMMA ReturnInv ==
  ASSUME PayClientInv, RestTyped', Return, f.phase \notin Paying, UNCHANGED <<paid, books, lost>>
  PROVE  PayClientInv'
<1>1. f' = Idle
  BY DEF Return
<1>2. Ruled' /\ f'.phase \notin Paying
  BY <1>1, IdleTyped DEF Ruled, Paying
<1> QED BY <1>1, <1>2, IdleTyped, NoPayment DEF Paying

\* A step that moves a fetch which holds no receipt to a point before the gate.
LEMMA MoveInv ==
  ASSUME PayClientInv, RestTyped', f' \in FetchRec, f'.site \in Site,
         f'.phase \in {"send", "refused", "bare", "parse"},
         f.phase \notin Paying, UNCHANGED <<paid, books, lost>>
  PROVE  PayClientInv'
<1>1. Ruled' /\ f'.phase \notin Paying
  BY DEF Ruled, Paying
<1> QED BY <1>1, NoPayment

\* Steps before the challenge is parsed.
LEMMA AskInv ==
  ASSUME PayClientInv, RestTyped',
         \/ \E s \in Site, g \in Guard : Start(s, g)
         \/ \E status \in Status : Send(status) \/ SendBare(status)
         \/ DropToken
  PROVE  PayClientInv'
<1>t. TypeOK
  BY DEF PayClientInv
<1>1. ASSUME NEW s \in Site, NEW g \in Guard, Start(s, g) PROVE PayClientInv'
  <2>1. PICK t \in {tokens[HostOf[s]], NoToken} :
          f' = [Idle EXCEPT !.phase = "send", !.site = s, !.guard = g, !.auth = t]
    BY <1>1 DEF Start
  <2>2. t \in TokenRec \cup {NoToken}
    BY <1>t, HostTyped DEF TypeOK
  <2>3. f' \in FetchRec /\ f'.phase = "send" /\ f'.site = s
    BY <2>1, <2>2, IdleTyped DEF FetchRec, Phase
  <2>4. f.phase \notin Paying /\ UNCHANGED <<paid, books, lost>>
    BY <1>1 DEF Start, Paying
  <2> QED BY <2>3, <2>4, MoveInv
<1>2. ASSUME NEW status \in Status, Send(status) \/ SendBare(status) PROVE PayClientInv'
  <2>1. f.phase \in {"send", "bare"} /\ f.phase \notin Paying /\ UNCHANGED <<paid, books, lost>>
    BY <1>2 DEF Send, SendBare, Paying
  <2>2. Return \/ Goto("refused") \/ Goto("parse")
    BY <1>2 DEF Send, SendBare
  <2>3. ASSUME NEW p \in {"refused", "parse"}, Goto(p) PROVE PayClientInv'
    <3>1. f' \in FetchRec /\ f'.phase = p /\ f'.site \in Site
      BY <1>t, <2>1, <2>3, GotoTyped DEF Phase
    <3> QED BY <2>1, <3>1, MoveInv
  <2> QED BY <2>1, <2>2, <2>3, ReturnInv
<1>3. CASE DropToken
  <2>1. /\ f.phase = "refused" /\ f' = [f EXCEPT !.phase = "bare", !.auth = NoToken]
        /\ UNCHANGED <<paid, books, lost>> /\ f.phase \notin Paying
    BY <1>3 DEF DropToken, Paying
  <2>2. f' \in FetchRec /\ f'.phase = "bare" /\ f'.site \in Site
    BY <1>t, <2>1, FetchTyped DEF FetchRec, Phase
  <2> QED BY <2>1, <2>2, MoveInv
<1> QED BY <1>1, <1>2, <1>3

\* Parsing a challenge and the ruling of policy.
LEMMA RuleInv ==
  ASSUME PayClientInv, RestTyped',
         (\E c \in Offered : Parse(c)) \/ (\E allow \in BOOLEAN : Gate(allow))
  PROVE  PayClientInv'
<1>t. TypeOK
  BY DEF PayClientInv
<1>1. ASSUME NEW c \in Offered, Parse(c) PROVE PayClientInv'
  <2>0. f.phase = "parse" /\ f.phase \notin Paying /\ UNCHANGED <<paid, books, lost>>
    BY <1>1 DEF Parse, Paying
  <2>1. CASE Acceptable(c) /\ (f.guard > 0 => Parsed(c).atoms <= f.guard)
    <3>1. f' = [f EXCEPT !.phase = "gate", !.ch = Parsed(c)]
      BY <1>1, <2>1 DEF Parse
    <3>2. Parsed(c) \in ChallengeRec /\ Parsed(c).mAtoms < (Parsed(c).atoms + 1) * Milli
      BY <2>1, OfferedTyped, ParsedTyped, AcceptableAmount
    <3>3. /\ f' \in FetchRec /\ f'.phase = "gate" /\ f'.site \in Site
          /\ f'.ch = Parsed(c) /\ f'.guard = f.guard
      BY <1>t, <2>0, <3>1, <3>2, FetchTyped DEF FetchRec, Phase
    <3>4. Ruled' /\ f'.phase \notin Paying
      BY <2>1, <3>2, <3>3 DEF Ruled, Paying
    <3> QED BY <2>0, <3>3, <3>4, NoPayment
  <2>2. CASE ~(Acceptable(c) /\ (f.guard > 0 => Parsed(c).atoms <= f.guard))
    <3>1. Return
      BY <1>1, <2>2 DEF Parse
    <3> QED BY <2>0, <3>1, ReturnInv
  <2> QED BY <2>1, <2>2
<1>2. ASSUME NEW allow \in BOOLEAN, Gate(allow) PROVE PayClientInv'
  <2>0. f.phase = "gate" /\ f.phase \notin Paying /\ UNCHANGED <<paid, books, lost>>
    BY <1>2 DEF Gate, Paying
  <2>1. CASE allow
    <3>1. Goto("pay") /\ f.ch.atoms <= Limit
      BY <1>2, <2>1 DEF Gate
    <3>2. /\ f' \in FetchRec /\ f'.phase = "pay" /\ f'.site \in Site
          /\ f'.ch = f.ch /\ f'.guard = f.guard
      BY <1>t, <2>0, <3>1, GotoTyped DEF Phase
    <3>3. Ruled' /\ f'.phase \notin Paying
      BY <2>0, <3>1, <3>2 DEF PayClientInv, Ruled, Paying
    <3> QED BY <2>0, <3>2, <3>3, NoPayment
  <2>2. CASE ~allow
    BY <1>2, <2>0, <2>2, ReturnInv DEF Gate
  <2> QED BY <2>1, <2>2
<1> QED BY <1>1, <1>2

\* The node pays what was ruled on, with or without a confirmation.
LEMMA PayInv ==
  ASSUME PayClientInv, RestTyped', f.phase = "pay", NEW b \in BOOLEAN,
         paid' = Append(paid, Payment(b)), UNCHANGED <<books, lost>>,
         (b /\ Goto("present")) \/ (~b /\ Return)
  PROVE  PayClientInv'
<1>t. TypeOK /\ f.ch.atoms \in Nat
  BY FetchTyped DEF PayClientInv
<1>1. /\ Len(paid) \in Nat /\ paid' \in Seq(PaidRec) /\ Len(paid') = Len(paid) + 1
      /\ DOMAIN paid = 1 .. Len(paid) /\ DOMAIN paid' = 1 .. Len(paid) + 1
      /\ paid'[Len(paid) + 1] = Payment(b)
      /\ \A k \in DOMAIN paid : paid'[k] = paid[k]
  BY <1>t, PaidTyped
<1>2. /\ f' \in FetchRec /\ (f'.phase # "idle" => f'.site \in Site)
      /\ f'.phase \in {"present", "idle"}
      /\ b => f'.phase = "present" /\ f'.site = f.site /\ f'.ch = f.ch
      /\ ~b => f'.phase = "idle"
  BY <1>t, GotoTyped, IdleTyped DEF Return, Phase
<1>3. TypeOK'
  <2>1. DOMAIN paid \subseteq DOMAIN paid'
    BY <1>1
  <2>2. books' \subseteq [number: DOMAIN paid', atoms: Nat] /\ lost' \subseteq DOMAIN paid'
    BY <1>t, <2>1 DEF TypeOK
  <2> QED BY <1>1, <1>2, <2>2 DEF TypeOK, RestTyped
<1>4. Ruled'
  BY <1>2 DEF Ruled
<1>5. HoldsReceipt'
  <2>1. b => /\ paid' # <<>> /\ paid'[Len(paid')].site = f.site /\ paid'[Len(paid')].atoms = f.ch.atoms
    BY <1>1 DEF Payment
  <2> QED BY <1>2, <2>1 DEF HoldsReceipt, Paying
<1>6. PaidAsRuled'
  <2> SUFFICES ASSUME NEW k \in DOMAIN paid'
               PROVE  /\ paid'[k].mAtoms < (paid'[k].atoms + 1) * Milli
                      /\ paid'[k].atoms <= Limit
                      /\ paid'[k].guard > 0 => paid'[k].atoms <= paid'[k].guard
    BY DEF PaidAsRuled
  <2>1. CASE k \in DOMAIN paid
    BY <1>1, <2>1 DEF PayClientInv, PaidAsRuled
  <2>2. CASE k \notin DOMAIN paid
    <3>1. paid'[k] = Payment(b)
      BY <1>1, <2>2
    <3> QED BY <3>1 DEF Payment, PayClientInv, Ruled
  <2> QED BY <2>1, <2>2
<1>7. ReceiptKept'
  <2> SUFFICES ASSUME NEW k \in DOMAIN paid', paid'[k].seen
               PROVE  \/ [number |-> k, atoms |-> paid'[k].atoms] \in books
                      \/ k \in lost
                      \/ k = Len(paid') /\ f'.phase \in Paying
    BY DEF ReceiptKept
  <2>1. CASE k \in DOMAIN paid
    <3>1. f.phase \notin Paying
      BY DEF Paying
    <3> QED BY <1>1, <2>1, <3>1 DEF PayClientInv, ReceiptKept
  <2>2. CASE k \notin DOMAIN paid
    <3>1. k = Len(paid') /\ paid'[k] = Payment(b)
      BY <1>1, <2>2
    <3>2. b
      BY <3>1 DEF Payment
    <3> QED BY <1>2, <3>1, <3>2 DEF Paying
  <2> QED BY <2>1, <2>2
<1> QED BY <1>3, <1>4, <1>5, <1>6, <1>7 DEF PayClientInv

\* After the payment: the answer, the cache, the books, and a restart.
LEMMA BookInv ==
  ASSUME PayClientInv, RestTyped',
         \/ \E token \in {NewToken, NoToken} : Present(token)
         \/ PresentError \/ Cache \/ Record \/ Restart
  PROVE  PayClientInv'
<1>t. TypeOK
  BY DEF PayClientInv
<1>1. ASSUME NEW token \in {NewToken, NoToken}, Present(token) PROVE PayClientInv'
  <2>1. /\ f.phase = "present" /\ f' = [f EXCEPT !.phase = "cache", !.got = token]
        /\ UNCHANGED <<paid, books, lost>>
    BY <1>1 DEF Present
  <2>2. token \in TokenRec \cup {NoToken}
    BY <1>t, <2>1, NewTyped
  <2>3. f' \in FetchRec /\ f'.phase = "cache" /\ f'.site = f.site /\ f'.ch = f.ch /\ f.site \in Site
    BY <1>t, <2>1, <2>2, FetchTyped DEF FetchRec, Phase
  <2>4. Ruled' /\ f.phase \in Paying /\ f'.phase \in Paying
    BY <2>1, <2>3 DEF Ruled, Paying
  <2> QED BY <2>1, <2>3, <2>4, NoPayment
<1>2. CASE PresentError \/ Cache
  <2>1. f.phase \in {"present", "cache"} /\ Goto("record") /\ UNCHANGED <<paid, books, lost>>
    BY <1>2 DEF PresentError, Cache
  <2>2. f' \in FetchRec /\ f'.phase = "record" /\ f'.site = f.site /\ f'.ch = f.ch /\ f'.site \in Site
    BY <1>t, <2>1, GotoTyped DEF Phase
  <2>3. Ruled' /\ f.phase \in Paying /\ f'.phase \in Paying
    BY <2>1, <2>2 DEF Ruled, Paying
  <2> QED BY <2>1, <2>2, <2>3, NoPayment
<1>3. CASE Record
  <2>1. /\ f.phase = "record" /\ f' = Idle /\ paid' = paid
        /\ \/ books' = books \cup {[number |-> Len(paid), atoms |-> f.ch.atoms]} /\ lost' = lost
           \/ lost' = lost \cup {Len(paid)} /\ books' = books
    BY <1>3 DEF Record, Return
  <2>2. Ruled' /\ f.phase \in Paying /\ f'.phase \notin Paying
    BY <2>1, IdleTyped DEF Ruled, Paying
  <2> QED BY <2>1, <2>2, IdleTyped, NoPayment
<1>4. CASE Restart
  <2>1. /\ f' = Idle /\ paid' = paid /\ books' = books
        /\ lost' = IF f.phase \in Paying THEN lost \cup {Len(paid)} ELSE lost
    BY <1>4 DEF Restart, Return
  <2>2. Ruled' /\ f'.phase \notin Paying
    BY <2>1, IdleTyped DEF Ruled, Paying
  <2> QED BY <2>1, <2>2, IdleTyped, NoPayment
<1> QED BY <1>1, <1>2, <1>3, <1>4

\* PayClientInv is inductive.
LEMMA StepPayClientInv ==
  ASSUME PayClientInv, [Next]_vars
  PROVE  PayClientInv'
<1>t. TypeOK
  BY DEF PayClientInv
<1>r. RestTyped'
  BY <1>t, RestStays
<1>1. CASE Pay
  <2>1. f.phase = "pay" /\ paid' = Append(paid, Payment(TRUE)) /\ Goto("present") /\ UNCHANGED <<books, lost>>
    BY <1>1 DEF Pay
  <2>2. PICK b \in BOOLEAN : b /\ paid' = Append(paid, Payment(b))
    BY <2>1, Zenon
  <2>3. (b /\ Goto("present")) \/ (~b /\ Return)
    BY <2>1, <2>2
  <2> QED BY <1>r, <2>1, <2>2, <2>3, PayInv
<1>2. CASE PayError
  <2>1. /\ f.phase = "pay" /\ Return /\ UNCHANGED <<books, lost>>
        /\ paid' = paid \/ paid' = Append(paid, Payment(FALSE))
    BY <1>2 DEF PayError
  <2>2. CASE paid' = paid
    <3>1. f.phase \notin Paying
      BY <2>1 DEF Paying
    <3> QED BY <1>r, <2>1, <2>2, <3>1, ReturnInv
  <2>3. CASE paid' = Append(paid, Payment(FALSE))
    <3>1. \E b \in BOOLEAN : ~b /\ paid' = Append(paid, Payment(b))
      BY <2>3, Zenon
    <3> QED BY <1>r, <2>1, <3>1, PayInv
  <2> QED BY <2>1, <2>2, <2>3
<1>3. CASE Tick \/ (\E c \in issued : Drop(c)) \/ UNCHANGED vars
  <2>1. UNCHANGED <<f, paid, books, lost>>
    BY <1>3 DEF Tick, Drop, vars
  <2>2. TypeOK'
    BY <1>t, <1>r, <2>1 DEF TypeOK, RestTyped
  <2> QED BY <2>1, <2>2 DEF PayClientInv, Ruled, HoldsReceipt, PaidAsRuled, ReceiptKept
<1> QED BY <1>r, <1>1, <1>2, <1>3, AskInv, RuleInv, BookInv DEF Next, Step

\* The first state satisfies the invariant.
LEMMA InitPayClientInv == Init => PayClientInv
<1> SUFFICES ASSUME Init PROVE PayClientInv
  OBVIOUS
<1>1. f \in FetchRec /\ f.phase = "idle"
  BY IdleTyped DEF Init
<1>2. paid = <<>> /\ paid \in Seq(PaidRec) /\ DOMAIN paid = {}
  BY DEF Init
<1>3. TypeOK
  BY <1>1, <1>2 DEF Init, TypeOK
<1> QED BY <1>1, <1>2, <1>3 DEF PayClientInv, Ruled, HoldsReceipt, PaidAsRuled, ReceiptKept, Paying

-----------------------------------------------------------------------------
(* Repeat access *)

\* Payments to a site, and its credentials that lapsed, can be counted.
LEMMA Countable ==
  ASSUME PayClientInv, IssuedForPayment, NEW s
  PROVE  /\ IsFiniteSet(PaymentsTo(s)) /\ Cardinality(PaymentsTo(s)) \in Nat
         /\ IsFiniteSet(LapsedAt(s)) /\ Cardinality(LapsedAt(s)) \in Nat
         /\ faults \in Nat /\ restarts \in Nat /\ now \in Nat /\ Len(paid) \in Nat
         /\ \A c \in issued : c.until \in Nat
<1>1. /\ paid \in Seq(PaidRec) /\ faults \in Nat /\ restarts \in Nat /\ now \in Nat
      /\ issued \subseteq Credential
  BY DEF PayClientInv, TypeOK
<1>2. IsFiniteSet(1 .. Len(paid)) /\ PaymentsTo(s) \subseteq 1 .. Len(paid)
  BY <1>1, FS_Interval DEF PaymentsTo
<1>3. IsFiniteSet(issued) /\ LapsedAt(s) \subseteq issued
  BY DEF IssuedForPayment, LapsedAt
<1>4. IsFiniteSet(PaymentsTo(s)) /\ IsFiniteSet(LapsedAt(s))
  BY <1>2, <1>3, FS_Subset
<1> QED BY <1>1, <1>4, FS_CardinalityType DEF Credential

\* A credential once lapsed stays lapsed, and every new one counts.
LEMMA LapsesGrow ==
  ASSUME PayClientInv, IssuedForPayment, PayClientInv', IssuedForPayment',
         now <= now', issued \subseteq issued', dropped \subseteq dropped', NEW s
  PROVE  /\ Cardinality(LapsedAt(s)) <= Cardinality(LapsedAt(s)')
         /\ LapsedAt(s)' # LapsedAt(s) =>
              Cardinality(LapsedAt(s)) < Cardinality(LapsedAt(s)')
<1>1. /\ now \in Nat /\ now' \in Nat /\ \A c \in issued : c.until \in Nat
      /\ IsFiniteSet(LapsedAt(s)') /\ IsFiniteSet(LapsedAt(s))
  <2>1. now' \in Nat
    BY DEF PayClientInv, TypeOK
  <2>2. IsFiniteSet(issued') /\ LapsedAt(s)' \subseteq issued'
    BY DEF IssuedForPayment, LapsedAt
  <2> QED BY <2>1, <2>2, Countable, FS_Subset
<1>2. LapsedAt(s) \subseteq LapsedAt(s)'
  BY <1>1 DEF LapsedAt, Lapsed
<1>3. /\ Cardinality(LapsedAt(s)) <= Cardinality(LapsedAt(s)')
      /\ Cardinality(LapsedAt(s)) = Cardinality(LapsedAt(s)') => LapsedAt(s) = LapsedAt(s)'
      /\ Cardinality(LapsedAt(s)) \in Nat /\ Cardinality(LapsedAt(s)') \in Nat
  BY <1>1, <1>2, FS_Subset, FS_CardinalityType
<1> QED BY <1>3

\* A step that pays nothing: access may be lost to an error, a restart or a
\* lapse, which pays for the next payment.
LEMMA KeepsAccess ==
  ASSUME NEW s \in Honest
  PROVE  /\ AccessInv /\ PayClientInv' /\ IssuedForPayment' /\ Alone(s)
         /\ now <= now' /\ issued \subseteq issued' /\ dropped \subseteq dropped'
         /\ paid' = paid /\ faults <= faults' /\ restarts <= restarts'
         /\ HasAccess(s) => \/ HasAccess(s)'
                            \/ faults < faults' \/ restarts < restarts'
                            \/ LapsedAt(s)' # LapsedAt(s)
         => PaidForAccess(s)'
<1>h. SUFFICES ASSUME AccessInv, PayClientInv', IssuedForPayment', Alone(s),
                      now <= now', issued \subseteq issued', dropped \subseteq dropped',
                      paid' = paid, faults <= faults', restarts <= restarts',
                      HasAccess(s) => \/ HasAccess(s)'
                                      \/ faults < faults' \/ restarts < restarts'
                                      \/ LapsedAt(s)' # LapsedAt(s)
               PROVE  PaidForAccess(s)'
  OBVIOUS
<1> DEFINE P == Cardinality(PaymentsTo(s))
           L == Cardinality(LapsedAt(s))
           L1 == Cardinality(LapsedAt(s)')
           A == IF HasAccess(s) THEN 1 ELSE 0
           A1 == IF HasAccess(s)' THEN 1 ELSE 0
           F1 == faults'
           R1 == restarts'
<1>0. LapsedAt(s)' # LapsedAt(s) => L < L1
  BY <1>h, LapsesGrow DEF AccessInv
<1>1. P \in Nat /\ L \in Nat /\ faults \in Nat /\ restarts \in Nat /\ L <= L1
  BY <1>h, Countable, LapsesGrow DEF AccessInv
<1>2. L1 \in Nat /\ F1 \in Nat /\ R1 \in Nat
  <2>1. IsFiniteSet(issued') /\ LapsedAt(s)' \subseteq issued'
    BY <1>h DEF IssuedForPayment, LapsedAt
  <2> QED BY <1>h, <2>1, FS_Subset, FS_CardinalityType DEF PayClientInv, TypeOK
<1>3. P <= faults + restarts + L + A
  BY <1>h DEF AccessInv, PaidForAccess
<1>4. Cardinality(PaymentsTo(s)') = P
  BY <1>h DEF PaymentsTo
<1>5. A \in {0, 1} /\ A1 \in {0, 1}
  OBVIOUS
<1>6. A <= A1 \/ faults < F1 \/ restarts < R1 \/ L < L1
  <2>1. CASE ~HasAccess(s) \/ HasAccess(s)'
    BY <2>1
  <2>2. CASE ~(~HasAccess(s) \/ HasAccess(s)')
    BY <1>h, <1>0, <2>2, Zenon
  <2> QED BY <2>1, <2>2
<1>7. L <= L1 /\ faults <= F1 /\ restarts <= R1
  BY <1>h, <1>1
<1> HIDE DEF P, L, L1, A, A1, F1, R1
<1>8. P <= F1 + R1 + L1 + A1
  BY <1>1, <1>2, <1>3, <1>5, <1>6, <1>7
<1>9. PaidForAccess(s)' = (Cardinality(PaymentsTo(s)') <= F1 + R1 + L1 + A1)
  BY DEF PaidForAccess, L1, A1, F1, R1
<1> QED BY <1>4, <1>8, <1>9

\* The fetch under way, if any, is for another site.
Away(s) == f.phase = "idle" \/ f.site # s

\* What a step may do to the access to a site.
Keeps(s) ==
  /\ CacheBelongs(s)'
  /\ HasAccess(s) => \/ HasAccess(s)'
                     \/ faults < faults' \/ restarts < restarts'
                     \/ LapsedAt(s)' # LapsedAt(s)

\* A step of a fetch from another site.
LEMMA Apart ==
  ASSUME AccessInv, NEW s \in Honest, Alone(s), Away(s), Away(s)',
         tokens'[HostOf[s]] = tokens[HostOf[s]],
         issued \subseteq issued', UNCHANGED <<now, dropped>>
  PROVE  CacheBelongs(s)' /\ (HasAccess(s) => HasAccess(s)')
<1>1. CacheBelongs(s)
  BY DEF AccessInv
<1>2. CacheBelongs(s)'
  BY <1>1 DEF CacheBelongs, Belongs, Away
<1>3. HasAccess(s) => Live(tokens[HostOf[s]])
  BY DEF HasAccess, Away
<1>4. Live(tokens[HostOf[s]]) => Live(tokens[HostOf[s]])'
  BY DEF Live, Lapsed
<1>5. Live(tokens[HostOf[s]])' => HasAccess(s)'
  BY DEF HasAccess, GoesToPay, Away
<1> QED BY <1>2, <1>3, <1>4, <1>5

\* A host of its own: the cached credential of another site is another one.
LEMMA OtherHost ==
  ASSUME TypeOK, NEW s \in Honest, Alone(s), NEW r \in Site, r # s, NEW x,
         tokens' = [tokens EXCEPT ![HostOf[r]] = x]
  PROVE  tokens'[HostOf[s]] = tokens[HostOf[s]]
<1>1. HostOf[r] # HostOf[s] /\ HostOf[s] \in Host
  BY HostTyped DEF Alone
<1> QED BY <1>1 DEF TypeOK

\* A credential of the site that is not served has lapsed, and one that is
\* not current neither is served.
LEMMA NotServed ==
  ASSUME AccessInv, NEW s \in Honest, Alone(s)
  PROVE  /\ Live(tokens[HostOf[s]]) => Current(tokens[HostOf[s]])
         /\ f.site = s /\ f.phase = "send" /\ f.auth # NoToken /\ ~Honoured(f.auth)
            => ~Live(tokens[HostOf[s]])
<1> DEFINE t == tokens[HostOf[s]]
<1>1. CacheBelongs(s)
  BY DEF AccessInv
<1>2. t # NoToken => t.validUntil \in {0, t.cred.until}
  BY <1>1 DEF CacheBelongs, Belongs
<1>n. now \in Nat /\ (t # NoToken => t.cred.until \in Nat)
  <2>1. now \in Nat /\ t \in TokenRec \cup {NoToken}
    BY HostTyped DEF AccessInv, PayClientInv, TypeOK
  <2> QED BY <2>1 DEF TokenRec, Credential
<1>3. Live(t) => Current(t)
  BY <1>n, <1>2 DEF Live, Lapsed, Current
<1>4. ASSUME f.site = s, f.phase = "send", f.auth # NoToken, ~Honoured(f.auth) PROVE ~Live(t)
  BY <1>1, <1>4 DEF CacheBelongs, Belongs, Honoured, Live
<1> QED BY <1>3, <1>4

\* A fetch starts.
LEMMA StartKeeps ==
  ASSUME AccessInv, NEW s \in Honest, Alone(s), NEW r \in Site, NEW g \in Guard, Start(r, g)
  PROVE  Keeps(s)
<1>t. TypeOK /\ faults \in Nat /\ CacheBelongs(s)
  BY DEF AccessInv, PayClientInv, TypeOK
<1>1. f.phase = "idle" /\ UNCHANGED <<now, tokens, issued, dropped>>
  BY DEF Start, merchant
<1>2. PICK t \in {tokens[HostOf[r]], NoToken} :
        /\ \/ t = IF Current(tokens[HostOf[r]]) THEN tokens[HostOf[r]] ELSE NoToken
           \/ t = NoToken /\ Fault
        /\ f' = [Idle EXCEPT !.phase = "send", !.site = r, !.guard = g, !.auth = t]
  BY DEF Start
<1>3. f'.phase = "send" /\ f'.site = r /\ f'.auth = t
  BY <1>2 DEF Idle
<1>4. CASE r # s
  BY <1>1, <1>3, <1>4, Apart DEF Keeps, Away
<1>5. CASE r = s
  <2>1. CacheBelongs(s)'
    BY <1>t, <1>1, <1>2, <1>3, <1>5 DEF CacheBelongs, Belongs
  <2>2. HasAccess(s) => Live(tokens[HostOf[s]])
    BY <1>1 DEF HasAccess
  <2>3. t # NoToken /\ Live(tokens[HostOf[s]]) => HasAccess(s)'
    BY <1>1, <1>3 DEF HasAccess, GoesToPay, Live, Lapsed
  <2>4. t = NoToken /\ Live(tokens[HostOf[s]]) => faults < faults'
    BY <1>t, <1>2, <1>5, NotServed DEF Fault, Live
  <2> QED BY <2>1, <2>2, <2>3, <2>4 DEF Keeps
<1> QED BY <1>4, <1>5

\* Answers to the requests, and the refused credential dropped.
LEMMA AskKeeps ==
  ASSUME AccessInv, NEW s \in Honest, Alone(s),
         (\E status \in Status : Send(status) \/ SendBare(status)) \/ DropToken
  PROVE  Keeps(s)
<1>p. f.phase \in {"send", "bare", "refused"}
  BY DEF Send, SendBare, DropToken
<1>t. TypeOK /\ CacheBelongs(s) /\ faults \in Nat /\ f.site \in Site
  BY <1>p DEF AccessInv, PayClientInv, TypeOK
<1>1. f.phase \in {"send", "bare", "refused"} /\ UNCHANGED <<now, issued, dropped>>
  BY DEF Send, SendBare, DropToken, merchant
<1>2. CASE f.site # s
  <2>1. tokens'[HostOf[s]] = tokens[HostOf[s]]
    BY <1>t, <1>2, OtherHost DEF Send, SendBare, DropToken
  <2>2. Away(s) /\ Away(s)'
    BY <1>t, <1>2, IdleTyped, FetchTyped DEF Away, Send, SendBare, DropToken, Goto, Return
  <2> QED BY <1>1, <2>1, <2>2, Apart DEF Keeps
<1>3. ASSUME f.site = s, NEW status \in Status, Send(status) PROVE Keeps(s)
  <2>1. f.phase = "send" /\ UNCHANGED tokens
    BY <1>3 DEF Send
  <2>2. CASE Return
    <3>1. f'.phase = "idle"
      BY <2>2, IdleTyped DEF Return
    <3>2. CacheBelongs(s)'
      BY <1>t, <1>1, <2>1, <3>1 DEF CacheBelongs, Belongs
    <3>3. HasAccess(s) => HasAccess(s)'
      BY <1>1, <2>1, <3>1 DEF HasAccess, GoesToPay, Live, Lapsed
    <3> QED BY <3>2, <3>3 DEF Keeps
  <2>3. CASE ~Return
    <3>1. \/ f.auth # NoToken /\ f'.phase = "refused" /\ f'.site = s /\ ~Honoured(f.auth)
          \/ f.auth = NoToken /\ f'.phase = "parse" /\ f'.site = s
      BY <1>t, <1>3, <2>3, GotoTyped DEF Send, Answers, Phase
    <3>2. ~HasAccess(s)
      BY <1>3, <2>1, <3>1, NotServed DEF HasAccess, GoesToPay
    <3>3. CacheBelongs(s)'
      BY <1>t, <1>1, <2>1, <3>1 DEF CacheBelongs, Belongs
    <3> QED BY <3>2, <3>3 DEF Keeps
  <2> QED BY <2>2, <2>3
<1>4. ASSUME f.site = s, f.phase \in {"bare", "refused"} PROVE Keeps(s)
  <2>1. ~HasAccess(s)
    BY <1>4 DEF HasAccess, GoesToPay
  <2>2. tokens' \in {tokens, [tokens EXCEPT ![HostOf[s]] = NoToken]}
    BY <1>4 DEF Send, SendBare, DropToken
  <2>3. f'.phase \notin {"send", "cache"}
    BY <1>t, <1>4, FetchTyped, IdleTyped DEF Send, SendBare, DropToken, Return, Goto
  <2>4. tokens'[HostOf[s]] \in {NoToken, tokens[HostOf[s]]}
    BY <1>t, <2>2, HostTyped DEF TypeOK
  <2>5. CacheBelongs(s)'
    BY <1>t, <1>1, <2>3, <2>4 DEF CacheBelongs, Belongs
  <2> QED BY <2>1, <2>5 DEF Keeps
<1>5. (\E status \in Status : Send(status)) \/ f.phase \in {"bare", "refused"}
  BY DEF SendBare, DropToken
<1> QED BY <1>2, <1>3, <1>4, <1>5

\* A challenge is parsed and ruled on.
LEMMA RuleKeeps ==
  ASSUME AccessInv, NEW s \in Honest, Alone(s),
         (\E c \in Offered : Parse(c)) \/ (\E allow \in BOOLEAN : Gate(allow))
  PROVE  Keeps(s)
<1>t. TypeOK /\ CacheBelongs(s)
  BY DEF AccessInv, PayClientInv
<1>1. f.phase \in {"parse", "gate"} /\ UNCHANGED <<now, tokens, issued, dropped>>
  BY DEF Parse, Gate, merchant
<1>2. f'.phase \in {"gate", "pay", "idle"} /\ (f'.phase = "idle" \/ f'.site = f.site)
  BY <1>t, FetchTyped, IdleTyped DEF Parse, Gate, Goto, Return
<1>3. CASE f.site # s
  BY <1>1, <1>2, <1>3, Apart DEF Keeps, Away
<1>4. CASE f.site = s
  <2>1. ~HasAccess(s)
    BY <1>1, <1>4 DEF HasAccess, GoesToPay
  <2>2. CacheBelongs(s)'
    BY <1>t, <1>1, <1>2 DEF CacheBelongs, Belongs
  <2> QED BY <2>1, <2>2 DEF Keeps
<1> QED BY <1>3, <1>4

\* The answer to a payment, the cache and the books.
LEMMA BookKeeps ==
  ASSUME AccessInv, NEW s \in Honest, Alone(s),
         \/ \E token \in {NewToken, NoToken} : Present(token)
         \/ PresentError \/ Cache \/ Record
  PROVE  Keeps(s)
<1>p. f.phase \in {"present", "cache", "record"}
  BY DEF Present, PresentError, Cache, Record
<1>t. TypeOK /\ CacheBelongs(s) /\ faults \in Nat /\ f.site \in Site
  BY <1>p DEF AccessInv, PayClientInv, TypeOK
<1>1. issued \subseteq issued' /\ UNCHANGED <<now, dropped>>
  BY DEF Present, PresentError, Issue, Cache, Record, merchant
<1>2. CASE f.site # s
  <2>1. tokens'[HostOf[s]] = tokens[HostOf[s]]
    BY <1>t, <1>2, OtherHost DEF Present, PresentError, Cache, Record
  <2>2. Away(s) /\ Away(s)'
    BY <1>t, <1>2, IdleTyped, FetchTyped
       DEF Away, Present, PresentError, Cache, Record, Goto, Return
  <2> QED BY <1>1, <2>1, <2>2, Apart DEF Keeps
<1>3. ASSUME f.site = s, NEW token \in {NewToken, NoToken}, Present(token) PROVE Keeps(s)
  <2>1. /\ f.phase = "present" /\ token = NewToken /\ tokens' = tokens
        /\ issued' = issued \cup {NewCredential}
        /\ f' = [f EXCEPT !.phase = "cache", !.got = token]
    BY <1>3 DEF Present, Issue
  <2>2. f'.phase = "cache" /\ f'.site = s /\ f'.got = NewToken
    BY <1>t, <1>3, <2>1, FetchTyped
  <2>3. /\ NewToken # NoToken /\ NewToken.cred = NewCredential /\ NewCredential.site = s
        /\ NewToken.validUntil \in {0, NewCredential.until}
    BY <1>t, <1>3, <2>1, NewTyped DEF NewToken, NewCredential
  <2>4. CacheBelongs(s)'
    BY <1>t, <2>1, <2>2, <2>3 DEF CacheBelongs, Belongs
  <2>5. NewCredential \notin dropped
    <3>1. \A c \in issued : c.number < Len(paid)
      BY <2>1 DEF AccessInv, IssuedForPayment
    <3>2. NewCredential.number = Len(paid) /\ Len(paid) \in Nat /\ dropped \subseteq issued
      BY <1>t DEF NewCredential, TypeOK
    <3> QED BY <3>1, <3>2
  <2>6. ~(NewCredential.until # 0 /\ now >= NewCredential.until)
    BY <1>t DEF NewCredential, TypeOK
  <2>7. HasAccess(s)'
    BY <1>1, <2>2, <2>3, <2>5, <2>6 DEF HasAccess, Live, Lapsed
  <2> QED BY <2>4, <2>7 DEF Keeps
<1>4. ASSUME f.site = s, PresentError PROVE Keeps(s)
  <2>1. faults < faults' /\ tokens' = tokens /\ Goto("record") /\ f.phase = "present"
    BY <1>t, <1>4 DEF PresentError, Fault
  <2>2. f'.phase = "record"
    BY <1>t, <2>1, GotoTyped DEF Phase
  <2>3. CacheBelongs(s)'
    BY <1>t, <1>1, <2>1, <2>2 DEF CacheBelongs, Belongs
  <2> QED BY <2>1, <2>3 DEF Keeps
<1>5. ASSUME f.site = s, Cache PROVE Keeps(s)
  <2>1. /\ f.phase = "cache" /\ Goto("record") /\ f.got # NoToken /\ Belongs(f.got, s)
        /\ issued' = issued
    BY <1>t, <1>5 DEF Cache, CacheBelongs, merchant
  <2>2. f'.phase = "record" /\ f'.site = s
    BY <1>t, <1>5, <2>1, GotoTyped DEF Phase
  <2>3. \/ tokens'[HostOf[s]] = f.got
        \/ tokens' = tokens /\ faults < faults'
    BY <1>t, <1>5, <2>1, HostTyped DEF Cache, Fault, TypeOK
  <2>4. CacheBelongs(s)'
    BY <1>t, <2>1, <2>2, <2>3 DEF CacheBelongs, Belongs
  <2>5. HasAccess(s) => Live(f.got)
    BY <1>5, <2>1 DEF HasAccess, GoesToPay
  <2>6. tokens'[HostOf[s]] = f.got /\ Live(f.got) => HasAccess(s)'
    BY <1>1, <2>2 DEF HasAccess, GoesToPay, Live, Lapsed
  <2> QED BY <2>3, <2>4, <2>5, <2>6 DEF Keeps
<1>6. ASSUME f.site = s, Record PROVE Keeps(s)
  <2>1. f.phase = "record" /\ f'.phase = "idle" /\ UNCHANGED <<tokens, issued>>
    BY <1>6, IdleTyped DEF Record, Return, merchant
  <2>2. CacheBelongs(s)'
    BY <1>t, <2>1 DEF CacheBelongs, Belongs
  <2>3. HasAccess(s) => HasAccess(s)'
    BY <1>1, <2>1 DEF HasAccess, GoesToPay, Live, Lapsed
  <2> QED BY <2>2, <2>3 DEF Keeps
<1> QED BY <1>2, <1>3, <1>4, <1>5, <1>6

\* A restart, a revoked credential and the passing of time.
LEMMA WorldKeeps ==
  ASSUME AccessInv, NEW s \in Honest, Alone(s),
         Restart \/ (\E c \in issued : Drop(c)) \/ Tick \/ UNCHANGED vars
  PROVE  Keeps(s)
<1>t. TypeOK /\ CacheBelongs(s) /\ restarts \in Nat
  BY DEF AccessInv, PayClientInv, TypeOK
<1>1. UNCHANGED <<tokens, issued>>
  BY DEF Restart, Drop, Tick, vars, merchant
<1>2. CASE Restart
  <2>1. f'.phase = "idle" /\ restarts < restarts'
    BY <1>t, <1>2, IdleTyped DEF Restart, Return
  <2>2. CacheBelongs(s)'
    BY <1>t, <1>1, <2>1 DEF CacheBelongs, Belongs
  <2> QED BY <2>1, <2>2 DEF Keeps
<1>3. CASE (\E c \in issued : Drop(c)) \/ Tick \/ UNCHANGED vars
  <2>1. f' = f
    BY <1>3 DEF Drop, Tick, vars
  <2>2. CacheBelongs(s)'
    BY <1>t, <1>1, <2>1 DEF CacheBelongs, Belongs
  <2>3. ASSUME HasAccess(s), ~HasAccess(s)' PROVE LapsedAt(s)' # LapsedAt(s)
    <3>0. CASE f.site = s /\ f.phase = "present"
      BY <2>1, <2>3, <3>0 DEF HasAccess
    <3>1. CASE ~(f.site = s /\ f.phase = "present")
      <4>1. PICK t : /\ Live(t) /\ ~Live(t)' /\ Belongs(t, s)
        <5>1. CASE f.site = s /\ f.phase = "cache"
          BY <1>t, <2>1, <2>3, <5>1 DEF HasAccess, CacheBelongs, Live, Lapsed
        <5>2. CASE ~(f.site = s /\ f.phase = "cache")
          BY <1>t, <1>1, <2>1, <2>3, <3>1, <5>2 DEF HasAccess, GoesToPay, CacheBelongs, Live, Lapsed
        <5> QED BY <5>1, <5>2
      <4>2. t.cred \in issued /\ t.cred.site = s
        BY <4>1 DEF Live, Belongs
      <4>3. ~Lapsed(t.cred) /\ Lapsed(t.cred)'
        BY <4>1 DEF Live
      <4>4. t.cred \notin LapsedAt(s) /\ t.cred \in LapsedAt(s)'
        BY <1>1, <4>2, <4>3 DEF LapsedAt, Lapsed
      <4> QED BY <4>4
    <3> QED BY <3>0, <3>1
  <2> QED BY <2>2, <2>3 DEF Keeps
<1> QED BY <1>2, <1>3

\* Time, errors, restarts and what merchants issued and dropped only grow.
Grows ==
  /\ now <= now' /\ faults <= faults' /\ restarts <= restarts'
  /\ issued \subseteq issued' /\ dropped \subseteq dropped'

LEMMA EverythingGrows ==
  ASSUME TypeOK, [Next]_vars
  PROVE  Grows
<1> USE DEF merchant, bounds
<1>t. now \in Nat /\ faults \in Nat /\ restarts \in Nat
  BY DEF TypeOK
<1>f. Fault => faults <= faults'
  BY <1>t DEF Fault
<1>1. CASE UNCHANGED vars
  BY <1>t, <1>1 DEF vars, Grows
<1>2. CASE \E s \in Site, g \in Guard : Start(s, g)
  BY <1>t, <1>f, <1>2 DEF Start, Grows
<1>3. CASE \E status \in Status : Send(status) \/ SendBare(status)
  <2>1. (UNCHANGED faults \/ Fault) /\ UNCHANGED <<now, issued, dropped, restarts>>
    BY <1>3 DEF Send, SendBare, Answers
  <2> QED BY <1>t, <1>f, <2>1 DEF Grows
<1>4. CASE DropToken \/ Cache \/ PayError \/ Record
  <2>1. (UNCHANGED faults \/ Fault) /\ UNCHANGED <<now, issued, dropped, restarts>>
    BY <1>4 DEF DropToken, Cache, PayError, Record
  <2> QED BY <1>t, <1>f, <2>1 DEF Grows
<1>5. CASE (\E c \in Offered : Parse(c)) \/ (\E allow \in BOOLEAN : Gate(allow)) \/ Pay
  <2>1. UNCHANGED <<now, faults, restarts, issued, dropped>>
    BY <1>5 DEF Parse, Gate, Pay
  <2> QED BY <1>t, <2>1 DEF Grows
<1>6. CASE (\E token \in {NewToken, NoToken} : Present(token)) \/ PresentError
  BY <1>t, <1>f, <1>6 DEF Present, PresentError, Issue, Grows
<1>7. CASE Restart \/ Tick \/ \E c \in issued : Drop(c)
  BY <1>t, <1>7 DEF Restart, Tick, Drop, Grows
<1> QED BY <1>1, <1>2, <1>3, <1>4, <1>5, <1>6, <1>7 DEF Next, Step

\* A credential is issued only for a payment, and after it.
LEMMA IssuedStays ==
  ASSUME TypeOK, IssuedForPayment, [Next]_vars
  PROVE  IssuedForPayment'
<1> USE DEF merchant, bounds
<1>t. paid \in Seq(PaidRec) /\ Len(paid) \in Nat /\ issued \subseteq Credential
  BY DEF TypeOK
<1>n. \A c \in issued : c.number \in Nat
  BY <1>t DEF Credential
<1>1. CASE (\E token \in {NewToken, NoToken} : Present(token)) \/ PresentError
  <2>1. f'.phase \in {"cache", "record"} /\ paid' = paid
    BY <1>1, FetchTyped DEF Present, PresentError, Goto
  <2>2. issued' \in {issued, issued \cup {NewCredential}}
    BY <1>1 DEF Present, PresentError, Issue
  <2>3. IsFiniteSet(issued')
    BY <2>2, FS_AddElement DEF IssuedForPayment
  <2>4. \A c \in issued' : c.number <= Len(paid)
    BY <1>t, <2>2 DEF IssuedForPayment, NewCredential
  <2> QED BY <2>1, <2>3, <2>4 DEF IssuedForPayment
<1>2. CASE Pay \/ PayError
  <2>1. /\ f.phase = "pay" /\ issued' = issued
        /\ paid' = paid \/ \E b \in BOOLEAN : paid' = Append(paid, Payment(b))
    BY <1>2 DEF Pay, PayError
  <2>2. \/ paid' = paid /\ f'.phase = "idle"
        \/ Len(paid') = Len(paid) + 1
    BY <1>t, <1>2, <2>1, PaidTyped, IdleTyped DEF Pay, PayError, Return
  <2> QED BY <1>t, <1>n, <2>1, <2>2 DEF IssuedForPayment
<1>3. CASE ~(Pay \/ PayError \/ PresentError \/ \E token \in {NewToken, NoToken} : Present(token))
  <2>1. UNCHANGED <<paid, issued>>
    BY <1>3 DEF Next, Step, vars, Start, Send, SendBare, DropToken, Parse, Gate, Cache, Record,
                Restart, Drop, Tick
  <2>2. f'.phase = "present" => f.phase = "present"
    <3>1. CASE f' = f
      BY <3>1
    <3>2. CASE f' # f
      <4>1. \/ Return
            \/ f'.phase \in {"send", "refused", "bare", "parse", "gate", "pay", "record"}
        BY <1>3, <3>2, FetchTyped DEF Next, Step, vars, Start, Send, SendBare, DropToken, Parse,
           Gate, Cache, Record, Restart, Drop, Tick, Goto, Idle
      <4> QED BY <4>1, IdleTyped DEF Return
    <3> QED BY <3>1, <3>2
  <2> QED BY <2>1, <2>2 DEF IssuedForPayment
<1> QED BY <1>1, <1>2, <1>3

\* One payment more, which gives access or follows an error.
LEMMA PayKeeps ==
  ASSUME AccessInv, IssuedForPayment', PayClientInv', NEW s \in Honest, Alone(s), Pay \/ PayError
  PROVE  CacheBelongs(s)' /\ PaidForAccess(s)'
<1>t. /\ TypeOK /\ CacheBelongs(s) /\ f.phase = "pay" /\ PayClientInv /\ IssuedForPayment
      /\ UNCHANGED <<now, tokens, issued, dropped, restarts>>
  BY DEF AccessInv, PayClientInv, Pay, PayError, merchant, bounds
<1>1. \/ f'.phase = "present" /\ f'.site = f.site /\ faults' = faults
      \/ f'.phase = "idle" /\ faults' = faults + 1
  BY <1>t, GotoTyped, IdleTyped DEF Pay, PayError, Return, Fault, bounds, Phase
<1>2. CacheBelongs(s)'
  BY <1>t, <1>1 DEF CacheBelongs, Belongs
<1> DEFINE P == Cardinality(PaymentsTo(s))
           P1 == Cardinality(PaymentsTo(s)')
           L == Cardinality(LapsedAt(s))
           F1 == faults'
<1>3. P \in Nat /\ L \in Nat /\ faults \in Nat /\ restarts \in Nat
  BY <1>t, Countable
<1>4. LapsedAt(s)' = LapsedAt(s)
  BY <1>t DEF LapsedAt, Lapsed
<1>5. \/ P1 = P
      \/ P1 = P + 1 /\ f.site = s
  <2>1. CASE paid' = paid
    BY <2>1 DEF PaymentsTo
  <2>2. CASE paid' # paid
    <3>1. PICK b \in BOOLEAN : paid' = Append(paid, Payment(b))
      BY <2>2 DEF Pay, PayError
    <3>2. /\ Len(paid) \in Nat /\ DOMAIN paid = 1 .. Len(paid) /\ DOMAIN paid' = 1 .. Len(paid) + 1
          /\ paid'[Len(paid) + 1] = Payment(b)
          /\ \A k \in DOMAIN paid : paid'[k] = paid[k]
      BY <1>t, <3>1, PaidTyped
    <3>3. CASE f.site = s
      <4>1. PaymentsTo(s)' = PaymentsTo(s) \cup {Len(paid) + 1} /\ Len(paid) + 1 \notin PaymentsTo(s)
        BY <3>2, <3>3 DEF PaymentsTo, Payment
      <4>2. IsFiniteSet(PaymentsTo(s))
        BY <1>t, Countable
      <4>3. Cardinality(PaymentsTo(s) \cup {Len(paid) + 1}) = Cardinality(PaymentsTo(s)) + 1
        BY <4>1, <4>2, FS_AddElement
      <4> QED BY <3>3, <4>1, <4>3
    <3>4. CASE f.site # s
      <4>1. PaymentsTo(s)' = PaymentsTo(s)
        BY <3>2, <3>4 DEF PaymentsTo, Payment
      <4> QED BY <4>1
    <3> QED BY <3>3, <3>4
  <2> QED BY <2>1, <2>2
<1>6. P <= faults + restarts + L + (IF HasAccess(s) THEN 1 ELSE 0)
  BY DEF AccessInv, PaidForAccess
<1>7. P1 <= F1 + restarts + L + (IF HasAccess(s)' THEN 1 ELSE 0)
  <2>1. CASE f.site = s
    <3>1. ~HasAccess(s)
      BY <1>t, <2>1 DEF HasAccess, GoesToPay
    <3>2. (HasAccess(s)' /\ F1 = faults) \/ F1 = faults + 1
      BY <1>1, <2>1 DEF HasAccess
    <3>3. P <= faults + restarts + L
      BY <1>3, <1>6, <3>1
    <3> HIDE DEF P, P1, L, F1
    <3>4. P1 \in Nat /\ P1 <= P + 1
      BY <1>3, <1>5
    <3>5. CASE HasAccess(s)' /\ F1 = faults
      <4>1. P1 <= F1 + restarts + L + 1
        BY <1>3, <3>3, <3>4, <3>5
      <4> QED BY <3>5, <4>1
    <3>6. CASE F1 = faults + 1
      <4>1. P1 <= F1 + restarts + L /\ F1 + restarts + L \in Nat
        BY <1>3, <3>3, <3>4, <3>6
      <4> QED BY <3>4, <4>1
    <3> QED BY <3>2, <3>5, <3>6
  <2>2. CASE f.site # s
    <3>1. HasAccess(s) => HasAccess(s)'
      BY <1>t, <1>1, <2>2, Apart DEF Away
    <3>2. F1 \in Nat /\ faults <= F1
      BY <1>1, <1>3
    <3> DEFINE A == IF HasAccess(s) THEN 1 ELSE 0
               A1 == IF HasAccess(s)' THEN 1 ELSE 0
    <3>3. A \in {0, 1} /\ A1 \in {0, 1} /\ A <= A1
      BY <3>1
    <3>4. P <= faults + restarts + L + A
      BY <1>6
    <3> HIDE DEF P, P1, L, F1, A, A1
    <3>5. P1 <= F1 + restarts + L + A1
      BY <1>3, <1>5, <2>2, <3>2, <3>3, <3>4
    <3> QED BY <3>5 DEF A1
  <2> QED BY <2>1, <2>2
<1>8. PaidForAccess(s)' = (P1 <= F1 + restarts + L + (IF HasAccess(s)' THEN 1 ELSE 0))
  BY <1>t, <1>4 DEF PaidForAccess
<1> QED BY <1>2, <1>7, <1>8

\* Every other step.
LEMMA OtherKeeps ==
  ASSUME AccessInv, NEW s \in Honest, Alone(s), [Next]_vars, ~(Pay \/ PayError)
  PROVE  Keeps(s) /\ paid' = paid
<1>1. paid' = paid
  BY DEF Next, Step, vars, Start, Send, SendBare, DropToken, Parse, Gate, Present, PresentError,
         Cache, Record, Restart, Drop, Tick
<1> QED BY <1>1, StartKeeps, AskKeeps, RuleKeeps, BookKeeps, WorldKeeps DEF Next, Step

\* AccessInv is inductive.
LEMMA StepAccessInv == AccessInv /\ [Next]_vars => AccessInv'
<1> SUFFICES ASSUME AccessInv, [Next]_vars PROVE AccessInv'
  OBVIOUS
<1>1. PayClientInv' /\ IssuedForPayment' /\ Grows
  BY StepPayClientInv, IssuedStays, EverythingGrows DEF AccessInv, PayClientInv
<1>2. ASSUME NEW s \in Honest, Alone(s) PROVE CacheBelongs(s)' /\ PaidForAccess(s)'
  <2>1. CASE Pay \/ PayError
    BY <1>1, <1>2, <2>1, PayKeeps
  <2>2. CASE ~(Pay \/ PayError)
    <3>1. Keeps(s) /\ paid' = paid
      BY <1>2, <2>2, OtherKeeps
    <3>2. PaidForAccess(s)'
      BY <1>1, <1>2, <3>1, KeepsAccess DEF Keeps, Grows
    <3> QED BY <3>1, <3>2 DEF Keeps
  <2> QED BY <2>1, <2>2
<1> QED BY <1>1, <1>2 DEF AccessInv, Alone

\* Nothing is paid, cached or issued at first.
LEMMA InitAccessInv == Init => AccessInv
<1> SUFFICES ASSUME Init PROVE AccessInv
  OBVIOUS
<1>1. PayClientInv /\ IssuedForPayment
  BY InitPayClientInv, IdleTyped, FS_EmptySet DEF Init, IssuedForPayment
<1>2. ASSUME NEW s \in Honest PROVE CacheBelongs(s) /\ PaidForAccess(s)
  <2>1. f.phase = "idle" /\ tokens[HostOf[s]] = NoToken
    BY IdleTyped, HostTyped DEF Init
  <2>2. PaymentsTo(s) = {} /\ LapsedAt(s) = {} /\ faults = 0 /\ restarts = 0
    BY DEF Init, PaymentsTo, LapsedAt
  <2>3. Cardinality(PaymentsTo(s)) = 0 /\ Cardinality(LapsedAt(s)) = 0
    BY <2>2, FS_EmptySet
  <2>4. CacheBelongs(s)
    BY <2>1 DEF CacheBelongs, Belongs
  <2> QED BY <2>2, <2>3, <2>4 DEF PaidForAccess
<1> QED BY <1>1, <1>2 DEF AccessInv

-----------------------------------------------------------------------------
(* The theorems *)

(* The invariant of the paying client: whatever the merchants answer and   *)
(* wherever a crash comes, the fetch under way pays what was ruled on and  *)
(* holds the receipt of the last payment until it is booked.               *)
THEOREM PayClientInvariant == Spec => []PayClientInv
<1>1. Init => PayClientInv
  BY InitPayClientInv
<1>2. PayClientInv /\ [Next]_vars => PayClientInv'
  BY StepPayClientInv
<1> QED BY <1>1, <1>2, PTL DEF Spec

(* The state of the client and of the merchants is well typed; a fetch     *)
(* that is under way has a site, and the books name payments that were     *)
(* made.                                                                   *)
THEOREM PayClientTypeOK == Spec => []TypeOK
<1>1. PayClientInv => TypeOK
  BY DEF PayClientInv
<1> QED BY <1>1, PayClientInvariant, PTL

(* payclient: for any challenge of any merchant, both envelopes, truncated *)
(* milli-atoms and wrapped products included, the invoice paid is for less *)
(* than one atom more than the amount that policy and caller ruled on.     *)
THEOREM PaysAsRuled == Spec => []PaidAsRuled
<1>1. PayClientInv => PaidAsRuled
  BY DEF PayClientInv
<1> QED BY <1>1, PayClientInvariant, PTL

(* Service.FetchPaid: a confirmed payment is booked with the amount ruled  *)
(* on, whatever comes of the answer, unless a crash or a store error       *)
(* intervenes.                                                             *)
THEOREM ReceiptsAreKept == Spec => []ReceiptKept
<1>1. PayClientInv => ReceiptKept
  BY DEF PayClientInv
<1> QED BY <1>1, PayClientInvariant, PTL

(* "Cached credentials make repeat access free": however fetches, answers, *)
(* expiry, revocation, errors and restarts interleave, an honest site with *)
(* a host of its own is paid once, and once more for each credential that  *)
(* lapsed, each error and each restart.                                    *)
THEOREM RepeatsAreFree == Spec => []RepeatIsFree
<1>1. Init => AccessInv
  BY InitAccessInv
<1>2. AccessInv /\ [Next]_vars => AccessInv'
  BY StepAccessInv
<1>3. AccessInv => RepeatIsFree
  <2> SUFFICES ASSUME AccessInv, NEW s \in Honest, Alone(s)
               PROVE  Cardinality(PaymentsTo(s)) <=
                        1 + faults + restarts + Cardinality(LapsedAt(s))
    BY DEF RepeatIsFree
  <2> DEFINE P == Cardinality(PaymentsTo(s))
             L == Cardinality(LapsedAt(s))
  <2>1. P \in Nat /\ L \in Nat /\ faults \in Nat /\ restarts \in Nat
    BY Countable DEF AccessInv
  <2>2. P <= faults + restarts + L + (IF HasAccess(s) THEN 1 ELSE 0)
    BY DEF AccessInv, PaidForAccess
  <2> HIDE DEF P, L
  <2>3. P <= 1 + faults + restarts + L
    BY <2>1, <2>2
  <2> QED BY <2>3 DEF P, L
<1> QED BY <1>1, <1>2, <1>3, PTL DEF Spec

=============================================================================
