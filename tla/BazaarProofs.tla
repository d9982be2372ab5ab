---------------------------- MODULE BazaarProofs ----------------------------
(***************************************************************************)
(* Proofs about the facilitator, for any payments, submissions, outputs,   *)
(* configurations and number of connections, faults and restarts.          *)
(***************************************************************************)
EXTENDS Bazaar, SumTheorems, SequenceTheorems

\* The bounds and factors are natural numbers.
LEMMA Numbers ==
  /\ Milli \in Nat \ {0} /\ Wrap \in Nat \ {0}
  /\ Supply \in Nat /\ MaxDepth \in Nat /\ MaxFaults \in Nat
<1>1. {Milli, Wrap} \subseteq Nat \ {0} /\ {Supply, MaxDepth, MaxFaults} \subseteq Nat
  BY BazaarAssumption
<1> QED BY <1>1

-----------------------------------------------------------------------------
(* Adding up outputs *)

\* The loop of lookupDeposit: what it adds up, in order, is the sum.
LEMMA AddUpIsSum ==
  ASSUME NEW t \in Tx, NEW to
  PROVE  AddUp(Outputs[t], to) = AtomsTo(t, to)
<1> DEFINE outs == Outputs[t]
           n == Len(outs)
           T == {i \in DOMAIN outs : outs[i].to = to}
           f == [i \in T |-> outs[i].atoms]
           x(i) == IF outs[i].to = to THEN outs[i].atoms ELSE 0
           h == [i \in 0 .. n |-> SumFunctionOnSet(f, T \cap (1 .. i))]
           sum == CHOOSE g : g = [i \in 0 .. n |-> IF i = 0 THEN 0 ELSE g[i - 1] + x(i)]
<1>1. n \in Nat /\ DOMAIN outs = 1 .. n /\ T \in SUBSET (1 .. n) /\ \A i \in T : f[i] \in Nat
  BY RequestAssumption
<1>2. \A i \in 1 .. n : (IF i \in T THEN f[i] ELSE 0) = x(i)
  BY <1>1
<1>3. h[0] = 0 /\ DOMAIN h = 0 .. n /\ h[n] = SumFunctionOnSet(f, T)
  <2>1. T \cap (1 .. 0) = {} /\ T \cap (1 .. n) = T
    BY <1>1
  <2> HIDE DEF n, T, f
  <2>2. h[0] = SumFunctionOnSet(f, T \cap (1 .. 0)) /\ h[n] = SumFunctionOnSet(f, T \cap (1 .. n))
        /\ DOMAIN h = 0 .. n
    BY <1>1
  <2> HIDE DEF h
  <2> QED BY <2>1, <2>2, SumEmpty, Zenon
<1>4. \A i \in 1 .. n : h[i] = h[i - 1] + x(i)
  <2> TAKE i \in 1 .. n
  <2>1. h[i] = SumFunctionOnSet(f, T \cap (1 .. i)) /\ h[i - 1] = SumFunctionOnSet(f, T \cap (1 .. i - 1))
    BY <1>1
  <2> HIDE DEF n, T, f, h, x
  <2>2. SumFunctionOnSet(f, T \cap (1 .. i)) =
          SumFunctionOnSet(f, T \cap (1 .. i - 1)) + (IF i \in T THEN f[i] ELSE 0)
    <3> DEFINE R == T \cap (1 .. i - 1)
    <3>1. Counts(f, R) /\ i \notin R
      <4>1. IsFiniteSet(1 .. i - 1)
        BY <1>1, FS_Interval
      <4>2. IsFiniteSet(R)
        BY <4>1, FS_Intersection
      <4> QED BY <1>1, <4>2 DEF Counts
    <3>2. CASE i \in T
      <4>1. T \cap (1 .. i) = R \cup {i}
        BY <1>1, <3>2
      <4>2. f[i] \in Nat
        BY <1>1, <3>2
      <4> HIDE DEF R
      <4>3. SumFunctionOnSet(f, R \cup {i}) = SumFunctionOnSet(f, R) + f[i]
        BY <3>1, <4>2, SumAdd
      <4> QED BY <3>2, <4>1, <4>3 DEF R
    <3>3. CASE i \notin T
      <4>1. T \cap (1 .. i) = R
        BY <1>1, <3>3
      <4>2. SumFunctionOnSet(f, R) \in Nat
        BY <3>1, SumNat
      <4>3. SumFunctionOnSet(f, T \cap (1 .. i)) = SumFunctionOnSet(f, R)
        BY <4>1, Zenon
      <4> DEFINE v == SumFunctionOnSet(f, R)
      <4> HIDE DEF R, v
      <4>4. v + 0 = v
        BY <4>2 DEF v
      <4> QED BY <3>3, <4>3, <4>4 DEF v, R
    <3> QED BY <3>2, <3>3
  <2> QED BY <1>2, <2>1, <2>2
<1>5. h = [i \in 0 .. n |-> IF i = 0 THEN 0 ELSE h[i - 1] + x(i)]
  <2>1. h = [i \in 0 .. n |-> h[i]]
    OBVIOUS
  <2>2. \A i \in 0 .. n : h[i] = IF i = 0 THEN 0 ELSE h[i - 1] + x(i)
    <3> HIDE DEF n, h, x
    <3> QED BY <1>1, <1>3, <1>4
  <2> HIDE DEF n, h, x
  <2> QED BY <2>1, <2>2, Zenon
<1>6. sum = [i \in 0 .. n |-> IF i = 0 THEN 0 ELSE sum[i - 1] + x(i)]
  <2> HIDE DEF n, h, x
  <2> QED BY <1>5, Zenon
<1>7. AddUp(Outputs[t], to) = sum[n]
  BY DEF AddUp
<1>8. AtomsTo(t, to) = SumFunctionOnSet(f, T)
  <2>1. DOMAIN f = T
    OBVIOUS
  <2> QED BY <2>1 DEF AtomsTo, SumFunction
<1>9. sum[n] = h[n]
  <2> DEFINE U == {k \in 0 .. n : sum[k] = h[k]}
  <2> HIDE DEF n, sum, h, x
  <2>1. sum[0] = 0 /\ \A i \in 1 .. n : sum[i] = sum[i - 1] + x(i)
    BY <1>1, <1>6
  <2>2. 0 \in U
    BY <1>1, <1>3, <2>1
  <2>3. ASSUME NEW k \in 0 .. n - 1, k \in U PROVE k + 1 \in U
    <3>1. k + 1 \in 1 .. n /\ (k + 1) - 1 = k /\ sum[k] = h[k]
      BY <1>1, <2>3
    <3>2. sum[k + 1] = sum[k] + x(k + 1) /\ h[k + 1] = h[k] + x(k + 1)
      BY <1>4, <2>1, <3>1
    <3> QED BY <1>1, <3>1, <3>2
  <2>4. n \in U
    <3> HIDE DEF U
    <3> QED BY <1>1, <2>2, <2>3, UpTo
  <2> QED BY <2>4
<1> QED BY <1>3, <1>7, <1>8, <1>9

-----------------------------------------------------------------------------
(* The order of the list *)

\* The order of filterResources is a total order.
LEMMA BeforeIsOrder ==
  \A a, b, c \in Entry :
    /\ ~Before(a, a)
    /\ Before(a, b) /\ Before(b, c) => Before(a, c)
    /\ a = b \/ Before(a, b) \/ Before(b, a)
<1> TAKE a, b, c \in Entry
<1>1. /\ a.url \in Nat /\ b.url \in Nat /\ c.url \in Nat
      /\ a.tool \in Nat /\ b.tool \in Nat /\ c.tool \in Nat
  BY RequestAssumption DEF Entry, Tool
<1>2. a.url = b.url /\ a.tool = b.tool => a = b
  BY DEF Entry
<1> QED BY <1>1, <1>2 DEF Before

\* An entry has as many entries before it as its place in the list.
LEMMA RankTyped ==
  ASSUME IsFiniteSet(DOMAIN index), DOMAIN index \subseteq Entry, NEW e \in DOMAIN index
  PROVE  /\ Cardinality(DOMAIN index) \in Nat /\ Rank(e) \in Nat
         /\ Rank(e) < Cardinality(DOMAIN index)
<1> DEFINE B == {x \in DOMAIN index : Before(x, e)}
           D == DOMAIN index
<1>1. B \in SUBSET D /\ e \in D /\ e \notin B
  BY BeforeIsOrder
<1> HIDE DEF B, D
<1>2. /\ IsFiniteSet(D) /\ IsFiniteSet(B)
      /\ Cardinality(B) \in Nat /\ Cardinality(D) \in Nat /\ Cardinality(B) <= Cardinality(D)
      /\ Cardinality(B) = Cardinality(D) => B = D
  BY <1>1, FS_Subset, FS_CardinalityType DEF D
<1>3. Cardinality(B) < Cardinality(D)
  BY <1>1, <1>2
<1> QED BY <1>2, <1>3 DEF Rank, B, D

LEMMA RankInjective ==
  ASSUME IsFiniteSet(DOMAIN index), DOMAIN index \subseteq Entry,
         NEW a \in DOMAIN index, NEW b \in DOMAIN index, Rank(a) = Rank(b)
  PROVE  a = b
<1>1. ASSUME NEW x \in DOMAIN index, NEW y \in DOMAIN index, Before(x, y) PROVE Rank(x) # Rank(y)
  <2> DEFINE X == {z \in DOMAIN index : Before(z, x)}
             Y == {z \in DOMAIN index : Before(z, y)}
  <2>1. X \in SUBSET Y /\ Y \in SUBSET DOMAIN index /\ x \in Y /\ x \notin X
    BY <1>1, BeforeIsOrder
  <2> HIDE DEF X, Y
  <2>2. IsFiniteSet(Y)
    BY <2>1, FS_Subset
  <2>3. Cardinality(X) # Cardinality(Y)
    BY <2>1, <2>2, FS_Subset
  <2> QED BY <2>3 DEF Rank, X, Y
<1> QED BY <1>1, BeforeIsOrder

\* The list: every entry once, in its place.
LEMMA ListInOrder ==
  ASSUME IsFiniteSet(DOMAIN index), DOMAIN index \subseteq Entry
  PROVE  /\ filterResources \in Seq(DOMAIN index)
         /\ Len(filterResources) = Cardinality(DOMAIN index)
         /\ \A i \in 1 .. Cardinality(DOMAIN index) : filterResources[i] \in DOMAIN index
         /\ \A e \in DOMAIN index : filterResources[Rank(e) + 1] = e
<1> DEFINE D == DOMAIN index
           n == Cardinality(D)
           r == [e \in D |-> Rank(e)]
<1>1. n \in Nat
  BY FS_CardinalityType
<1>2. r \in Injection(D, 0 .. n - 1)
  <2>1. \A e \in D : Rank(e) \in 0 .. n - 1
    <3> TAKE e \in D
    <3>1. Rank(e) \in Nat /\ Rank(e) < n
      BY RankTyped
    <3> HIDE DEF n
    <3> QED BY <1>1, <3>1
  <2>2. \A x, y \in D : Rank(x) = Rank(y) => x = y
    BY RankInjective
  <2> HIDE DEF D, n
  <2> QED BY <2>1, <2>2 DEF Injection, IsInjective
<1>3. r \in Surjection(D, 0 .. n - 1)
  <2>1. IsFiniteSet(0 .. n - 1) /\ Cardinality(0 .. n - 1) = n
    <3> HIDE DEF n
    <3>1. IsFiniteSet(0 .. n - 1) /\ Cardinality(0 .. n - 1) = IF 0 > n - 1 THEN 0 ELSE (n - 1) - 0 + 1
      BY <1>1, FS_Interval
    <3> QED BY <1>1, <3>1
  <2> HIDE DEF r, D
  <2> QED BY <1>2, <2>1, FS_Injection
<1>4. ASSUME NEW i \in 1 .. n
      PROVE  filterResources[i] \in D /\ Rank(filterResources[i]) = i - 1
  <2>1. \E e \in D : Rank(e) = i - 1
    <3>1. i - 1 \in 0 .. n - 1
      <4> HIDE DEF n
      <4> QED BY <1>1
    <3> HIDE DEF n
    <3> QED BY <1>3, <3>1 DEF Surjection
  <2>2. filterResources[i] = CHOOSE e \in D : Rank(e) = i - 1
    BY DEF filterResources
  <2> QED BY <2>1, <2>2
<1>5. filterResources \in Seq(D) /\ Len(filterResources) = n
  <2>1. filterResources \in [1 .. n -> D]
    BY <1>4 DEF filterResources
  <2> HIDE DEF n, D
  <2> QED BY <1>1, <2>1
<1>6. ASSUME NEW e \in D PROVE filterResources[Rank(e) + 1] = e
  <2>1. Rank(e) + 1 \in 1 .. n /\ (Rank(e) + 1) - 1 = Rank(e)
    <3>1. Rank(e) \in Nat /\ Rank(e) < n
      BY RankTyped
    <3> HIDE DEF n
    <3> QED BY <1>1, <3>1
  <2> QED BY <1>4, <2>1, RankInjective
<1> QED BY <1>4, <1>5, <1>6

\* A page holds what is ranked from the offset to the end of the page.
LEMMA PageInOrder ==
  ASSUME IsFiniteSet(DOMAIN index), DOMAIN index \subseteq Entry,
         NEW o \in 0 .. Cardinality(DOMAIN index), NEW l \in Nat \ {0}
  PROVE  LET n == Cardinality(DOMAIN index)
             page == paginate(filterResources, o, l)
             next == o + Len(page)
         IN  /\ next \in 0 .. n /\ (page = <<>> => next = n)
             /\ Range(page) \subseteq DOMAIN index
             /\ \A e \in DOMAIN index : Rank(e) >= o /\ Rank(e) < next => e \in Range(page)
<1> DEFINE D == DOMAIN index
           n == Cardinality(D)
           rs == filterResources
           last == IF o + l < n THEN o + l ELSE n
           page == SubSeq(rs, o + 1, last)
<1>1. n \in Nat /\ o \in 0 .. n
  BY FS_CardinalityType
<1>2. Len(rs) = n /\ (\A i \in 1 .. n : rs[i] \in D) /\ \A e \in D : rs[Rank(e) + 1] = e
  BY ListInOrder
<1>3. paginate(filterResources, o, l) = page
  BY <1>2 DEF paginate
<1>r. \A e \in D : Rank(e) \in Nat
  BY RankTyped
<1> HIDE DEF D, n, rs
<1>4. last \in 0 .. n /\ o <= last /\ (o < n => o < last)
  BY <1>1
<1> HIDE DEF last
<1>5. \A i \in (o + 1) .. last : rs[i] \in D
  BY <1>1, <1>2, <1>4
<1>6. /\ page \in Seq(D)
      /\ Len(page) = IF o + 1 <= last THEN last - (o + 1) + 1 ELSE 0
      /\ \A i \in 1 .. last - (o + 1) + 1 : page[i] = rs[(o + 1) + i - 1]
  <2>1. o + 1 \in Int /\ last \in Int
    BY <1>1, <1>4
  <2> QED BY <1>5, <2>1, SubSeqProperties
<1> HIDE DEF page
<1>7. Len(page) = last - o
  BY <1>1, <1>4, <1>6
<1>8. o + Len(page) = last
  BY <1>1, <1>4, <1>7
<1>9. page = <<>> => last = n
  <2>1. page = <<>> => Len(page) = 0
    OBVIOUS
  <2> QED BY <1>1, <1>4, <1>7, <2>1
<1>10. Range(page) \subseteq D
  BY <1>6 DEF Range
<1>11. ASSUME NEW e \in D, Rank(e) >= o, Rank(e) < last PROVE e \in Range(page)
  <2> DEFINE i == Rank(e) - o + 1
  <2>1. i \in 1 .. Len(page) /\ i \in 1 .. last - (o + 1) + 1 /\ (o + 1) + i - 1 = Rank(e) + 1
    BY <1>1, <1>r, <1>4, <1>7, <1>11
  <2> HIDE DEF i
  <2>2. page[i] = e
    BY <1>2, <1>6, <2>1
  <2>3. i \in DOMAIN page
    BY <1>6, <2>1
  <2> QED BY <2>2, <2>3 DEF Range
<1>12. /\ o + Len(page) \in 0 .. n /\ (page = <<>> => o + Len(page) = n)
       /\ \A e \in D : Rank(e) >= o /\ Rank(e) < o + Len(page) => e \in Range(page)
  BY <1>4, <1>8, <1>9, <1>11
<1> QED BY <1>3, <1>10, <1>12 DEF D, n

-----------------------------------------------------------------------------
(* Types *)

USE BazaarAssumption, RequestAssumption, Numbers

\* The handlers, the table of settlements and the world, well typed.
ConnOK ==
  /\ cfg \in Configs
  /\ settlements \in [Key -> Payment \cup {None}]
  /\ depth \in [Tx -> -1 .. MaxDepth]
  /\ expired \subseteq Payment
  /\ phase \in [Conn -> Phase]
  /\ req \in [Conn -> Payment \cup Submission \cup {None}]
  /\ resp \in [Conn -> Payment \cup {None}]
  /\ known \in [Conn -> BOOLEAN]
  /\ told \in [Key -> SUBSET Response]
  /\ faults \in 0 .. MaxFaults

\* The index and its reader, well typed.
IndexOK ==
  /\ IsFiniteSet(DOMAIN index)
  /\ DOMAIN index \subseteq Entry /\ index \in [DOMAIN index -> {"http", "mcp"}]
  /\ harvested \subseteq DOMAIN index
  /\ walk \in [at: {"start", "page", "end"},
               offset: 0 .. Cardinality(DOMAIN index), limit: 1 .. cfg.maxPage,
               must: SUBSET DOMAIN index, got: SUBSET DOMAIN index]

LEMMA StateSplit == StateInv <=> ConnOK /\ Serving /\ IndexOK
  BY DEF StateInv, TypeOK, ConnOK, IndexOK

\* The configuration in force.
LEMMA ConfigTyped ==
  ASSUME ConnOK
  PROVE  cfg.maxPage \in Nat \ {0} /\ cfg.maxResources \in Nat /\ cfg.minConfs \in Int
  BY DEF ConnOK, ConfigRec

LEMMA KeyTyped == \A p \in Payment : p.id \in Key
  BY DEF Key

\* Phases in which a payment is served, and a submission.
Paid == {"verify", "valid", "lookup", "check", "notarize", "harvest", "reply"}
Submitted == {"full", "put"}

\* The handler of one connection moves on.
LEMMA ConnMoves ==
  ASSUME ConnOK, Serving, NEW c \in Conn, NEW p \in Phase,
         phase' = [phase EXCEPT ![c] = p],
         NEW r \in Payment \cup Submission \cup {None},
         (req' = req /\ r = req[c]) \/ req' = [req EXCEPT ![c] = r],
         p \in Paid => r \in Payment,
         p \in Submitted => r \in Submission /\ toResource(r)
  PROVE  /\ phase' \in [Conn -> Phase]
         /\ req' \in [Conn -> Payment \cup Submission \cup {None}]
         /\ Serving'
<1>1. phase' \in [Conn -> Phase] /\ req' \in [Conn -> Payment \cup Submission \cup {None}]
  BY DEF ConnOK
<1>2. /\ phase'[c] = p /\ req'[c] = r
      /\ \A d \in Conn \ {c} : phase'[d] = phase[d] /\ req'[d] = req[d]
  BY DEF ConnOK
<1>3. Serving'
  <2> SUFFICES ASSUME NEW d \in Conn
               PROVE  /\ phase'[d] \in Paid => req'[d] \in Payment
                      /\ phase'[d] \in Submitted => req'[d] \in Submission /\ toResource(req'[d])
    BY DEF Serving, Paid, Submitted, toResource, SubmitType, SubmitEntry
  <2>1. CASE d = c
    BY <1>2, <2>1
  <2>2. CASE d # c
    BY <1>2, <2>2 DEF Serving, Paid, Submitted
  <2> QED BY <2>1, <2>2
<1> QED BY <1>1, <1>3

\* A call that fails, or none.
LEMMA FaultTyped ==
  ASSUME ConnOK, NEW c \in Conn, Fault(c) \/ NoFault
  PROVE  /\ faults' \in 0 .. MaxFaults /\ known' \in [Conn -> BOOLEAN]
         /\ faults <= faults'
<1>1. known' \in [Conn -> BOOLEAN]
  BY DEF ConnOK, Fault, NoFault
<1>2. faults \in 0 .. MaxFaults /\ (faults' = faults \/ (faults < MaxFaults /\ faults' = faults + 1))
  BY DEF ConnOK, Fault, NoFault
<1> QED BY <1>1, <1>2

\* What a handler is at.
LEMMA AtWork ==
  ASSUME ConnOK, Serving, NEW c \in Conn
  PROVE  /\ phase[c] \in Paid => req[c] \in Payment /\ req[c].id \in Key
         /\ phase[c] \in Submitted => req[c] \in Submission /\ toResource(req[c])
         /\ req[c] \in Payment \cup Submission \cup {None}
  BY KeyTyped DEF Serving, ConnOK, Paid, Submitted

\* A request comes in.
LEMMA ArriveStays ==
  ASSUME ConnOK, Serving, NEW c \in Conn,
         \/ \E p \in Payment : HandleVerify(c, p) \/ HandleSettle(c, p)
         \/ \E s \in Submission : HandleSubmit(c, s)
  PROVE  ConnOK' /\ Serving'
<1> USE DEF world, Arrive, Goto
<1>1. ASSUME NEW p \in Payment, HandleVerify(c, p) \/ HandleSettle(c, p) PROVE ConnOK' /\ Serving'
  <2>1. \E q \in {"verify", "lookup"} :
          phase' = [phase EXCEPT ![c] = q] /\ req' = [req EXCEPT ![c] = p]
    BY <1>1 DEF HandleVerify, HandleSettle
  <2>2. /\ phase' \in [Conn -> Phase] /\ Serving'
        /\ req' \in [Conn -> Payment \cup Submission \cup {None}]
    BY <2>1, ConnMoves DEF Phase, Paid, Submitted
  <2>3. known' \in [Conn -> BOOLEAN]
    BY <1>1 DEF HandleVerify, HandleSettle, ConnOK
  <2>4. UNCHANGED <<cfg, settlements, depth, expired, resp, told, faults>>
    BY <1>1 DEF HandleVerify, HandleSettle
  <2> QED BY <2>2, <2>3, <2>4 DEF ConnOK
<1>2. ASSUME NEW s \in Submission, HandleSubmit(c, s) PROVE ConnOK' /\ Serving'
  <2>1. /\ phase' = [phase EXCEPT ![c] = "full"] /\ req' = [req EXCEPT ![c] = s] /\ toResource(s)
        /\ UNCHANGED <<cfg, settlements, depth, expired, resp, told, known, faults>>
    BY <1>2 DEF HandleSubmit
  <2>2. /\ phase' \in [Conn -> Phase] /\ Serving'
        /\ req' \in [Conn -> Payment \cup Submission \cup {None}]
    BY <2>1, ConnMoves DEF Phase, Paid, Submitted
  <2> QED BY <2>1, <2>2 DEF ConnOK
<1> QED BY <1>1, <1>2

\* A handler takes its next step.
LEMMA HandleStays ==
  ASSUME ConnOK, Serving, NEW c \in Conn, Handle(c)
  PROVE  ConnOK' /\ Serving'
<1> USE DEF world, Goto, Freed
<1>w. req[c] \in Payment \cup Submission \cup {None}
  BY AtWork
<1>1. CASE Verify(c) \/ Vouch(c) \/ CheckFull(c) \/ Put(c)
  <2>1. /\ \/ phase[c] = "verify" /\ phase' = [phase EXCEPT ![c] = "valid"] /\ req' = req
           \/ phase[c] = "full" /\ phase' = [phase EXCEPT ![c] = "put"] /\ req' = req
           \/ phase' = [phase EXCEPT ![c] = "idle"] /\ req' = [req EXCEPT ![c] = None]
        /\ UNCHANGED <<cfg, settlements, depth, expired, resp, told>>
        /\ Fault(c) \/ NoFault
    BY <1>1 DEF Verify, Vouch, CheckFull, Put, NoFault
  <2>2. /\ phase' \in [Conn -> Phase] /\ Serving'
        /\ req' \in [Conn -> Payment \cup Submission \cup {None}]
    BY <1>w, <2>1, AtWork, ConnMoves DEF Phase, Paid, Submitted
  <2>3. faults' \in 0 .. MaxFaults /\ known' \in [Conn -> BOOLEAN]
    BY <2>1, FaultTyped
  <2> QED BY <2>1, <2>2, <2>3 DEF ConnOK
<1>2. CASE Lookup(c) \/ Check(c) \/ Notarize(c) \/ Harvest(c)
  <2>1. phase[c] \in {"lookup", "check", "notarize", "harvest"} /\ req[c] \in Payment /\ req[c].id \in Key
    BY <1>2, AtWork DEF Lookup, Check, Notarize, Harvest, Paid
  <2>2. /\ \E q \in {"check", "notarize", "harvest", "reply"} : phase' = [phase EXCEPT ![c] = q]
        /\ UNCHANGED <<cfg, depth, expired, req, told>>
        /\ Fault(c) \/ NoFault
    BY <1>2 DEF Lookup, Check, Notarize, Harvest
  <2>3. /\ phase' \in [Conn -> Phase] /\ Serving'
        /\ req' \in [Conn -> Payment \cup Submission \cup {None}]
    BY <1>w, <2>1, <2>2, ConnMoves DEF Phase, Paid, Submitted
  <2>4. faults' \in 0 .. MaxFaults /\ known' \in [Conn -> BOOLEAN]
    BY <2>2, FaultTyped
  <2>5. Settle(req[c]) \in Payment /\ settlements[req[c].id] \in Payment \cup {None}
    BY <2>1 DEF Settle, ConnOK
  <2>6. settlements' \in [Key -> Payment \cup {None}]
    BY <1>2, <2>1, <2>5 DEF Lookup, Check, Notarize, Harvest, ConnOK
  <2>7. resp' \in [Conn -> Payment \cup {None}]
    <3>1. \/ resp' = resp
          \/ resp' = [resp EXCEPT ![c] = settlements[req[c].id]]
          \/ resp' = [resp EXCEPT ![c] = Settle(req[c])]
      BY SMTT(30), <1>2 DEF Lookup, Check, Notarize, Harvest
    <3> QED BY <2>5, <3>1 DEF ConnOK
  <2> QED BY <2>2, <2>3, <2>4, <2>6, <2>7 DEF ConnOK
<1>3. CASE Reply(c)
  <2>1. /\ phase[c] = "reply" /\ phase' = [phase EXCEPT ![c] = "idle"] /\ req' = [req EXCEPT ![c] = None]
        /\ UNCHANGED <<cfg, settlements, depth, expired, faults>>
    BY <1>3 DEF Reply
  <2>2. /\ phase' \in [Conn -> Phase] /\ Serving'
        /\ req' \in [Conn -> Payment \cup Submission \cup {None}]
    BY <2>1, ConnMoves DEF Phase, Paid, Submitted
  <2>3. known' \in [Conn -> BOOLEAN]
    BY <1>3 DEF Reply, ConnOK
  <2>4. resp' \in [Conn -> Payment \cup {None}] /\ resp[c] \in Payment \cup {None}
    BY <1>3 DEF Reply, ConnOK
  <2>5. told' \in [Key -> SUBSET Response]
    <3>1. CASE resp[c] = None
      BY <1>3, <3>1 DEF Reply, ConnOK
    <3>2. CASE resp[c] # None
      <4>1. Answer(resp[c]) \in Response
        BY <2>4, <3>2 DEF Response, Answer
      <4>2. req[c].id \in Key /\ told' = [told EXCEPT ![req[c].id] = @ \cup {Answer(resp[c])}]
        BY <1>3, <2>1, <3>2, AtWork DEF Reply, Answer, Paid
      <4> QED BY <4>1, <4>2 DEF ConnOK
    <3> QED BY <3>1, <3>2
  <2> QED BY <2>1, <2>2, <2>3, <2>4, <2>5 DEF ConnOK
<1> QED BY <1>1, <1>2, <1>3 DEF Handle

\* The world, a restart, and the reader.
LEMMA WorldStays ==
  ASSUME ConnOK, Serving,
         \/ \E limit \in 0 .. cfg.maxPage + 1 : StartWalk(limit)
         \/ NextPage \/ (\E t \in Tx : Deepen(t)) \/ (\E p \in Payment : Expire(p))
         \/ Restart \/ UNCHANGED vars
  PROVE  ConnOK' /\ Serving'
<1> USE DEF world, conns
<1>1. CASE Restart
  <2>1. /\ phase' = [c \in Conn |-> "idle"] /\ req' = [c \in Conn |-> None]
        /\ resp' = [c \in Conn |-> None] /\ faults < MaxFaults /\ faults' = faults + 1
        /\ UNCHANGED <<cfg, settlements, depth, expired, told>>
    BY <1>1 DEF Restart
  <2>2. known' \in [Conn -> BOOLEAN]
    BY <1>1 DEF Restart
  <2>3. Serving'
    BY <2>1 DEF Serving
  <2>4. faults' \in 0 .. MaxFaults
    BY <2>1 DEF ConnOK
  <2> QED BY <2>1, <2>2, <2>3, <2>4 DEF ConnOK, Phase
<1>2. CASE ~Restart
  <2>1. UNCHANGED <<cfg, settlements, phase, req, resp, known, told, faults>>
    BY <1>2 DEF StartWalk, NextPage, Deepen, Expire, vars
  <2>2. depth' \in [Tx -> -1 .. MaxDepth]
    <3>1. CASE \E t \in Tx : Deepen(t)
      <4>1. PICK t \in Tx : depth[t] < MaxDepth /\ depth' = [depth EXCEPT ![t] = @ + 1]
        BY <3>1 DEF Deepen
      <4>2. depth[t] + 1 \in -1 .. MaxDepth
        BY <4>1 DEF ConnOK
      <4> QED BY <4>1, <4>2 DEF ConnOK
    <3>2. CASE ~ \E t \in Tx : Deepen(t)
      BY <1>2, <3>2 DEF StartWalk, NextPage, Expire, vars, ConnOK
    <3> QED BY <3>1, <3>2
  <2>3. expired' \subseteq Payment
    BY <1>2 DEF StartWalk, NextPage, Deepen, Expire, vars, ConnOK
  <2>4. Serving'
    BY <2>1 DEF Serving, toResource, SubmitType, SubmitEntry
  <2> QED BY <2>1, <2>2, <2>3, <2>4 DEF ConnOK
<1> QED BY <1>1, <1>2

LEMMA ConnStays ==
  ASSUME ConnOK, Serving, [Next]_vars
  PROVE  ConnOK' /\ Serving'
  BY ArriveStays, HandleStays, WorldStays DEF Next

\* PutResource adds the entry, if it is new.
LEMMA PutTyped ==
  ASSUME IsFiniteSet(DOMAIN index), DOMAIN index \subseteq Entry,
         index \in [DOMAIN index -> {"http", "mcp"}],
         NEW e \in Entry, NEW type \in {"http", "mcp"}, PutResource(e, type)
  PROVE  /\ DOMAIN index' = DOMAIN index \cup {e}
         /\ index' \in [DOMAIN index' -> {"http", "mcp"}]
         /\ IsFiniteSet(DOMAIN index')
<1>1. DOMAIN index' = DOMAIN index \cup {e} /\ index' \in [DOMAIN index' -> {"http", "mcp"}]
  BY DEF PutResource
<1> QED BY <1>1, FS_AddElement

\* What a submission and a settled payment put into the index.
LEMMA SubmitTyped ==
  ASSUME NEW s \in Submission, toResource(s)
  PROVE  SubmitEntry(s) \in Entry /\ SubmitType(s) \in {"http", "mcp"}
<1>1. s.url \in Url /\ (s.ext # None => s.ext.tool \in Nat)
  BY DEF Ext, Tool
<1> QED BY <1>1 DEF toResource, SubmitEntry, Entry, Tool

LEMMA HarvestTyped ==
  ASSUME NEW p \in Payment, Harvestable(p)
  PROVE  HarvestEntry(p) \in Entry /\ p.ext.type \in {"http", "mcp"}
<1>1. p.url \in Url /\ p.ext.tool \in Nat
  BY DEF Harvestable, Ext, Tool
<1> QED BY <1>1 DEF Harvestable, HarvestEntry, Entry, Tool

\* How the index grows: by a submission, by a settled payment, or not.
IndexGrows(c) ==
  \/ /\ phase[c] = "put" /\ SubmitEntry(req[c]) \in Entry
     /\ DOMAIN index' = DOMAIN index \cup {SubmitEntry(req[c])} /\ harvested' = harvested
     /\ phase'[c] = "idle" /\ faults' = faults
  \/ /\ phase[c] = "harvest" /\ HarvestEntry(req[c]) \in Entry
     /\ DOMAIN index' = DOMAIN index \cup {HarvestEntry(req[c])}
     /\ harvested' = harvested \cup ({HarvestEntry(req[c])} \ DOMAIN index)
     /\ phase'[c] = "reply" /\ faults' = faults

LEMMA IndexStep ==
  ASSUME ConnOK, Serving, IndexOK, [Next]_vars
  PROVE  /\ \/ UNCHANGED <<index, harvested>>
            \/ \E c \in Conn : /\ Put(c) \/ Harvest(c)
                               /\ IndexGrows(c) /\ walk' = walk
         /\ IsFiniteSet(DOMAIN index') /\ DOMAIN index' \subseteq Entry
         /\ index' \in [DOMAIN index' -> {"http", "mcp"}]
<1> USE DEF world, conns
<1>i. /\ IsFiniteSet(DOMAIN index) /\ DOMAIN index \subseteq Entry
      /\ index \in [DOMAIN index -> {"http", "mcp"}]
  BY DEF IndexOK
<1>p. phase \in [Conn -> Phase]
  BY DEF ConnOK
<1>1. CASE UNCHANGED <<index, harvested>>
  BY <1>i, <1>1
<1>2. ASSUME NEW c \in Conn, Put(c), ~UNCHANGED <<index, harvested>>
      PROVE  /\ IndexGrows(c) /\ walk' = walk
             /\ IsFiniteSet(DOMAIN index') /\ DOMAIN index' \subseteq Entry
             /\ index' \in [DOMAIN index' -> {"http", "mcp"}]
  <2>1. /\ phase[c] = "put" /\ PutResource(SubmitEntry(req[c]), SubmitType(req[c]))
        /\ harvested' = harvested /\ faults' = faults /\ walk' = walk
        /\ phase' = [phase EXCEPT ![c] = "idle"]
    BY <1>2 DEF Put, Freed, Goto, NoFault
  <2>2. SubmitEntry(req[c]) \in Entry /\ SubmitType(req[c]) \in {"http", "mcp"}
    BY <2>1, AtWork, SubmitTyped DEF Submitted
  <2>3. /\ DOMAIN index' = DOMAIN index \cup {SubmitEntry(req[c])} /\ IsFiniteSet(DOMAIN index')
        /\ index' \in [DOMAIN index' -> {"http", "mcp"}]
    BY <1>i, <2>1, <2>2, PutTyped
  <2> QED BY <1>i, <1>p, <2>1, <2>2, <2>3 DEF IndexGrows
<1>3. ASSUME NEW c \in Conn, Harvest(c), ~UNCHANGED <<index, harvested>>
      PROVE  /\ IndexGrows(c) /\ walk' = walk
             /\ IsFiniteSet(DOMAIN index') /\ DOMAIN index' \subseteq Entry
             /\ index' \in [DOMAIN index' -> {"http", "mcp"}]
  <2>1. /\ phase[c] = "harvest" /\ Harvestable(req[c])
        /\ PutResource(HarvestEntry(req[c]), req[c].ext.type)
        /\ harvested' = harvested \cup ({HarvestEntry(req[c])} \ DOMAIN index)
        /\ faults' = faults /\ walk' = walk /\ phase' = [phase EXCEPT ![c] = "reply"]
    BY <1>3 DEF Harvest, Goto, NoFault
  <2>2. HarvestEntry(req[c]) \in Entry /\ req[c].ext.type \in {"http", "mcp"}
    BY <2>1, AtWork, HarvestTyped DEF Paid
  <2>3. /\ DOMAIN index' = DOMAIN index \cup {HarvestEntry(req[c])} /\ IsFiniteSet(DOMAIN index')
        /\ index' \in [DOMAIN index' -> {"http", "mcp"}]
    BY <1>i, <2>1, <2>2, PutTyped
  <2> QED BY <1>i, <1>p, <2>1, <2>2, <2>3 DEF IndexGrows
<1>4. UNCHANGED <<index, harvested>> \/ \E c \in Conn : Put(c) \/ Harvest(c)
  BY DEF Next, Handle, vars, Verify, Vouch, Lookup, Check, Notarize, Reply, CheckFull,
         HandleVerify, HandleSettle, HandleSubmit, StartWalk, NextPage, Deepen, Expire, Restart
<1> QED BY <1>1, <1>2, <1>3, <1>4

\* A larger index has more entries before any entry.
LEMMA RankGrows ==
  ASSUME IsFiniteSet(DOMAIN index), IsFiniteSet(DOMAIN index'), DOMAIN index \subseteq DOMAIN index'
  PROVE  /\ Cardinality(DOMAIN index) \in Nat /\ Cardinality(DOMAIN index') \in Nat
         /\ Cardinality(DOMAIN index) <= Cardinality(DOMAIN index')
         /\ \A e : Rank(e) \in Nat /\ Rank(e)' \in Nat /\ Rank(e) <= Rank(e)'
<1>1. /\ Cardinality(DOMAIN index) \in Nat /\ Cardinality(DOMAIN index') \in Nat
      /\ Cardinality(DOMAIN index) <= Cardinality(DOMAIN index')
  BY FS_Subset, FS_CardinalityType
<1>2. ASSUME NEW e PROVE Rank(e) \in Nat /\ Rank(e)' \in Nat /\ Rank(e) <= Rank(e)'
  <2> DEFINE A == {x \in DOMAIN index : Before(x, e)}
             B == {x \in DOMAIN index' : Before(x, e)}
  <2>1. A \in SUBSET B /\ B \in SUBSET DOMAIN index'
    OBVIOUS
  <2> HIDE DEF A, B
  <2>2. IsFiniteSet(B)
    BY <2>1, FS_Subset
  <2>3. Cardinality(A) \in Nat /\ Cardinality(B) \in Nat /\ Cardinality(A) <= Cardinality(B)
    BY <2>1, <2>2, FS_Subset, FS_CardinalityType
  <2>4. Rank(e)' = Cardinality(B)
    BY DEF Rank, B, Before
  <2> QED BY <2>3, <2>4 DEF Rank, A
<1> QED BY <1>1, <1>2

\* A walk over an index with n entries, in pages of at most m.
WalkRec(n, m, D) == [at: {"start", "page", "end"}, offset: 0 .. n, limit: 1 .. m,
                     must: SUBSET D, got: SUBSET D]

\* One page more: nothing that is due lies behind the reader.
LEMMA PageStep ==
  ASSUME IsFiniteSet(DOMAIN index), DOMAIN index \subseteq Entry, NEW m \in Nat,
         NEW w \in WalkRec(Cardinality(DOMAIN index), m, DOMAIN index),
         \A e \in w.must \ w.got : Rank(e) >= w.offset,
         ListPage(w), index' = index
  PROVE  /\ walk' \in WalkRec(Cardinality(DOMAIN index), m, DOMAIN index)
         /\ WalkAhead'
<1> DEFINE D == DOMAIN index
           n == Cardinality(D)
           page == paginate(filterResources, w.offset, w.limit)
           next == w.offset + Len(page)
<1>1. /\ w.at \in {"start", "page", "end"} /\ w.offset \in 0 .. n /\ w.limit \in 1 .. m
      /\ w.must \subseteq D /\ w.got \subseteq D
      /\ w = [at |-> w.at, offset |-> w.offset, limit |-> w.limit, must |-> w.must, got |-> w.got]
  BY DEF WalkRec
<1>2. n \in Nat /\ Len(filterResources) = n
  BY FS_CardinalityType, ListInOrder
<1>3. /\ next \in 0 .. n /\ (page = <<>> => next = n)
      /\ Range(page) \subseteq D
      /\ \A e \in D : Rank(e) >= w.offset /\ Rank(e) < next => e \in Range(page)
  <2>1. w.limit \in Nat \ {0}
    BY <1>1
  <2> QED BY <1>1, <2>1, PageInOrder
<1>4. \A e \in D : Rank(e) \in Nat /\ Rank(e) < n
  BY RankTyped
<1> DEFINE at1 == IF page # <<>> /\ next < n THEN "page" ELSE "end"
<1>5. walk' = [w EXCEPT !.offset = next, !.got = @ \cup Range(page), !.at = at1]
  BY <1>2 DEF ListPage
<1> HIDE DEF page, next
<1>6. /\ walk'.at = at1 /\ walk'.offset = next /\ walk'.limit = w.limit
      /\ walk'.must = w.must /\ walk'.got = w.got \cup Range(page)
      /\ walk' = [at |-> at1, offset |-> next, limit |-> w.limit, must |-> w.must,
                  got |-> w.got \cup Range(page)]
  BY <1>1, <1>5
<1>7. walk' \in WalkRec(n, m, D)
  BY <1>1, <1>3, <1>6 DEF WalkRec
<1>8. \A e \in w.must \ (w.got \cup Range(page)) : Rank(e) >= next
  <2> SUFFICES ASSUME NEW e \in w.must \ (w.got \cup Range(page)), ~(Rank(e) >= next) PROVE FALSE
    OBVIOUS
  <2>1. e \in D /\ Rank(e) \in Nat /\ Rank(e) >= w.offset
    BY <1>1, <1>4
  <2>2. Rank(e) < next
    BY <1>2, <1>3, <2>1
  <2> QED BY <1>3, <2>1, <2>2
<1>9. at1 = "end" => w.must \subseteq w.got \cup Range(page)
  <2> SUFFICES ASSUME at1 = "end", NEW e \in w.must, e \notin w.got \cup Range(page) PROVE FALSE
    OBVIOUS
  <2>1. next = n
    BY <1>2, <1>3
  <2>2. Rank(e) >= next /\ Rank(e) \in Nat /\ Rank(e) < n
    BY <1>1, <1>4, <1>8
  <2> QED BY <1>2, <2>1, <2>2
<1>10. \A e : Rank(e)' = Rank(e)
  BY DEF Rank, Before
<1>11. WalkAhead'
  <2>1. \A e \in walk'.must \ walk'.got : Rank(e)' >= walk'.offset
    BY <1>6, <1>8, <1>10
  <2> QED BY <1>6, <1>9, <2>1 DEF WalkAhead, WalkMissesNothing
<1> QED BY <1>7, <1>11 DEF n, D

\* The index and the walk stay well typed, and the walk misses nothing.
LEMMA IndexStays ==
  ASSUME ConnOK, Serving, IndexOK, WalkAhead, [Next]_vars
  PROVE  IndexOK' /\ WalkAhead'
<1> DEFINE D == DOMAIN index
<1>i. /\ IsFiniteSet(D) /\ D \subseteq Entry /\ harvested \subseteq D
      /\ walk \in WalkRec(Cardinality(D), cfg.maxPage, D)
      /\ cfg.maxPage \in Nat \ {0}
  BY ConfigTyped DEF IndexOK, WalkRec
<1>c. cfg' = cfg
  BY DEF Next, Handle, vars, Verify, Vouch, Lookup, Check, Notarize, Harvest, Reply, CheckFull, Put,
         HandleVerify, HandleSettle, HandleSubmit, StartWalk, NextPage, Deepen, Expire, Restart
<1>d. /\ IsFiniteSet(DOMAIN index') /\ DOMAIN index' \subseteq Entry
      /\ index' \in [DOMAIN index' -> {"http", "mcp"}]
      /\ D \subseteq DOMAIN index' /\ harvested' \subseteq DOMAIN index'
  BY <1>i, IndexStep DEF IndexGrows
<1>1. CASE walk' = walk
  <2>1. /\ Cardinality(D) \in Nat /\ Cardinality(DOMAIN index') \in Nat
        /\ Cardinality(D) <= Cardinality(DOMAIN index')
        /\ \A e : Rank(e) \in Nat /\ Rank(e)' \in Nat /\ Rank(e) <= Rank(e)'
    BY <1>i, <1>d, RankGrows
  <2>2. walk' \in WalkRec(Cardinality(DOMAIN index'), cfg.maxPage, DOMAIN index')
    <3> DEFINE n == Cardinality(D)
               n1 == Cardinality(DOMAIN index')
    <3> HIDE DEF n, n1
    <3>1. 0 .. n \subseteq 0 .. n1
      BY <2>1 DEF n, n1
    <3>2. walk \in WalkRec(n, cfg.maxPage, D)
      BY <1>i DEF n
    <3>3. walk \in WalkRec(n1, cfg.maxPage, DOMAIN index')
      BY <1>d, <3>1, <3>2 DEF WalkRec
    <3> QED BY <1>1, <3>3 DEF n1
  <2>3. walk.offset \in Int
    BY <1>i, <2>1 DEF WalkRec
  <2>4. WalkAhead'
    <3>1. ASSUME walk.at = "page", NEW e \in walk.must \ walk.got PROVE Rank(e)' >= walk.offset
      <4>1. Rank(e) >= walk.offset
        BY <3>1 DEF WalkAhead
      <4> DEFINE x == Rank(e)
                 y == Rank(e)'
      <4>2. x \in Nat /\ y \in Nat /\ x <= y /\ x >= walk.offset
        BY <2>1, <4>1
      <4> HIDE DEF x, y
      <4>3. y >= walk.offset
        BY <2>3, <4>2
      <4> QED BY <4>3 DEF y
    <3> QED BY <1>1, <3>1 DEF WalkAhead, WalkMissesNothing
  <2> QED BY <1>c, <1>d, <2>2, <2>4 DEF IndexOK, WalkRec
<1>2. CASE walk' # walk
  <2>1. (\E limit \in 0 .. cfg.maxPage + 1 : StartWalk(limit)) \/ NextPage
    BY <1>2 DEF Next, Handle, vars, Verify, Vouch, Lookup, Check, Notarize, Harvest, Reply, CheckFull,
       Put, HandleVerify, HandleSettle, HandleSubmit, Deepen, Expire, Restart
  <2>2. index' = index
    BY <2>1 DEF StartWalk, NextPage
  <2>3. CASE NextPage
    <3>1. ListPage(walk) /\ \A e \in walk.must \ walk.got : Rank(e) >= walk.offset
      BY <2>3 DEF NextPage, WalkAhead
    <3>2. walk' \in WalkRec(Cardinality(D), cfg.maxPage, D) /\ WalkAhead'
      BY <1>i, <2>2, <3>1, PageStep
    <3> QED BY <1>c, <1>d, <2>2, <3>2 DEF IndexOK, WalkRec
  <2>4. ASSUME NEW limit \in 0 .. cfg.maxPage + 1, StartWalk(limit) PROVE IndexOK' /\ WalkAhead'
    <3> DEFINE w == [NoWalk EXCEPT !.limit = clampPageSize(limit), !.must = D]
    <3>1. clampPageSize(limit) \in 1 .. cfg.maxPage
      BY <1>i DEF clampPageSize
    <3>2. w.offset = 0 /\ w.must = D /\ w.got = {}
      BY DEF NoWalk
    <3>n. Cardinality(D) \in Nat
      BY <1>i, FS_CardinalityType
    <3>3. w \in WalkRec(Cardinality(D), cfg.maxPage, D)
      <4>1. 0 \in 0 .. Cardinality(D) /\ 1 \in 1 .. cfg.maxPage
        BY <1>i, <3>n
      <4>2. NoWalk \in WalkRec(Cardinality(D), cfg.maxPage, D)
        BY <4>1 DEF NoWalk, WalkRec
      <4> QED BY <3>1, <4>2 DEF WalkRec
    <3>4. \A e \in w.must \ w.got : Rank(e) >= w.offset
      <4>1. w.must = D /\ w.got = {} /\ w.offset = 0
        BY <3>2
      <4> HIDE DEF w
      <4>2. \A e \in D : Rank(e) >= 0
        BY <1>i, RankTyped
      <4> QED BY <4>1, <4>2
    <3>5. ListPage(w)
      BY <2>4 DEF StartWalk
    <3> HIDE DEF w
    <3>6. walk' \in WalkRec(Cardinality(D), cfg.maxPage, D) /\ WalkAhead'
      BY <1>i, <2>2, <3>3, <3>4, <3>5, PageStep
    <3> QED BY <1>c, <1>d, <2>2, <3>6 DEF IndexOK, WalkRec
  <2> QED BY <2>1, <2>3, <2>4
<1> QED BY <1>1, <1>2

-----------------------------------------------------------------------------
(* Answers *)

\* Store.Settle: a row that is there stays.
LEMMA RowsStay ==
  ASSUME ConnOK, Serving, [Next]_vars
  PROVE  /\ DOMAIN settlements' = Key
         /\ \A k \in Key : settlements[k] # None => settlements'[k] = settlements[k]
<1> USE DEF world, conns
<1>1. CASE settlements' = settlements
  BY <1>1 DEF ConnOK
<1>2. CASE settlements' # settlements
  <2>1. PICK c \in Conn : /\ phase[c] = "notarize"
                          /\ settlements' = [settlements EXCEPT ![req[c].id] = Settle(req[c])]
    BY <1>2 DEF Next, Handle, vars, Verify, Vouch, Lookup, Check, Notarize, Harvest, Reply, CheckFull,
       Put, HandleVerify, HandleSettle, HandleSubmit, StartWalk, NextPage, Deepen, Expire, Restart
  <2> QED BY <2>1 DEF Settle, ConnOK
<1> QED BY <1>1, <1>2

\* What an action says of the answers of its connection.
OwnAnswer(c) ==
  /\ phase[c] = "harvest" => resp[c] # None
  /\ resp[c] # None => phase[c] \in {"harvest", "reply"} /\ resp[c] = settlements[req[c].id]

OwnReplay(c) ==
  known[c] => /\ phase[c] \in {"lookup", "harvest", "reply"}
              /\ settlements[req[c].id] # None
              /\ phase[c] = "reply" => resp[c] # None

Others(c) ==
  \A d \in Conn \ {c} : /\ phase'[d] = phase[d] /\ req'[d] = req[d] /\ resp'[d] = resp[d]
                        /\ known'[d] = known[d]

\* What was answered stays true, as rows stay.
LEMMA ToldStays ==
  ASSUME ConnOK, Serving, Answered, [Next]_vars, told' = told
  PROVE  \A k \in Key : \A a \in told'[k] : settlements'[k] # None /\ a = Answer(settlements'[k])
  BY RowsStay DEF Answered

\* A step of one connection.
LEMMA AnswerStep ==
  ASSUME ConnOK, Serving, Answered, Replayed, [Next]_vars, NEW c \in Conn,
         Others(c), OwnAnswer(c)', OwnReplay(c)',
         \A k \in Key : \A a \in told'[k] : settlements'[k] # None /\ a = Answer(settlements'[k])
  PROVE  Answered' /\ Replayed'
<1>1. ASSUME NEW d \in Conn, d # c PROVE OwnAnswer(d)' /\ OwnReplay(d)'
  <2>1. OwnAnswer(d) /\ OwnReplay(d)
    BY DEF Answered, Replayed, OwnAnswer, OwnReplay
  <2>2. phase'[d] = phase[d] /\ req'[d] = req[d] /\ resp'[d] = resp[d] /\ known'[d] = known[d]
    BY <1>1 DEF Others
  <2>3. phase[d] \in {"lookup", "harvest", "reply"} /\ settlements[req[d].id] # None =>
          settlements'[req[d].id] = settlements[req[d].id]
    BY RowsStay, AtWork DEF Paid
  <2>4. OwnAnswer(d)'
    BY <2>1, <2>2, <2>3 DEF OwnAnswer
  <2>5. OwnReplay(d)'
    BY <2>1, <2>2, <2>3 DEF OwnReplay
  <2> QED BY <2>4, <2>5
<1>2. \A d \in Conn : OwnAnswer(d)' /\ OwnReplay(d)'
  BY <1>1
<1>3. Answered'
  BY <1>2 DEF Answered, OwnAnswer, Answer
<1>4. Replayed'
  BY <1>2 DEF Replayed, OwnReplay
<1> QED BY <1>3, <1>4

\* The connection that moves leaves the others alone.
LEMMA OthersStay ==
  ASSUME ConnOK, NEW c \in Conn, NEW p, phase' = [phase EXCEPT ![c] = p],
         req' = req \/ \E r : req' = [req EXCEPT ![c] = r],
         resp' = resp \/ \E r : resp' = [resp EXCEPT ![c] = r],
         known' = known \/ \E b \in BOOLEAN : known' = [known EXCEPT ![c] = b]
  PROVE  Others(c) /\ phase'[c] = p
<1>1. phase'[c] = p /\ \A d \in Conn \ {c} : phase'[d] = phase[d]
  BY DEF ConnOK
<1>2. \A d \in Conn \ {c} : req'[d] = req[d] /\ resp'[d] = resp[d]
  BY DEF ConnOK
<1>3. \A d \in Conn \ {c} : known'[d] = known[d]
  BY DEF ConnOK
<1> QED BY <1>1, <1>2, <1>3 DEF Others

\* Steps of a handler that answers nothing.
LEMMA QuietAnswers ==
  ASSUME ConnOK, Serving, Answered, Replayed, [Next]_vars, NEW c \in Conn,
         \/ \E p \in Payment : HandleVerify(c, p)
         \/ \E s \in Submission : HandleSubmit(c, s)
         \/ Verify(c) \/ Vouch(c) \/ CheckFull(c) \/ Put(c) \/ Check(c)
  PROVE  Answered' /\ Replayed'
<1> USE DEF world, Goto, Freed, Arrive
<1>1. phase[c] \in {"idle", "verify", "valid", "full", "put", "check"}
  BY DEF HandleVerify, HandleSubmit, Verify, Vouch, CheckFull, Put, Check
<1>2. resp[c] = None /\ ~known[c]
  BY <1>1 DEF Answered, Replayed
<1>3. /\ UNCHANGED <<settlements, resp, told>>
      /\ \E p \in Phase \ {"lookup", "harvest"} : phase' = [phase EXCEPT ![c] = p]
      /\ req' = req \/ \E r : req' = [req EXCEPT ![c] = r]
  BY DEF HandleVerify, HandleSubmit, Verify, Vouch, CheckFull, Put, Check, Phase
<1>4. known' = known \/ known' = [known EXCEPT ![c] = FALSE]
  BY DEF HandleVerify, HandleSubmit, Verify, Vouch, CheckFull, Put, Check, Fault, NoFault
<1>5. Others(c) /\ phase'[c] \notin {"lookup", "harvest"}
  BY <1>3, <1>4, OthersStay
<1>6. ~known'[c]
  BY <1>2, <1>4 DEF ConnOK
<1>7. OwnAnswer(c)' /\ OwnReplay(c)'
  BY <1>2, <1>3, <1>5, <1>6 DEF OwnAnswer, OwnReplay
<1> QED BY <1>3, <1>5, <1>7, ToldStays, AnswerStep

\* Steps of settle.
LEMMA SettleAnswers ==
  ASSUME ConnOK, Serving, Answered, Replayed, [Next]_vars, NEW c \in Conn,
         \/ \E p \in Payment : HandleSettle(c, p)
         \/ Lookup(c) \/ Notarize(c) \/ Harvest(c) \/ Reply(c)
  PROVE  Answered' /\ Replayed'
<1> USE DEF world, Goto, Arrive
<1>o. OwnAnswer(c) /\ OwnReplay(c)
  BY DEF Answered, Replayed, OwnAnswer, OwnReplay
<1>f. Fault(c) => known' = [known EXCEPT ![c] = FALSE] /\ ~known'[c]
  BY DEF Fault, ConnOK
<1>1. ASSUME NEW p \in Payment, HandleSettle(c, p) PROVE Answered' /\ Replayed'
  <2>1. /\ phase[c] = "idle" /\ phase' = [phase EXCEPT ![c] = "lookup"] /\ req' = [req EXCEPT ![c] = p]
        /\ UNCHANGED <<settlements, resp, told>>
    BY <1>1 DEF HandleSettle
  <2>2. known' = [known EXCEPT ![c] = settlements[p.id] # None]
    BY <1>1 DEF HandleSettle
  <2>3. Others(c) /\ phase'[c] = "lookup"
    BY <2>1, <2>2, OthersStay
  <2>4. req'[c] = p /\ resp'[c] = None
    BY <1>o, <2>1 DEF ConnOK, OwnAnswer
  <2>5. known'[c] => settlements'[p.id] # None
    BY <2>1, <2>2 DEF ConnOK
  <2>6. OwnAnswer(c)' /\ OwnReplay(c)'
    BY <2>3, <2>4, <2>5 DEF OwnAnswer, OwnReplay
  <2> QED BY <2>1, <2>3, <2>6, ToldStays, AnswerStep
<1>2. CASE Lookup(c)
  <2>1. phase[c] = "lookup" /\ UNCHANGED <<settlements, req, told>> /\ resp[c] = None
    BY <1>2, <1>o DEF Lookup, OwnAnswer
  <2>2. CASE /\ settlements[req[c].id] # None /\ phase' = [phase EXCEPT ![c] = "harvest"]
             /\ resp' = [resp EXCEPT ![c] = settlements[req[c].id]] /\ NoFault
    <3>1. known' = known
      BY <2>2 DEF NoFault
    <3>2. Others(c) /\ phase'[c] = "harvest"
      BY <2>1, <2>2, <3>1, OthersStay
    <3>3. resp'[c] = settlements'[req'[c].id] /\ resp'[c] # None
      BY <2>1, <2>2 DEF ConnOK
    <3>4. OwnAnswer(c)' /\ OwnReplay(c)'
      BY <3>2, <3>3 DEF OwnAnswer, OwnReplay
    <3> QED BY <2>1, <3>2, <3>4, ToldStays, AnswerStep
  <2>3. CASE /\ phase' = [phase EXCEPT ![c] = "check"] /\ resp' = resp
             /\ Fault(c) \/ (settlements[req[c].id] = None /\ NoFault)
    <3>1. ~known'[c] /\ (known' = known \/ known' = [known EXCEPT ![c] = FALSE])
      BY <1>o, <1>f, <2>3 DEF NoFault, OwnReplay
    <3>2. Others(c) /\ phase'[c] = "check"
      BY <2>1, <2>3, <3>1, OthersStay
    <3>3. OwnAnswer(c)' /\ OwnReplay(c)'
      BY <2>1, <2>3, <3>1, <3>2 DEF OwnAnswer, OwnReplay
    <3> QED BY <2>1, <3>2, <3>3, ToldStays, AnswerStep
  <2> QED BY <1>2, <2>2, <2>3 DEF Lookup
<1>3. CASE Notarize(c)
  <2>1. phase[c] = "notarize" /\ UNCHANGED <<req, told>> /\ resp[c] = None /\ ~known[c]
    BY <1>3, <1>o DEF Notarize, OwnAnswer, OwnReplay
  <2>2. req[c] \in Payment /\ req[c].id \in Key
    BY <2>1, AtWork DEF Paid
  <2>3. CASE /\ settlements' = [settlements EXCEPT ![req[c].id] = Settle(req[c])]
             /\ resp' = [resp EXCEPT ![c] = Settle(req[c])]
             /\ phase' = [phase EXCEPT ![c] = "harvest"] /\ NoFault
    <3>1. known' = known
      BY <2>3 DEF NoFault
    <3>2. Others(c) /\ phase'[c] = "harvest"
      BY <2>1, <2>3, <3>1, OthersStay
    <3>3. Settle(req[c]) # None
      BY <2>2 DEF Settle
    <3>4. resp'[c] = settlements'[req'[c].id] /\ resp'[c] # None
      BY <2>1, <2>2, <2>3, <3>3 DEF ConnOK
    <3>5. OwnAnswer(c)' /\ OwnReplay(c)'
      BY <2>1, <3>1, <3>2, <3>4 DEF OwnAnswer, OwnReplay
    <3> QED BY <2>1, <3>2, <3>5, ToldStays, AnswerStep
  <2>4. CASE phase' = [phase EXCEPT ![c] = "reply"] /\ UNCHANGED <<settlements, resp>> /\ Fault(c)
    <3>1. ~known'[c] /\ known' = [known EXCEPT ![c] = FALSE]
      BY <1>f, <2>4
    <3>2. Others(c) /\ phase'[c] = "reply"
      BY <2>1, <2>4, <3>1, OthersStay
    <3>3. OwnAnswer(c)' /\ OwnReplay(c)'
      BY <2>1, <2>4, <3>1, <3>2 DEF OwnAnswer, OwnReplay
    <3> QED BY <2>1, <3>2, <3>3, ToldStays, AnswerStep
  <2> QED BY <1>3, <2>3, <2>4 DEF Notarize
<1>4. CASE Harvest(c)
  <2>1. /\ phase[c] = "harvest" /\ phase' = [phase EXCEPT ![c] = "reply"]
        /\ UNCHANGED <<settlements, req, resp, told>>
    BY <1>4 DEF Harvest
  <2>2. known' = known \/ (known' = [known EXCEPT ![c] = FALSE] /\ ~known'[c])
    BY <1>f, <1>4 DEF Harvest, NoFault
  <2>3. Others(c) /\ phase'[c] = "reply"
    BY <2>1, <2>2, OthersStay
  <2>4. OwnAnswer(c)' /\ OwnReplay(c)'
    BY <1>o, <2>1, <2>2, <2>3 DEF OwnAnswer, OwnReplay
  <2> QED BY <2>1, <2>3, <2>4, ToldStays, AnswerStep
<1>5. CASE Reply(c)
  <2>1. /\ phase[c] = "reply" /\ phase' = [phase EXCEPT ![c] = "idle"]
        /\ req' = [req EXCEPT ![c] = None] /\ resp' = [resp EXCEPT ![c] = None]
        /\ settlements' = settlements
    BY <1>5 DEF Reply
  <2>2. known' = [known EXCEPT ![c] = FALSE] /\ ~known'[c]
    BY <1>5 DEF Reply, ConnOK
  <2>3. Others(c) /\ phase'[c] = "idle"
    BY <2>1, <2>2, OthersStay
  <2>4. resp'[c] = None
    BY <2>1 DEF ConnOK
  <2>5. OwnAnswer(c)' /\ OwnReplay(c)'
    BY <2>2, <2>3, <2>4 DEF OwnAnswer, OwnReplay
  <2>6. CASE resp[c] = None
    <3>1. told' = told
      BY <1>5, <2>6 DEF Reply
    <3> QED BY <2>3, <2>5, <3>1, ToldStays, AnswerStep
  <2>7. CASE resp[c] # None
    <3>1. req[c].id \in Key /\ resp[c] = settlements[req[c].id]
      BY <1>o, <2>1, <2>7, AtWork DEF OwnAnswer, Paid
    <3>2. told' = [told EXCEPT ![req[c].id] = @ \cup {Answer(resp[c])}]
      BY <1>5, <2>7 DEF Reply, Answer
    <3>3. \A k \in Key : \A a \in told'[k] : settlements'[k] # None /\ a = Answer(settlements'[k])
      <4> SUFFICES ASSUME NEW k \in Key, NEW a \in told'[k]
                   PROVE  settlements[k] # None /\ a = Answer(settlements[k])
        BY <2>1
      <4>1. a \in told[k] \/ (k = req[c].id /\ a = Answer(resp[c]))
        BY <3>1, <3>2 DEF ConnOK
      <4> QED BY <2>7, <3>1, <4>1 DEF Answered
    <3> QED BY <2>3, <2>5, <3>3, AnswerStep
  <2> QED BY <2>6, <2>7
<1> QED BY <1>1, <1>2, <1>3, <1>4, <1>5

LEMMA AnswersStay ==
  ASSUME ConnOK, Serving, Answered, Replayed, [Next]_vars
  PROVE  Answered' /\ Replayed'
<1> USE DEF world, conns
<1>1. CASE Restart
  <2>1. /\ phase' = [c \in Conn |-> "idle"] /\ resp' = [c \in Conn |-> None]
        /\ told' = told
    BY <1>1 DEF Restart
  <2>2. \A c \in Conn : ~known'[c]
    BY <1>1 DEF Restart
  <2>3. \A k \in Key : \A a \in told'[k] : settlements'[k] # None /\ a = Answer(settlements'[k])
    BY <2>1, ToldStays
  <2> QED BY <2>1, <2>2, <2>3 DEF Answered, Replayed, Answer
<1>2. CASE UNCHANGED <<phase, req, resp, known, told, settlements>>
  BY <1>2 DEF Answered, Replayed, Answer
<1>3. CASE (\E limit \in 0 .. cfg.maxPage + 1 : StartWalk(limit)) \/ NextPage
           \/ (\E t \in Tx : Deepen(t)) \/ (\E p \in Payment : Expire(p)) \/ UNCHANGED vars
  BY <1>2, <1>3 DEF StartWalk, NextPage, Deepen, Expire, vars
<1> QED BY <1>1, <1>3, QuietAnswers, SettleAnswers DEF Next, Handle

-----------------------------------------------------------------------------
(* Payments *)

\* Good, with the depth and the configured confirmations as parameters.
GoodAt(p, d, m) ==
  \/ /\ p.method = "onchain"
     /\ AtomsTo(p.id, p.payTo) = p.amount
     /\ d >= (IF m > p.confs THEN m ELSE p.confs)
  \/ /\ p.method = "lightning" /\ p.preimage
     /\ p.invoice.id = p.id /\ p.invoice.dest = p.payTo
     /\ p.amount > Supply \/ p.invoice.mAtoms = p.amount * Milli

\* A product of what can exist fits into a machine word.
LEMMA ProductFits ==
  ASSUME NEW a \in Nat, a <= Supply
  PROVE  (a * Milli) % Wrap = a * Milli
<1>1. a * Milli <= Supply * Milli /\ a * Milli \in Nat /\ Supply * Milli \in Nat
  OBVIOUS
<1> DEFINE x == a * Milli
           y == Supply * Milli
<1>2. x \in Nat /\ y \in Nat /\ x <= y /\ y < Wrap
  BY <1>1
<1> HIDE DEF x, y
<1>3. x % Wrap = x
  BY <1>2
<1> QED BY <1>3 DEF x

\* What the check accepts is good.
LEMMA CheckIsGood ==
  ASSUME ConnOK, NEW p \in Payment, checkAny(p)
  PROVE  GoodAt(p, depth[p.id], cfg.minConfs)
<1>1. CASE p.method = "lightning"
  <2>1. VerifyLightningProof(p)
    BY <1>1 DEF checkAny
  <2>2. p.amount > Supply \/ p.invoice.mAtoms = p.amount * Milli
    <3> SUFFICES ASSUME ~(p.amount > Supply) PROVE p.invoice.mAtoms = p.amount * Milli
      OBVIOUS
    <3>1. p.amount \in Nat /\ p.amount <= Supply
      OBVIOUS
    <3>2. (p.amount * Milli) % Wrap = p.amount * Milli
      BY <3>1, ProductFits
    <3> QED BY <2>1, <3>2 DEF VerifyLightningProof
  <2> QED BY <1>1, <2>1, <2>2 DEF VerifyLightningProof, GoodAt
<1>2. CASE p.method = "onchain"
  <2>1. checkOnchain(p) /\ p.id \in Tx
    BY <1>2 DEF checkAny
  <2>2. AddUp(Outputs[p.id], p.payTo) = p.amount /\ depth[p.id] >= RequiredConfs(p)
    BY <2>1 DEF checkOnchain, lookupDeposit
  <2>3. AddUp(Outputs[p.id], p.payTo) = AtomsTo(p.id, p.payTo)
    BY <2>1, AddUpIsSum
  <2> QED BY <1>2, <2>2, <2>3 DEF GoodAt, RequiredConfs
<1> QED BY <1>1, <1>2

\* Confirmations are never taken back.
LEMMA DepthGrows ==
  ASSUME ConnOK, [Next]_vars
  PROVE  cfg' = cfg /\ \A t \in Tx : depth[t] \in Int /\ depth'[t] \in Int /\ depth[t] <= depth'[t]
<1> USE DEF world, conns
<1>1. cfg' = cfg
  BY DEF Next, Handle, vars, Verify, Vouch, Lookup, Check, Notarize, Harvest, Reply, CheckFull, Put,
         HandleVerify, HandleSettle, HandleSubmit, StartWalk, NextPage, Deepen, Expire, Restart
<1>2. CASE \E t \in Tx : Deepen(t)
  <2>1. PICK t \in Tx : depth' = [depth EXCEPT ![t] = @ + 1]
    BY <1>2 DEF Deepen
  <2>2. \A u \in Tx : depth[u] \in Int /\ depth'[u] = IF u = t THEN depth[u] + 1 ELSE depth[u]
    BY <2>1 DEF ConnOK
  <2> QED BY <1>1, <2>2
<1>3. CASE ~ \E t \in Tx : Deepen(t)
  <2>1. depth' = depth
    BY <1>3 DEF Next, Handle, vars, Verify, Vouch, Lookup, Check, Notarize, Harvest, Reply, CheckFull,
       Put, HandleVerify, HandleSettle, HandleSubmit, StartWalk, NextPage, Expire, Restart
  <2>2. \A t \in Tx : depth[t] \in Int
    BY DEF ConnOK
  <2> QED BY <1>1, <2>1, <2>2
<1> QED BY <1>2, <1>3

LEMMA GoodStays ==
  ASSUME ConnOK, [Next]_vars, NEW p \in Payment, GoodAt(p, depth[p.id], cfg.minConfs)
  PROVE  GoodAt(p, depth'[p.id], cfg'.minConfs)
<1>1. CASE p.method = "onchain"
  <2>1. p.id \in Tx /\ p.confs \in Int /\ cfg.minConfs \in Int
    BY <1>1, ConfigTyped
  <2>2. /\ depth[p.id] \in Int /\ depth'[p.id] \in Int /\ depth[p.id] <= depth'[p.id] /\ cfg' = cfg
        /\ depth[p.id] >= (IF cfg.minConfs > p.confs THEN cfg.minConfs ELSE p.confs)
    BY <1>1, <2>1, DepthGrows DEF GoodAt
  <2> DEFINE a == depth[p.id]
             b == depth'[p.id]
             r == IF cfg.minConfs > p.confs THEN cfg.minConfs ELSE p.confs
  <2>3. a \in Int /\ b \in Int /\ r \in Int /\ a <= b /\ a >= r
    BY <2>1, <2>2
  <2> HIDE DEF a, b, r
  <2>4. b >= r
    BY <2>3
  <2> QED BY <1>1, <2>2, <2>4 DEF GoodAt, b, r
<1>2. CASE p.method = "lightning"
  BY <1>2 DEF GoodAt
<1> QED BY <1>1, <1>2

\* Only a payment that passed the check is vouched for or notarized.
LEMMA OnlyCheckedPass ==
  ASSUME ConnOK, Serving, [Next]_vars, NEW d \in Conn, phase'[d] \in {"valid", "notarize"}
  PROVE  /\ req'[d] = req[d] /\ req[d] \in Payment
         /\ phase[d] \in {"valid", "notarize"} \/ checkAny(req[d])
<1> USE DEF world, conns, Goto, Freed
<1>t. phase \in [Conn -> Phase]
  BY DEF ConnOK
<1>s. phase[d] \in Paid => req[d] \in Payment
  BY AtWork
<1>1. ASSUME NEW c \in Conn, NEW p \in Phase \ {"valid", "notarize"}, phase' = [phase EXCEPT ![c] = p],
             req' = req \/ \E r : req' = [req EXCEPT ![c] = r]
      PROVE  d # c /\ req'[d] = req[d] /\ phase[d] = phase'[d]
  BY <1>t, <1>1 DEF ConnOK
<1>2. ASSUME NEW c \in Conn, phase[c] \in {"verify", "check"}, checkAny(req[c]), req' = req,
             NEW p \in {"valid", "notarize"}, phase' = [phase EXCEPT ![c] = p]
      PROVE  req'[d] = req[d] /\ ((d = c /\ phase[d] \in Paid) \/ phase[d] = phase'[d])
  BY <1>t, <1>2 DEF Paid
<1>3. ASSUME NEW c \in Conn, Handle(c)
      PROVE  /\ req'[d] = req[d] /\ phase[d] \in Paid
             /\ phase[d] \in {"valid", "notarize"} \/ checkAny(req[d])
  <2>1. \/ \E p \in Phase \ {"valid", "notarize"} :
             phase' = [phase EXCEPT ![c] = p] /\ (req' = req \/ \E r : req' = [req EXCEPT ![c] = r])
        \/ /\ phase[c] \in {"verify", "check"} /\ checkAny(req[c]) /\ req' = req
           /\ \E p \in {"valid", "notarize"} : phase' = [phase EXCEPT ![c] = p]
    BY <1>3 DEF Handle, Verify, Vouch, Lookup, Check, Notarize, Harvest, Reply, CheckFull, Put, Phase
  <2> QED BY <1>1, <1>2, <2>1 DEF Paid
<1>4. ASSUME NEW c \in Conn,
             \/ \E p \in Payment : HandleVerify(c, p) \/ HandleSettle(c, p)
             \/ \E s \in Submission : HandleSubmit(c, s)
      PROVE  req'[d] = req[d] /\ phase[d] = phase'[d]
  <2>1. \E p \in Phase \ {"valid", "notarize"} :
          phase' = [phase EXCEPT ![c] = p] /\ (req' = req \/ \E r : req' = [req EXCEPT ![c] = r])
    BY <1>4 DEF HandleVerify, HandleSettle, HandleSubmit, Arrive, Phase
  <2> QED BY <1>1, <2>1
<1>5. CASE UNCHANGED <<phase, req>>
  BY <1>5, <1>s DEF Paid
<1>6. CASE (\E limit \in 0 .. cfg.maxPage + 1 : StartWalk(limit)) \/ NextPage
           \/ (\E t \in Tx : Deepen(t)) \/ (\E p \in Payment : Expire(p)) \/ UNCHANGED vars
  BY <1>5, <1>6 DEF StartWalk, NextPage, Deepen, Expire, vars
<1>7. ~Restart
  BY DEF Restart
<1> QED BY <1>3, <1>4, <1>6, <1>7, <1>s DEF Next, Paid

LEMMA PaidStays ==
  ASSUME ConnOK, Serving, NotarizedIsPaid, [Next]_vars
  PROVE  NotarizedIsPaid'
<1>1. ASSUME NEW d \in Conn, phase'[d] \in {"valid", "notarize"}
      PROVE  Good(req[d])'
  <2>1. /\ req'[d] = req[d] /\ req[d] \in Payment
        /\ phase[d] \in {"valid", "notarize"} \/ checkAny(req[d])
    BY <1>1, OnlyCheckedPass
  <2>2. phase[d] \in {"valid", "notarize"} => GoodAt(req[d], depth[req[d].id], cfg.minConfs)
    BY DEF NotarizedIsPaid, Good, GoodAt, RequiredConfs
  <2>3. GoodAt(req[d], depth[req[d].id], cfg.minConfs)
    BY <2>1, <2>2, CheckIsGood
  <2>4. GoodAt(req[d], depth'[req[d].id], cfg'.minConfs)
    BY <2>1, <2>3, GoodStays
  <2> QED BY <2>1, <2>4 DEF Good, GoodAt, RequiredConfs
<1>2. ASSUME NEW k \in Key, settlements'[k] # None
      PROVE  Good(settlements[k])'
  <2>1. \/ settlements[k] # None /\ settlements'[k] = settlements[k]
        \/ \E c \in Conn : phase[c] = "notarize" /\ settlements'[k] = req[c]
    <3>1. CASE settlements' = settlements
      BY <1>2, <3>1
    <3>2. CASE settlements' # settlements
      <4>1. PICK c \in Conn : /\ phase[c] = "notarize"
                              /\ settlements' = [settlements EXCEPT ![req[c].id] = Settle(req[c])]
        BY <3>2 DEF Next, Handle, vars, Verify, Vouch, Lookup, Check, Notarize, Harvest, Reply,
           CheckFull, Put, HandleVerify, HandleSettle, HandleSubmit, StartWalk, NextPage, Deepen,
           Expire, Restart, world, conns
      <4> QED BY <1>2, <4>1 DEF Settle, ConnOK
    <3> QED BY <3>1, <3>2
  <2>2. PICK p \in Payment : settlements'[k] = p /\ GoodAt(p, depth[p.id], cfg.minConfs)
    <3>1. CASE settlements[k] # None /\ settlements'[k] = settlements[k]
      <4>1. settlements[k] \in Payment
        BY <3>1 DEF ConnOK
      <4>2. GoodAt(settlements[k], depth[settlements[k].id], cfg.minConfs)
        BY <3>1 DEF NotarizedIsPaid, Good, GoodAt, RequiredConfs
      <4> QED BY <3>1, <4>1, <4>2
    <3>2. ASSUME NEW c \in Conn, phase[c] = "notarize", settlements'[k] = req[c]
          PROVE  \E p \in Payment : settlements'[k] = p /\ GoodAt(p, depth[p.id], cfg.minConfs)
      <4>1. req[c] \in Payment
        BY <3>2, AtWork DEF Paid
      <4>2. GoodAt(req[c], depth[req[c].id], cfg.minConfs)
        BY <3>2 DEF NotarizedIsPaid, Good, GoodAt, RequiredConfs
      <4> QED BY <3>2, <4>1, <4>2
    <3> QED BY <2>1, <3>1, <3>2
  <2>3. GoodAt(p, depth'[p.id], cfg'.minConfs)
    BY <2>2, GoodStays
  <2> QED BY <2>2, <2>3 DEF Good, GoodAt, RequiredConfs
<1> QED BY <1>1, <1>2 DEF NotarizedIsPaid

-----------------------------------------------------------------------------
(* The limit of the index *)

\* Only the count of the index lets a submission through.
LEMMA OnlyCountedPass ==
  ASSUME ConnOK, [Next]_vars, NEW d \in Conn, phase'[d] = "put"
  PROVE  (phase[d] = "put" /\ req'[d] = req[d]) \/ CheckFull(d)
<1> USE DEF world, conns, Goto, Freed
<1>t. phase \in [Conn -> Phase]
  BY DEF ConnOK
<1>1. ASSUME NEW c \in Conn, NEW p \in Phase \ {"put"}, phase' = [phase EXCEPT ![c] = p],
             req' = req \/ \E r : req' = [req EXCEPT ![c] = r]
      PROVE  phase[d] = "put" /\ req'[d] = req[d]
  BY <1>t, <1>1 DEF ConnOK
<1>2. ASSUME NEW c \in Conn, Handle(c), ~CheckFull(c) PROVE phase[d] = "put" /\ req'[d] = req[d]
  <2>1. \E p \in Phase \ {"put"} :
          phase' = [phase EXCEPT ![c] = p] /\ (req' = req \/ \E r : req' = [req EXCEPT ![c] = r])
    BY <1>2 DEF Handle, Verify, Vouch, Lookup, Check, Notarize, Harvest, Reply, Put, Phase
  <2> QED BY <1>1, <2>1
<1>3. ASSUME NEW c \in Conn, CheckFull(c), c # d PROVE phase[d] = "put" /\ req'[d] = req[d]
  BY <1>3, <1>t DEF CheckFull, ConnOK
<1>4. ASSUME NEW c \in Conn,
             \/ \E p \in Payment : HandleVerify(c, p) \/ HandleSettle(c, p)
             \/ \E s \in Submission : HandleSubmit(c, s)
      PROVE  phase[d] = "put" /\ req'[d] = req[d]
  <2>1. \E p \in Phase \ {"put"} :
          phase' = [phase EXCEPT ![c] = p] /\ (req' = req \/ \E r : req' = [req EXCEPT ![c] = r])
    BY <1>4 DEF HandleVerify, HandleSettle, HandleSubmit, Arrive, Phase
  <2> QED BY <1>1, <2>1
<1>5. CASE (\E limit \in 0 .. cfg.maxPage + 1 : StartWalk(limit)) \/ NextPage
           \/ (\E t \in Tx : Deepen(t)) \/ (\E p \in Payment : Expire(p)) \/ UNCHANGED vars
  BY <1>5 DEF StartWalk, NextPage, Deepen, Expire, vars
<1>6. ~Restart
  BY DEF Restart
<1> QED BY <1>2, <1>3, <1>4, <1>5, <1>6 DEF Next

\* The failed calls and restarts are only counted up.
LEMMA FaultsGrow ==
  ASSUME ConnOK, [Next]_vars
  PROVE  faults \in Nat /\ faults' \in Nat /\ faults <= faults'
<1> USE DEF world, conns
<1>1. faults \in Nat
  BY DEF ConnOK
<1>2. faults' = faults \/ faults' = faults + 1
  BY DEF Next, Handle, vars, Verify, Vouch, Lookup, Check, Notarize, Harvest, Reply, CheckFull, Put,
         HandleVerify, HandleSettle, HandleSubmit, StartWalk, NextPage, Deepen, Expire, Restart,
         Fault, NoFault
<1> QED BY <1>1, <1>2

\* Entries that submissions brought, and the ones they may still bring.
LEMMA RoomTyped ==
  ASSUME IndexOK
  PROVE  /\ IsFiniteSet(DOMAIN index \ harvested) /\ IsFiniteSet(Pending)
         /\ Cardinality(DOMAIN index \ harvested) \in Nat /\ Cardinality(Pending) \in Nat
         /\ Cardinality(DOMAIN index) \in Nat
         /\ Cardinality(DOMAIN index \ harvested) <= Cardinality(DOMAIN index)
         /\ Cardinality(Conn) \in Nat \ {0} /\ Cardinality(Pending) <= Cardinality(Conn)
<1>1. IsFiniteSet(DOMAIN index) /\ IsFiniteSet(Conn)
  BY DEF IndexOK
<1>2. DOMAIN index \ harvested \in SUBSET DOMAIN index /\ Pending \in SUBSET Conn
  BY DEF Pending
<1>3. /\ IsFiniteSet(DOMAIN index \ harvested)
      /\ Cardinality(DOMAIN index \ harvested) <= Cardinality(DOMAIN index)
  BY <1>1, <1>2, FS_Subset
<1>4. IsFiniteSet(Pending) /\ Cardinality(Pending) <= Cardinality(Conn)
  BY <1>1, <1>2, FS_Subset
<1>5. Cardinality(Conn) \in Nat /\ Cardinality(Conn) # 0
  BY <1>1, FS_CardinalityType, FS_EmptySet
<1>6. /\ Cardinality(DOMAIN index \ harvested) \in Nat /\ Cardinality(Pending) \in Nat
      /\ Cardinality(DOMAIN index) \in Nat
  BY <1>1, <1>3, <1>4, FS_CardinalityType
<1> QED BY <1>3, <1>4, <1>5, <1>6

\* indexFull and PutResource: a submission that was counted has its room.
LEMMA RoomStays ==
  ASSUME ConnOK, Serving, IndexOK, IndexOK', RoomLeft, [Next]_vars
  PROVE  RoomLeft'
<1> DEFINE D == DOMAIN index
           D1 == DOMAIN index'
           N == Cardinality(D \ harvested)
           N1 == Cardinality(D1 \ harvested')
           P == Cardinality(Pending)
           P1 == Cardinality(Pending')
           K == Cardinality(Conn)
           M == cfg.maxResources
           F == faults
           F1 == faults'
<1>t. /\ N \in Nat /\ P \in Nat /\ Cardinality(D) \in Nat /\ N <= Cardinality(D)
      /\ K \in Nat \ {0} /\ P <= K /\ IsFiniteSet(D \ harvested) /\ IsFiniteSet(Pending)
  BY RoomTyped
<1>u. N1 \in Nat /\ P1 \in Nat /\ P1 <= K
  <2>1. IsFiniteSet(D1) /\ IsFiniteSet(Conn)
    BY DEF IndexOK
  <2>2. D1 \ harvested' \in SUBSET D1 /\ Pending' \in SUBSET Conn
    BY DEF Pending
  <2>3. IsFiniteSet(D1 \ harvested')
    BY <2>1, <2>2, FS_Subset
  <2>4. IsFiniteSet(Pending') /\ P1 <= K
    BY <2>1, <2>2, FS_Subset
  <2> QED BY <2>3, <2>4, FS_CardinalityType
<1>c. M \in Nat /\ cfg' = cfg
  BY ConfigTyped, DepthGrows
<1>f. F \in Nat /\ F1 \in Nat /\ F <= F1
  BY FaultsGrow
<1>r. N + P <= M + K - 1 + F
  BY DEF RoomLeft
<1>s. Pending' = {d \in Conn : phase'[d] = "put" /\ SubmitEntry(req'[d]) \notin D1}
  BY DEF Pending, SubmitEntry
<1>q. SUFFICES N1 + P1 <= M + K - 1 + F1
  <2>1. RoomLeft' <=> N1 + P1 <= cfg'.maxResources + K - 1 + F1
    BY DEF RoomLeft
  <2> QED BY <1>c, <1>q, <2>1
<1>1. CASE UNCHANGED <<index, harvested>>
  <2>1. N1 = N /\ D1 = D
    BY <1>1
  <2>2. CASE \A d \in Conn : phase'[d] = "put" => phase[d] = "put" /\ req'[d] = req[d]
    <3>1. Pending' \in SUBSET Pending
      BY <1>s, <2>1, <2>2 DEF Pending
    <3>2. P1 <= P
      BY <1>t, <3>1, FS_Subset
    <3> HIDE BazaarAssumption, RequestAssumption, Numbers DEF N, N1, P, P1, K, M, F, F1
    <3> QED BY <1>t, <1>u, <1>c, <1>f, <1>r, <2>1, <3>2
  <2>3. ASSUME NEW c \in Conn, CheckFull(c), phase'[c] = "put" PROVE N1 + P1 <= M + K - 1 + F1
    <3>1. /\ phase' = [phase EXCEPT ![c] = "put"] /\ req' = req
          /\ (~indexFull(SubmitEntry(req[c])) /\ faults' = faults) \/ faults' = faults + 1
      <4>1. phase \in [Conn -> Phase]
        BY DEF ConnOK
      <4> QED BY <2>3, <4>1 DEF CheckFull, Freed, Goto, Fault, NoFault
    <3>2. Pending' \in SUBSET (Pending \cup {c})
      <4>1. \A d \in Conn \ {c} : phase'[d] = phase[d] /\ req'[d] = req[d]
        BY <3>1 DEF ConnOK
      <4> QED BY <1>s, <2>1, <4>1 DEF Pending
    <3>3. CASE faults' = faults + 1
      <4>1. IsFiniteSet(Pending \cup {c}) /\ Cardinality(Pending \cup {c}) <= P + 1
        <5>1. /\ IsFiniteSet(Pending \cup {c})
              /\ Cardinality(Pending \cup {c}) = IF c \in Pending THEN P ELSE P + 1
          BY <1>t, FS_AddElement
        <5> HIDE DEF P
        <5> QED BY <1>t, <5>1
      <4>2. P1 <= Cardinality(Pending \cup {c}) /\ Cardinality(Pending \cup {c}) \in Nat
        BY <3>2, <4>1, FS_Subset, FS_CardinalityType
      <4>3. P1 <= P + 1
        <5> DEFINE x == Cardinality(Pending \cup {c})
        <5> HIDE DEF x, P, P1
        <5> QED BY <1>t, <1>u, <4>1, <4>2 DEF x
      <4>4. F1 = F + 1
        BY <3>3
      <4> HIDE BazaarAssumption, RequestAssumption, Numbers DEF N, N1, P, P1, K, M, F, F1
      <4> QED BY <1>t, <1>u, <1>c, <1>f, <1>r, <2>1, <4>3, <4>4
    <3>4. CASE SubmitEntry(req[c]) \in D
      <4>1. Pending' \in SUBSET Pending
        <5>1. c \notin Pending'
          BY <1>s, <2>1, <3>1, <3>4
        <5> QED BY <3>2, <5>1
      <4>2. P1 <= P
        BY <1>t, <4>1, FS_Subset
      <4> HIDE BazaarAssumption, RequestAssumption, Numbers DEF N, N1, P, P1, K, M, F, F1
      <4> QED BY <1>t, <1>u, <1>c, <1>f, <1>r, <2>1, <4>2
    <3>5. CASE ~indexFull(SubmitEntry(req[c])) /\ SubmitEntry(req[c]) \notin D
      <4> DEFINE C == Cardinality(D)
      <4>1. ~(C >= M)
        BY <3>5 DEF indexFull
      <4>2. C \in Nat /\ N <= C
        BY <1>t
      <4> HIDE BazaarAssumption, RequestAssumption, Numbers DEF N, N1, P, P1, K, M, F, F1, C
      <4> QED BY <1>t, <1>u, <1>c, <1>f, <2>1, <4>1, <4>2
    <3> QED BY <3>1, <3>3, <3>4, <3>5
  <2> QED BY <2>2, <2>3, OnlyCountedPass
<1>2. ASSUME NEW c \in Conn, Put(c) \/ Harvest(c), IndexGrows(c) PROVE N1 + P1 <= M + K - 1 + F1
  <2>1. \A d \in Conn : phase'[d] = "put" => d # c /\ phase[d] = "put" /\ req'[d] = req[d]
    <3>1. phase'[c] # "put" /\ phase[c] # "full"
      BY <1>2 DEF IndexGrows
    <3>2. ASSUME NEW d \in Conn, phase'[d] = "put" PROVE ~CheckFull(d)
      <4>1. d # c
        BY <3>1, <3>2
      <4>2. \E p : phase' = [phase EXCEPT ![c] = p]
        BY <1>2 DEF Put, Harvest, Freed, Goto
      <4>3. phase'[d] = phase[d]
        BY <4>1, <4>2 DEF ConnOK
      <4> QED BY <3>2, <4>3 DEF CheckFull
    <3> QED BY <3>1, <3>2, OnlyCountedPass
  <2>2. F1 = F /\ D \in SUBSET D1
    BY <1>2 DEF IndexGrows
  <2>3. Pending' \in SUBSET (Pending \ {c})
    BY <1>s, <2>1, <2>2 DEF Pending
  <2>4. Pending' \in SUBSET Pending
    BY <2>3
  <2>5. P1 <= P
    BY <1>t, <2>4, FS_Subset
  <2>6. CASE D1 \ harvested' \in SUBSET (D \ harvested)
    <3>1. N1 <= N
      BY <1>t, <2>6, FS_Subset
    <3> HIDE BazaarAssumption, RequestAssumption, Numbers DEF N, N1, P, P1, K, M, F, F1
    <3> QED BY <1>t, <1>u, <1>c, <1>f, <1>r, <2>2, <2>5, <3>1
  <2>7. CASE /\ phase[c] = "put" /\ SubmitEntry(req[c]) \notin D
             /\ D1 \ harvested' = (D \ harvested) \cup {SubmitEntry(req[c])}
    <3>1. N1 <= N + 1
      <4>1. Cardinality((D \ harvested) \cup {SubmitEntry(req[c])}) = N + 1
        BY <1>t, <2>7, FS_AddElement
      <4>2. N1 = N + 1
        BY <2>7, <4>1, Zenon
      <4> HIDE DEF N, N1
      <4> QED BY <1>t, <4>2
    <3>2. P1 <= P - 1
      <4>1. c \in Pending
        BY <2>7 DEF Pending
      <4>2. Cardinality(Pending \ {c}) = P - 1 /\ IsFiniteSet(Pending \ {c})
        BY <1>t, <4>1, FS_RemoveElement
      <4>3. P1 <= Cardinality(Pending \ {c})
        BY <2>3, <4>2, FS_Subset
      <4> QED BY <4>2, <4>3
    <3> HIDE BazaarAssumption, RequestAssumption, Numbers DEF N, N1, P, P1, K, M, F, F1
    <3> QED BY <1>t, <1>u, <1>c, <1>f, <1>r, <2>2, <3>1, <3>2
  <2>8. D1 \ harvested' \in SUBSET (D \ harvested)
        \/ (/\ phase[c] = "put" /\ SubmitEntry(req[c]) \notin D
            /\ D1 \ harvested' = (D \ harvested) \cup {SubmitEntry(req[c])})
    <3>1. harvested \subseteq D
      BY DEF IndexOK
    <3> QED BY <1>2, <3>1 DEF IndexGrows
  <2> QED BY <2>6, <2>7, <2>8
<1> QED BY <1>1, <1>2, IndexStep

-----------------------------------------------------------------------------
(* The theorems *)

LEMMA InitHolds == Init => BazaarInv
<1> SUFFICES ASSUME Init PROVE BazaarInv
  OBVIOUS
<1>1. DOMAIN index = {} /\ harvested = {}
  BY DEF Init
<1>2. ConnOK
  <2>1. known \in [Conn -> BOOLEAN]
    BY DEF Init
  <2>2. depth \in [Tx -> -1 .. MaxDepth]
    BY DEF Init
  <2> QED BY <2>1, <2>2 DEF Init, ConnOK, Phase
<1>3. Serving
  BY DEF Init, Serving
<1>4. IndexOK
  <2>1. IsFiniteSet(DOMAIN index) /\ Cardinality(DOMAIN index) = 0
    BY <1>1, FS_EmptySet
  <2>2. index \in [DOMAIN index -> {"http", "mcp"}]
    BY <1>1 DEF Init
  <2>3. cfg.maxPage \in Nat \ {0}
    BY <1>2, ConfigTyped
  <2>4. walk \in WalkRec(Cardinality(DOMAIN index), cfg.maxPage, DOMAIN index)
    BY <1>1, <2>1, <2>3 DEF Init, NoWalk, WalkRec
  <2> QED BY <1>1, <2>1, <2>2, <2>4 DEF IndexOK, WalkRec
<1>5. Answered
  BY DEF Init, Answered
<1>6. Replayed
  BY DEF Init, Replayed
<1>7. NotarizedIsPaid
  BY DEF Init, NotarizedIsPaid
<1>8. RoomLeft
  <2>1. Pending = {} /\ DOMAIN index \ harvested = {}
    BY <1>1 DEF Init, Pending
  <2>2. Cardinality(Pending) = 0 /\ Cardinality(DOMAIN index \ harvested) = 0
    BY <2>1, FS_EmptySet
  <2>3. Cardinality(Conn) \in Nat \ {0} /\ cfg.maxResources \in Nat /\ faults = 0
    BY <1>2, <1>4, RoomTyped, ConfigTyped DEF Init
  <2> QED BY <2>2, <2>3 DEF RoomLeft
<1>9. WalkAhead
  BY DEF Init, NoWalk, WalkAhead, WalkMissesNothing
<1> QED BY <1>2, <1>3, <1>4, <1>5, <1>6, <1>7, <1>8, <1>9, StateSplit DEF BazaarInv

LEMMA NextHolds == BazaarInv /\ [Next]_vars => BazaarInv'
<1> SUFFICES ASSUME BazaarInv, [Next]_vars PROVE BazaarInv'
  OBVIOUS
<1>1. ConnOK /\ Serving /\ IndexOK /\ Answered /\ Replayed /\ NotarizedIsPaid /\ RoomLeft /\ WalkAhead
  BY StateSplit DEF BazaarInv
<1>2. ConnOK' /\ Serving'
  BY <1>1, ConnStays
<1>3. IndexOK' /\ WalkAhead'
  BY <1>1, IndexStays
<1>4. StateInv'
  BY <1>2, <1>3 DEF StateInv, TypeOK, ConnOK, IndexOK
<1>5. Answered' /\ Replayed'
  BY <1>1, AnswersStay
<1>6. NotarizedIsPaid'
  BY <1>1, PaidStays
<1>7. RoomLeft'
  BY <1>1, <1>3, RoomStays
<1> QED BY <1>3, <1>4, <1>5, <1>6, <1>7 DEF BazaarInv

(* The inductive invariant of the facilitator holds in every state, for    *)
(* any requests, outputs, configurations, connections and faults           *)
(* (src/bazaar: service.go, verify.go, store.go, discovery.go).            *)
THEOREM BazaarInvariant == Spec => []BazaarInv
  BY InitHolds, NextHolds, PTL DEF Spec

(* Every variable keeps its type: in particular what submissions and       *)
(* settled payments catalogue is always an entry of type http or mcp       *)
(* (toResource, harvestBazaar).                                            *)
THEOREM BazaarTypeOK == Spec => []TypeOK
<1>1. BazaarInv => TypeOK
  BY DEF BazaarInv, StateInv
<1> QED BY <1>1, BazaarInvariant, PTL

(* The facilitator vouches for and notarizes only payments of exactly the  *)
(* accepted amount to the accepted address, for any list of outputs        *)
(* (checkAny, lookupDeposit, Store.Settle).                                *)
THEOREM OnlyPaidIsNotarized == Spec => []NotarizedIsPaid
<1>1. BazaarInv => NotarizedIsPaid
  BY DEF BazaarInv
<1> QED BY <1>1, BazaarInvariant, PTL

(* All successful answers of /settle for one payment are the same, however *)
(* many connections present it and however often the service restarts      *)
(* (Store.Settle, GetSettlement).                                          *)
THEOREM AnswersAlwaysAgree == Spec => []AnswersAgree
<1>1. BazaarInv => AnswersAgree
  BY DEF BazaarInv, Answered, AnswersAgree
<1> QED BY <1>1, BazaarInvariant, PTL

(* A retry of a payment that was notarized when it arrived is answered     *)
(* with the notarization unless the store fails it (settle).               *)
THEOREM ReplaysAreServed == Spec => []ReplayIsServed
<1>1. BazaarInv => ReplayIsServed
  BY DEF BazaarInv, Replayed, ReplayIsServed
<1> QED BY <1>1, BazaarInvariant, PTL

(* Submissions overrun the limit of the index by no more than the other    *)
(* connections and the failed counts (indexFull, handleSubmit).            *)
THEOREM IndexStaysBounded == Spec => []IndexBounded
<1>1. BazaarInv => IndexBounded
  <2> SUFFICES ASSUME BazaarInv PROVE IndexBounded
    OBVIOUS
  <2>1. ConnOK /\ IndexOK /\ RoomLeft
    BY StateSplit DEF BazaarInv
  <2> DEFINE N == Cardinality(DOMAIN index \ harvested)
             P == Cardinality(Pending)
             R == cfg.maxResources + Cardinality(Conn) - 1 + faults
  <2>2. N \in Nat /\ P \in Nat /\ Cardinality(Conn) \in Nat
    BY <2>1, RoomTyped
  <2>3. R \in Int
    BY <2>1, <2>2, ConfigTyped DEF ConnOK
  <2>4. N + P <= R
    BY <2>1 DEF RoomLeft
  <2> HIDE DEF N, P, R
  <2>5. N <= R
    BY <2>2, <2>3, <2>4
  <2> QED BY <2>5 DEF IndexBounded, N, R
<1> QED BY <1>1, BazaarInvariant, PTL

(* A reader that walks the list while it grows gets everything that was    *)
(* indexed when it began (filterResources, paginate).                      *)
THEOREM WalksMissNothing == Spec => []WalkMissesNothing
<1>1. BazaarInv => WalkMissesNothing
  BY DEF BazaarInv, WalkAhead
<1> QED BY <1>1, BazaarInvariant, PTL

=============================================================================
