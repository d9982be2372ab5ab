---------------------------- MODULE GatewayProofs ----------------------------
(***************************************************************************)
(* For every service, every set of caveats holders may append and every    *)
(* configuration of upstreams: attenuation never widens a credential, a    *)
(* 402 describes the upstream that serves, and nothing priced runs unpaid. *)
(***************************************************************************)
EXTENDS Gateway, TLAPS

(* What appending c to cs keeps: the positions before it, what they hold   *)
(* and which of them hold successive values of one condition.              *)
Extends(cs, c, ds) ==
  /\ ds \in Seq(Caveat)
  /\ Len(cs) \in Nat
  /\ Len(ds) = Len(cs) + 1
  /\ ds[Len(ds)] = c
  /\ \A i \in 1 .. Len(cs) : i \in 1 .. Len(ds) /\ ds[i] = cs[i]
  /\ \A i, j \in 1 .. Len(cs) : Successive(cs, i, j) => Successive(ds, i, j)
  /\ \A i \in 1 .. Len(cs) :
       LastValue(cs, i) =>
         LastValue(ds, i) \/ (SameCond(c, cs[i]) /\ Successive(ds, i, Len(ds))
                              /\ LastValue(ds, Len(ds)))

(* Appending keeps what Extends lists.                                     *)
LEMMA AppendKeeps ==
  ASSUME NEW cs \in Seq(Caveat), NEW c \in Caveat, NEW ds, ds = Append(cs, c)
  PROVE  Extends(cs, c, ds)
<1>1. ds \in Seq(Caveat) /\ Len(cs) \in Nat /\ Len(ds) = Len(cs) + 1 /\ ds[Len(ds)] = c
  OBVIOUS
<1>2. \A i \in 1 .. Len(cs) : i \in 1 .. Len(ds) /\ ds[i] = cs[i]
  OBVIOUS
<1>3. ASSUME NEW i \in 1 .. Len(cs), NEW j \in 1 .. Len(cs), Successive(cs, i, j)
      PROVE  Successive(ds, i, j)
  <2>1. \A k \in i + 1 .. j - 1 : k \in 1 .. Len(cs) /\ ds[k] = cs[k]
    BY <1>1, <1>2
  <2> QED BY <1>2, <1>3, <2>1 DEF Successive
<1>4. ASSUME NEW i \in 1 .. Len(cs), LastValue(cs, i)
      PROVE  LastValue(ds, i) \/ (SameCond(c, cs[i]) /\ Successive(ds, i, Len(ds))
                                  /\ LastValue(ds, Len(ds)))
  <2>1. \A k \in i + 1 .. Len(cs) : ~SameCond(ds[k], ds[i])
    BY <1>1, <1>2, <1>4 DEF LastValue
  <2>2. CASE SameCond(c, cs[i])
    <3>1. ds[i] = cs[i] /\ i < Len(ds)
      BY <1>1, <1>2
    <3>2. SameCond(ds[i], ds[Len(ds)])
      BY <1>1, <2>2, <3>1 DEF SameCond
    <3>3. \A k \in i + 1 .. Len(ds) - 1 : ~SameCond(ds[k], ds[Len(ds)])
      BY <1>1, <2>1, <3>2 DEF SameCond
    <3>4. LastValue(ds, Len(ds))
      BY <1>1 DEF LastValue
    <3> QED BY <2>2, <3>1, <3>2, <3>3, <3>4 DEF Successive
  <2>3. CASE ~SameCond(c, cs[i])
    <3>1. \A k \in i + 1 .. Len(ds) : k \in i + 1 .. Len(cs) \/ k = Len(ds)
      BY <1>1
    <3>2. ds[i] = cs[i]
      BY <1>2
    <3> QED BY <1>1, <2>1, <2>3, <3>1, <3>2 DEF LastValue
  <2> QED BY <2>2, <2>3
<1> QED BY <1>1, <1>2, <1>3, <1>4 DEF Extends

(* The services: what the last list holds, every list before it holds.     *)
LEMMA ServicesNarrow ==
  ASSUME NEW cs \in Seq(Caveat), NEW c \in Caveat, NEW ds, ds = Append(cs, c),
         NEW service, verifyServicesChain(ds, service)
  PROVE  verifyServicesChain(cs, service)
<1>0. Extends(cs, c, ds)
  BY AppendKeeps
<1>1. ListsShrink(cs, "services")
  BY <1>0 DEF Extends, ListsShrink, verifyServicesChain
<1>2. ASSUME NEW i \in 1 .. Len(cs), cs[i].kind = "services", LastValue(cs, i)
      PROVE  service \in cs[i].list
  <2>1. ds[i] = cs[i] /\ i \in 1 .. Len(ds) /\ Len(ds) \in 1 .. Len(ds)
    BY <1>0 DEF Extends
  <2>2. CASE LastValue(ds, i)
    BY <1>2, <2>1, <2>2 DEF verifyServicesChain
  <2>3. CASE SameCond(c, cs[i]) /\ Successive(ds, i, Len(ds)) /\ LastValue(ds, Len(ds))
    <3>1. ds[Len(ds)].kind = "services"
      BY <1>0, <1>2, <2>3 DEF Extends, SameCond
    <3>2. service \in ds[Len(ds)].list
      BY <2>1, <2>3, <3>1 DEF verifyServicesChain
    <3>3. ds[Len(ds)].list \subseteq ds[i].list
      BY <1>2, <2>1, <2>3 DEF verifyServicesChain, ListsShrink
    <3> QED BY <2>1, <3>2, <3>3
  <2> QED BY <1>0, <1>2, <2>2, <2>3 DEF Extends
<1> QED BY <1>1, <1>2 DEF verifyServicesChain

(* The times: a last value that is in the future has no earlier one that   *)
(* is not.                                                                 *)
LEMMA TimeNarrows ==
  ASSUME NEW cs \in Seq(Caveat), NEW c \in Caveat, NEW ds, ds = Append(cs, c),
         NEW t \in Nat, verifyValidUntilChain(ds, t)
  PROVE  verifyValidUntilChain(cs, t)
<1>0. Extends(cs, c, ds)
  BY AppendKeeps
<1>1. ASSUME NEW i \in 1 .. Len(cs), NEW j \in 1 .. Len(cs),
             Successive(cs, i, j), cs[i].kind = "valid_until"
      PROVE  cs[j].time <= cs[i].time
  BY <1>0, <1>1 DEF Extends, verifyValidUntilChain
<1>2. ASSUME NEW i \in 1 .. Len(cs), cs[i].kind = "valid_until", LastValue(cs, i)
      PROVE  t < cs[i].time
  <2>1. ds[i] = cs[i] /\ i \in 1 .. Len(ds) /\ Len(ds) \in 1 .. Len(ds)
    BY <1>0 DEF Extends
  <2>2. CASE LastValue(ds, i)
    BY <1>2, <2>1, <2>2 DEF verifyValidUntilChain
  <2>3. CASE SameCond(c, cs[i]) /\ Successive(ds, i, Len(ds)) /\ LastValue(ds, Len(ds))
    <3>1. ds[Len(ds)].kind = "valid_until" /\ ds[Len(ds)] \in Caveat /\ ds[i] \in Caveat
      BY <1>0, <1>2, <2>1, <2>3 DEF Extends, SameCond
    <3>2. ds[Len(ds)].time \in Nat /\ ds[i].time \in Nat
      BY <1>2, <2>1, <3>1 DEF Caveat, ListCaveat, TimeCaveat, PlainCaveat
    <3>3. t < ds[Len(ds)].time
      BY <2>1, <2>3, <3>1 DEF verifyValidUntilChain
    <3>4. ds[Len(ds)].time <= ds[i].time
      BY <1>2, <2>1, <2>3 DEF verifyValidUntilChain
    <3> QED BY <2>1, <3>2, <3>3, <3>4
  <2> QED BY <1>0, <1>2, <2>2, <2>3 DEF Extends
<1> QED BY <1>1, <1>2 DEF verifyValidUntilChain

(* verifyCaveats accepts no extension of caveats that name a service and   *)
(* that it does not accept itself, when no capability is asked for.        *)
LEMMA CaveatsNarrow ==
  ASSUME NEW cs \in Seq(Caveat), NEW c \in Caveat, NEW t \in Nat,
         cs # <<>>, cs[1].kind = "services",
         verifyCaveats(Append(cs, c), Service, NoName, t)
  PROVE  verifyCaveats(cs, Service, NoName, t)
<1> DEFINE ds == Append(cs, c)
<1>0. Extends(cs, c, ds)
  BY AppendKeeps
<1>1. /\ \A i \in 1 .. Len(ds) : ds[i].kind # "malformed"
      /\ verifyServicesChain(ds, Service)
      /\ verifyValidUntilChain(ds, t)
      /\ verifyCapsChain(ds, Service, NoName)
  BY DEF verifyCaveats
<1>2. ds = Append(cs, c)
  OBVIOUS
<1> HIDE DEF ds
<1>3. \A i \in 1 .. Len(cs) : cs[i].kind # "malformed"
  BY <1>0, <1>1 DEF Extends
<1>4. verifyServicesChain(cs, Service)
  BY <1>1, <1>2, ServicesNarrow
<1>5. verifyValidUntilChain(cs, t)
  BY <1>1, <1>2, TimeNarrows
<1>6. verifyCapsChain(cs, Service, NoName)
  BY <1>0, <1>1 DEF Extends, ListsShrink, verifyCapsChain
<1>7. 1 \in 1 .. Len(cs)
  OBVIOUS
<1> QED BY <1>3, <1>4, <1>5, <1>6, <1>7 DEF verifyCaveats

-----------------------------------------------------------------------------
(* Credentials in circulation were minted here: they are well formed, and  *)
(* their first caveat names a service.                                     *)
Genuine ==
  \A m \in held :
    /\ m.caveats \in Seq(Caveat)
    /\ m.caveats # <<>> /\ m.caveats[1].kind = "services"
    /\ m.sig = chain(RootKey, m.caveats)

IInv == now \in Nat /\ Genuine

(* A minted credential is genuine.                                         *)
LEMMA MintGenuine ==
  ASSUME now \in Nat
  PROVE  /\ Minted \in Seq(Caveat)
         /\ Minted # <<>> /\ Minted[1].kind = "services"
<1>1. ServicesCaveat({Service}) \in Caveat
  BY GatewayAssumption DEF ServicesCaveat, Caveat, ListCaveat
<1>2. CapabilitiesCaveat(Service, Capabilities) \in Caveat
  BY GatewayAssumption DEF CapabilitiesCaveat, Caveat, ListCaveat
<1>3. ValidUntilCaveat(Service, now + TTL) \in Caveat
  <2>1. now + TTL \in Nat
    BY GatewayAssumption
  <2> QED BY <2>1, GatewayAssumption DEF ValidUntilCaveat, Caveat, TimeCaveat
<1>4. ServicesCaveat({Service}).kind = "services"
  BY DEF ServicesCaveat
<1> QED BY <1>1, <1>2, <1>3, <1>4 DEF Minted

(* Genuine holds initially and is kept by every step.                      *)
LEMMA GenuineInvariant == Spec => []IInv
<1>1. Init => IInv
  BY DEF Init, IInv, Genuine
<1>2. IInv /\ [Next]_vars => IInv'
  <2> SUFFICES ASSUME IInv, [Next]_vars PROVE IInv'
    OBVIOUS
  <2>1. CASE Topup
    <3>1. held' = {Mint(RootKey, Minted)} /\ now' = now
      BY <2>1 DEF Topup
    <3>2. /\ Minted \in Seq(Caveat)
          /\ Minted # <<>> /\ Minted[1].kind = "services"
      BY MintGenuine DEF IInv
    <3> QED BY <3>1, <3>2 DEF IInv, Genuine, Mint
  <2>2. CASE Delegate
    <3>1. PICK m \in held, c \in Added : held' = held \cup {Attenuate(m, c)}
      BY <2>2 DEF Delegate
    <3>2. /\ m.caveats \in Seq(Caveat) /\ m.caveats # <<>>
          /\ m.caveats[1].kind = "services" /\ m.sig = chain(RootKey, m.caveats)
      BY DEF IInv, Genuine
    <3>3. c \in Caveat
      BY GatewayAssumption
    <3> DEFINE d == Append(m.caveats, c)
    <3>4. d \in Seq(Caveat) /\ d # <<>> /\ d[1].kind = "services"
      BY <3>2, <3>3
    <3>5. Attenuate(m, c).caveats = d /\ Attenuate(m, c).sig = chain(RootKey, d)
      BY <3>2 DEF Attenuate, chain
    <3> HIDE DEF d
    <3>6. now' = now
      BY <2>2 DEF Delegate
    <3> QED BY <3>1, <3>4, <3>5, <3>6 DEF IInv, Genuine
  <2>3. CASE Tick
    BY <2>3 DEF Tick, IInv, Genuine
  <2>4. CASE RevokeCredential
    BY <2>4 DEF RevokeCredential, IInv, Genuine
  <2>5. CASE Restart
    BY <2>5 DEF Restart, IInv, Genuine
  <2>6. CASE \E path \in Path : \E u \in ServedBy[path] : HttpServe(u, path)
    <3>1. \A u, method, path : HttpFree(u, method, path) => UNCHANGED <<now, held>>
      BY DEF HttpFree
    <3>2. \A u, method, path : HttpChallenge(u, method, path) => UNCHANGED <<now, held>>
      BY DEF HttpChallenge
    <3>3. \A u, method, path, m : HttpCredits(u, method, path, m) => UNCHANGED <<now, held>>
      BY DEF HttpCredits
    <3>4. \A u, method, path, m : HttpToken(u, method, path, m) => UNCHANGED <<now, held>>
      BY DEF HttpToken
    <3>5. \A u, method, path, atoms :
            HttpProof(u, method, path, atoms) => UNCHANGED <<now, held>>
      BY DEF HttpProof
    <3>6. UNCHANGED <<now, held>>
      BY <2>6, <3>1, <3>2, <3>3, <3>4, <3>5, Zenon DEF HttpServe
    <3> QED BY <3>6 DEF IInv, Genuine
  <2>7. CASE \E path \in Path : \E u \in ServedBy[path] : McpServe(u, path)
    <3>1. \A u, path, b, run : McpForward(u, path, b, run) => UNCHANGED <<now, held>>
      BY DEF McpForward
    <3>2. \A u, path, b, run, m : McpCredits(u, path, b, run, m) => UNCHANGED <<now, held>>
      BY DEF McpCredits
    <3>3. \A u, path, b, run, atoms :
            McpProof(u, path, b, run, atoms) => UNCHANGED <<now, held>>
      BY DEF McpProof
    <3>4. UNCHANGED <<now, held>>
      BY <2>7, <3>1, <3>2, <3>3, Zenon DEF McpServe
    <3> QED BY <3>4 DEF IInv, Genuine
  <2>8. CASE UNCHANGED vars
    BY <2>8 DEF vars, IInv, Genuine
  <2> QED BY <2>1, <2>2, <2>3, <2>4, <2>5, <2>6, <2>7, <2>8, Zenon DEF Next
<1> QED BY <1>1, <1>2, PTL DEF Spec

(* A credential in circulation is one the gate minted, extended by what    *)
(* its holders appended: verifyCaveats accepts the extension only if it    *)
(* accepts the credential it was derived from, at every time.              *)
THEOREM AttenuationTheorem == Spec => []AttenuationNarrows
<1>1. IInv => AttenuationNarrows
  <2> SUFFICES ASSUME IInv, NEW m \in held, NEW c \in Added,
                      authorizeToken(Attenuate(m, c))
               PROVE  authorizeToken(m)
    BY DEF AttenuationNarrows
  <2>1. /\ m.caveats \in Seq(Caveat) /\ m.caveats # <<>>
        /\ m.caveats[1].kind = "services" /\ m.sig = chain(RootKey, m.caveats)
    BY DEF IInv, Genuine
  <2>2. c \in Caveat /\ now \in Nat
    BY GatewayAssumption DEF IInv
  <2>3. key /\ verifyCaveats(Append(m.caveats, c), Service, NoName, now)
    BY DEF authorizeToken, VerifyToken, Attenuate
  <2>4. verifyCaveats(m.caveats, Service, NoName, now)
    BY <2>1, <2>2, <2>3, CaveatsNarrow
  <2> QED BY <2>1, <2>3, <2>4 DEF authorizeToken, VerifyToken, VerifySignature
<1> QED BY <1>1, GenuineInvariant, PTL

-----------------------------------------------------------------------------
(* A resolved price is a natural number.                                   *)
LEMMA PriceForType ==
  ASSUME prices \in ResolveUpstreams, NEW u \in Upstreams, NEW method, NEW path
  PROVE  PriceFor(u, method, path) \in Nat
<1> DEFINE k == PriceKey(method, path)
<1>1. prices[u] \in Resolved(u)
  BY DEF ResolveUpstreams
<1>2. u.priceDefault \in Nat
  BY GatewayAssumption
<1>3. ASSUME k \in DOMAIN prices[u]
      PROVE  prices[u][k] \in Nat
  <2>1. PICK e \in u.prices : e.atoms = prices[u][k]
    BY <1>1, <1>3 DEF Resolved
  <2>2. e.atoms \in Nat \ {0}
    BY GatewayAssumption
  <2> QED BY <2>1, <2>2
<1> HIDE DEF k
<1>4. (IF k \in DOMAIN prices[u] THEN prices[u][k] ELSE u.priceDefault) \in Nat
  BY <1>2, <1>3
<1> QED BY <1>4 DEF PriceFor, k

(* So is the price of a tool.                                              *)
LEMMA ToolPriceForType ==
  ASSUME NEW u \in Upstreams, NEW tool
  PROVE  ToolPriceFor(u, tool) \in Nat
<1>1. ASSUME \E e \in u.toolPrices : e.tool = tool
      PROVE  (CHOOSE e \in u.toolPrices : e.tool = tool).atoms \in Nat
  <2> DEFINE d == CHOOSE e \in u.toolPrices : e.tool = tool
  <2>1. d \in u.toolPrices
    BY <1>1
  <2> HIDE DEF d
  <2>2. d.atoms \in Nat
    BY <2>1, GatewayAssumption
  <2> QED BY <2>2 DEF d
<1>2. u.toolPriceDefault \in Nat
  BY GatewayAssumption
<1> QED BY <1>1, <1>2 DEF ToolPriceFor

(* A charge leaves a balance between nothing and what was granted.         *)
LEMMA ChargeType ==
  ASSUME balance \in 0 .. Credit, NEW m, NEW atoms \in Nat, ChargeCredential(m, atoms)
  PROVE  balance' \in 0 .. Credit
BY GatewayAssumption DEF ChargeCredential

(* The part of the type invariant requests can disturb.                    *)
Serving ==
  /\ key \in BOOLEAN
  /\ balance \in 0 .. Credit
  /\ prices \in ResolveUpstreams
  /\ ran.up \in Upstreams \cup {NoUpstream}

(* Requests keep it: a handler charges a price it resolved, once.          *)
LEMMA RequestsServe ==
  ASSUME Serving,
         NEW path \in Path, NEW u \in ServedBy[path],
         \/ HttpServe(u, path)
         \/ McpServe(u, path)
  PROVE  Serving'
<1>0. u \in Upstreams
  BY DEF ServedBy
<1>1. \A did, how, atoms, genuine, clear : Did(u, did, how, atoms, genuine, clear) =>
        ran'.up \in Upstreams \cup {NoUpstream}
  BY <1>0 DEF Did
<1>2. ASSUME NEW method \in Method, HttpFree(u, method, path)
      PROVE  Serving'
  BY <1>1, <1>2 DEF HttpFree, Serving
<1>3. ASSUME NEW method \in Method, HttpChallenge(u, method, path)
      PROVE  Serving'
  <2>1. ran'.up = u
    BY <1>3 DEF HttpChallenge, None
  <2> QED BY <1>0, <1>3, <2>1 DEF HttpChallenge, Serving
<1>4. ASSUME NEW method \in Method, NEW m \in Presented, HttpCredits(u, method, path, m)
      PROVE  Serving'
  <2>1. PriceFor(u, method, path) \in Nat
    BY <1>0, PriceForType DEF Serving
  <2>2. balance' \in 0 .. Credit
    BY <1>4, <2>1, ChargeType DEF HttpCredits, Serving
  <2> QED BY <1>1, <1>4, <2>2 DEF HttpCredits, Serving
<1>5. ASSUME NEW method \in Method, NEW m \in Presented, HttpToken(u, method, path, m)
      PROVE  Serving'
  BY <1>1, <1>5 DEF HttpToken, Serving
<1>6. ASSUME NEW method \in Method, NEW atoms \in Proof, HttpProof(u, method, path, atoms)
      PROVE  Serving'
  BY <1>1, <1>6 DEF HttpProof, Serving
<1>7. ASSUME NEW b, NEW run, McpForward(u, path, b, run)
      PROVE  Serving'
  BY <1>1, <1>7 DEF McpForward, Serving
<1>8. ASSUME NEW b, NEW run, NEW m \in Presented, McpCredits(u, path, b, run, m)
      PROVE  Serving'
  <2>1. ToolPriceFor(u, Called[b]) \in Nat
    BY <1>0, ToolPriceForType
  <2>2. balance' \in 0 .. Credit
    BY <1>8, <2>1, ChargeType DEF McpCredits, Serving
  <2> QED BY <1>1, <1>8, <2>2 DEF McpCredits, Serving
<1>9. ASSUME NEW b, NEW run, NEW atoms \in Proof, McpProof(u, path, b, run, atoms)
      PROVE  Serving'
  BY <1>1, <1>9 DEF McpProof, Serving
<1> QED BY <1>2, <1>3, <1>4, <1>5, <1>6, <1>7, <1>8, <1>9 DEF HttpServe, McpServe

(* The type invariant of the gateway; in particular no sequence of charges *)
(* takes the account of a credential below zero, whatever the prices.      *)
THEOREM TypeTheorem == Spec => []TypeOK
<1>1. Init => Serving
  <2>1. Credit \in Nat
    BY GatewayAssumption
  <2>2. None.up = NoUpstream
    BY DEF None
  <2>3. ASSUME Init PROVE Serving
    <3>1. 0 \in 0 .. Credit
      BY <2>1
    <3>2. key \in BOOLEAN
      BY <2>3 DEF Init
    <3>3. balance \in 0 .. Credit
      BY <2>3, <3>1 DEF Init
    <3>4. ran.up \in Upstreams \cup {NoUpstream}
      BY <2>2, <2>3 DEF Init
    <3>5. prices \in ResolveUpstreams
      BY <2>3 DEF Init
    <3> QED BY <3>2, <3>3, <3>4, <3>5 DEF Serving
  <2> QED BY <2>3
<1>2. Serving /\ [Next]_vars => Serving'
  <2> SUFFICES ASSUME Serving, [Next]_vars PROVE Serving'
    OBVIOUS
  <2>1. CASE Topup
    BY <2>1, GatewayAssumption DEF Topup, Serving
  <2>2. CASE Delegate
    BY <2>2 DEF Delegate, Serving
  <2>3. CASE RevokeCredential
    BY <2>3 DEF RevokeCredential, Serving
  <2>4. CASE Tick
    BY <2>4 DEF Tick, Serving
  <2>5. CASE Restart
    BY <2>5 DEF Restart, Serving, None
  <2>6. CASE UNCHANGED vars
    BY <2>6 DEF vars, Serving
  <2> QED BY <2>1, <2>2, <2>3, <2>4, <2>5, <2>6, RequestsServe DEF Next
<1>3. Serving /\ IInv => TypeOK
  BY DEF Serving, IInv, Genuine, TypeOK
<1> QED BY <1>1, <1>2, <1>3, GenuineInvariant, PTL DEF Spec

-----------------------------------------------------------------------------
(* Routes.  Both searches rank what begins a path by RouteLen.             *)

(* What Front cuts off.                                                    *)
LEMMA FrontFacts ==
  ASSUME NEW S, NEW t \in Seq(S), Len(t) > 0
  PROVE  /\ Front(t) \in Seq(S)
         /\ Len(Front(t)) = Len(t) - 1
         /\ \A i \in 1 .. Len(t) - 1 : Front(t)[i] = t[i]
<1> DEFINE n == Len(t) - 1
<1>1. n \in Nat /\ n <= Len(t)
  OBVIOUS
<1> HIDE DEF n
<1>2. SubSeq(t, 1, n) \in Seq(S) /\ Len(SubSeq(t, 1, n)) = n
  BY <1>1
<1>3. \A i \in 1 .. n : SubSeq(t, 1, n)[i] = t[i]
  BY <1>1
<1> QED BY <1>2, <1>3 DEF Front, n

(* Two distinct routes that one path matches have different lengths: an    *)
(* exact route is the path, a subtree is the path cut after a slash.       *)
LEMMA LongestIsUnique ==
  ASSUME NEW S, NEW p \in Seq(S), NEW r \in Seq(S), NEW s \in Seq(S),
         Len(p) > 0, Len(r) > 0, Len(s) > 0, Matches(r, p), Matches(s, p), RouteLen(r) = RouteLen(s)
  PROVE  r = s
<1>1. Len(p) \in Nat \ {0} /\ Len(r) \in Nat \ {0} /\ Len(s) \in Nat \ {0}
  OBVIOUS
<1>2. Len(r) = Len(s) /\ (Subtree(r) <=> Subtree(s))
  <2>1. ASSUME NEW a \in Nat, NEW b \in Nat, NEW i \in {0, 1}, NEW j \in {0, 1},
               2 * a + i = 2 * b + j
        PROVE  a = b /\ i = j
    BY <2>1
  <2> QED BY <1>1, <2>1 DEF RouteLen
<1>3. CASE Subtree(r)
  <2>1. ASSUME NEW t \in Seq(S), Len(t) > 0, Matches(t, p), Subtree(t)
        PROVE  \A i \in 1 .. Len(t) - 1 : i \in 1 .. Len(p) /\ t[i] = p[i]
    <3>1. CASE t = p
      BY <3>1
    <3>2. CASE Len(t) <= Len(p) /\ IsPrefix(Front(t), p)
      <4>1. Len(Front(t)) = Len(t) - 1 /\ \A i \in 1 .. Len(t) - 1 : Front(t)[i] = t[i]
        BY <2>1, FrontFacts
      <4>2. SubSeq(Front(t), 1, Len(t) - 1) = SubSeq(p, 1, Len(t) - 1)
        BY <3>2, <4>1 DEF IsPrefix
      <4>3. Front(t) \in Seq(S)
        BY <2>1, FrontFacts
      <4>4. \A i \in 1 .. Len(t) - 1 : SubSeq(p, 1, Len(t) - 1)[i] = p[i]
        BY <1>1, <3>2
      <4>5. \A i \in 1 .. Len(t) - 1 : SubSeq(Front(t), 1, Len(t) - 1)[i] = Front(t)[i]
        BY <4>1, <4>3
      <4> QED BY <1>1, <3>2, <4>1, <4>2, <4>4, <4>5
    <3> QED BY <2>1, <3>1, <3>2 DEF Matches
  <2>2. \A i \in 1 .. Len(r) - 1 : r[i] = s[i]
    BY <1>2, <1>3, <2>1
  <2>3. r[Len(r)] = s[Len(s)]
    BY <1>2, <1>3 DEF Subtree, Last
  <2>4. \A i \in 1 .. Len(r) : r[i] = s[i]
    BY <1>1, <1>2, <2>2, <2>3
  <2> QED BY <1>2, <2>4
<1>4. CASE ~Subtree(r)
  BY <1>2, <1>4 DEF Matches
<1> QED BY <1>3, <1>4

(* Among routes that are subtrees, or the path itself, the prefix search   *)
(* and the multiplexer agree on what begins the path.                      *)
LEMMA PrefixIsMatch ==
  ASSUME NEW S, NEW p \in Seq(S), NEW r \in Seq(S), Len(p) > 0, Len(r) > 0,
         Subtree(r) \/ r = p \/ ~HasPrefix(p, r)
  PROVE  HasPrefix(p, r) <=> Matches(r, p)
<1>1. Len(p) \in Nat \ {0} /\ Len(r) \in Nat \ {0}
  OBVIOUS
<1>2. ASSUME Matches(r, p) PROVE HasPrefix(p, r)
  BY <1>1, <1>2 DEF Matches, HasPrefix, IsPrefix
<1>3. ASSUME HasPrefix(p, r), Subtree(r), IsPrefix(r, p) PROVE Matches(r, p)
  <2>1. Len(r) <= Len(p) /\ SubSeq(r, 1, Len(r)) = SubSeq(p, 1, Len(r))
    BY <1>3 DEF IsPrefix
  <2> DEFINE n == Len(r) - 1
  <2>2. n \in Nat /\ n <= Len(r) /\ n <= Len(p)
    BY <1>1, <2>1
  <2>3. \A i \in 1 .. n : r[i] = p[i]
    <3>1. \A i \in 1 .. Len(r) : SubSeq(r, 1, Len(r))[i] = r[i]
      BY <1>1
    <3>2. \A i \in 1 .. Len(r) : SubSeq(p, 1, Len(r))[i] = p[i]
      BY <1>1, <2>1
    <3> QED BY <1>1, <2>1, <3>1, <3>2
  <2>4. Len(Front(r)) = n /\ Front(r) \in Seq(S)
    BY FrontFacts
  <2>5. \A i \in 1 .. n : Front(r)[i] = r[i]
    BY FrontFacts
  <2>6. SubSeq(Front(r), 1, n) = SubSeq(p, 1, n)
    <3>1. \A i \in 1 .. n : SubSeq(Front(r), 1, n)[i] = Front(r)[i]
      BY <2>2, <2>4
    <3>2. \A i \in 1 .. n : SubSeq(p, 1, n)[i] = p[i]
      BY <2>2
    <3>3. Len(SubSeq(Front(r), 1, n)) = n /\ Len(SubSeq(p, 1, n)) = n
      BY <2>2, <2>4
    <3>4. SubSeq(Front(r), 1, n) \in Seq(S) /\ SubSeq(p, 1, n) \in Seq(S)
      BY <2>2, <2>4
    <3> HIDE DEF n
    <3> QED BY <2>2, <2>3, <2>5, <3>1, <3>2, <3>3, <3>4
  <2>7. IsPrefix(Front(r), p)
    BY <2>2, <2>4, <2>6 DEF IsPrefix
  <2> QED BY <1>3, <2>1, <2>7 DEF Matches
<1>4. ASSUME HasPrefix(p, r) PROVE Matches(r, p)
  BY <1>3, <1>4 DEF HasPrefix, Matches
<1> QED BY <1>2, <1>4

(* upFor finds the upstream the path is dispatched to.                     *)
LEMMA UpForServes ==
  ASSUME NEW p \in Path, NEW u \in Upstreams, Dispatched(p, u),
         \A v \in Upstreams : Subtree(v.route) \/ v.route = p \/ ~HasPrefix(p, v.route)
  PROVE  upFor(p) = u
<1> DEFINE Best(v) ==
      IF \E w \in Upstreams : HasPrefix(p, w.route)
      THEN /\ v \in Upstreams /\ HasPrefix(p, v.route)
           /\ \A w \in Upstreams : HasPrefix(p, w.route) => RouteLen(w.route) <= RouteLen(v.route)
      ELSE v = NoUpstream
<1>1. /\ p \in Seq(STRING) /\ Len(p) > 0
      /\ \A v \in Upstreams : v.route \in Seq(STRING) /\ Len(v.route) > 0
  BY RequestAssumption
<1>2. \A v \in Upstreams : HasPrefix(p, v.route) <=> Matches(v.route, p)
  BY <1>1, PrefixIsMatch
<1>3. Matches(u.route, p)
      /\ \A v \in Upstreams : Matches(v.route, p) => RouteLen(v.route) <= RouteLen(u.route)
  BY DEF Dispatched
<1>4. Best(u)
  BY <1>2, <1>3
<1>5. ASSUME NEW v \in Upstreams \cup {NoUpstream}, Best(v)
      PROVE  v = u
  <2>1. /\ v \in Upstreams /\ HasPrefix(p, v.route)
        /\ RouteLen(u.route) <= RouteLen(v.route)
    BY <1>2, <1>3, <1>5
  <2>2. RouteLen(v.route) <= RouteLen(u.route)
    BY <1>2, <1>3, <2>1
  <2>3. RouteLen(u.route) \in Nat /\ RouteLen(v.route) \in Nat
    <3>1. ASSUME NEW S, NEW r \in Seq(S) PROVE RouteLen(r) \in Nat
      BY DEF RouteLen
    <3> QED BY <1>1, <2>1, <3>1
  <2>4. RouteLen(u.route) = RouteLen(v.route)
    BY <2>1, <2>2, <2>3
  <2>5. u.route = v.route
    BY <1>1, <1>2, <1>3, <2>1, <2>4, LongestIsUnique
  <2> QED BY <2>1, <2>5, GatewayAssumption
<1>6. upFor(p) = CHOOSE v \in Upstreams \cup {NoUpstream} : Best(v)
  BY DEF upFor
<1> HIDE DEF Best
<1> QED BY <1>4, <1>5, <1>6

(* What the last challenge described was dispatched: the route table does  *)
(* not change while the gateway runs.                                      *)
Described ==
  ran.how = "challenge" =>
    ran.path \in Path /\ ran.up \in Upstreams /\ Dispatched(ran.path, ran.up)

(* Only HttpChallenge records a challenge, of the upstream that serves.    *)
LEMMA RequestsDescribe ==
  ASSUME NEW path \in Path, NEW u \in ServedBy[path],
         \/ HttpServe(u, path)
         \/ McpServe(u, path)
  PROVE  Described'
<1>1. u \in Upstreams /\ Dispatched(path, u)
  BY DEF ServedBy
<1>2. \A did, how, atoms, genuine, clear :
        Did(u, did, how, atoms, genuine, clear) => ran'.how = how
  BY DEF Did
<1>3. ASSUME NEW method \in Method, HttpChallenge(u, method, path)
      PROVE  Described'
  <2>1. ran'.up = u /\ ran'.path = path
    BY <1>3 DEF HttpChallenge, None
  <2> QED BY <1>1, <2>1 DEF Described
<1>4. ASSUME \/ \E method \in Method :
                  \/ HttpFree(u, method, path)
                  \/ \E m \in Presented : \/ HttpCredits(u, method, path, m)
                                          \/ HttpToken(u, method, path, m)
                  \/ \E atoms \in Proof : HttpProof(u, method, path, atoms)
             \/ McpServe(u, path)
      PROVE  ran'.how \in {"free", "credit", "token", "proof"}
  <2>1. ASSUME NEW method \in Method, HttpFree(u, method, path) PROVE ran'.how = "free"
    BY <1>2, <2>1 DEF HttpFree
  <2>2. ASSUME NEW method \in Method, NEW m, HttpCredits(u, method, path, m)
        PROVE  ran'.how = "credit"
    BY <1>2, <2>2 DEF HttpCredits
  <2>3. ASSUME NEW method \in Method, NEW m, HttpToken(u, method, path, m)
        PROVE  ran'.how = "token"
    BY <1>2, <2>3 DEF HttpToken
  <2>4. ASSUME NEW method \in Method, NEW atoms, HttpProof(u, method, path, atoms)
        PROVE  ran'.how = "proof"
    BY <1>2, <2>4 DEF HttpProof
  <2>5. ASSUME NEW b, NEW run, McpForward(u, path, b, run) PROVE ran'.how = "free"
    BY <1>2, <2>5 DEF McpForward
  <2>6. ASSUME NEW b, NEW run, NEW m, McpCredits(u, path, b, run, m)
        PROVE  ran'.how = "credit"
    BY <1>2, <2>6 DEF McpCredits
  <2>7. ASSUME NEW b, NEW run, NEW atoms, McpProof(u, path, b, run, atoms)
        PROVE  ran'.how = "proof"
    BY <1>2, <2>7 DEF McpProof
  <2> QED BY <1>4, <2>1, <2>2, <2>3, <2>4, <2>5, <2>6, <2>7 DEF McpServe
<1>5. ASSUME ran'.how \in {"free", "credit", "token", "proof"} PROVE Described'
  BY <1>5 DEF Described
<1> QED BY <1>3, <1>4, <1>5 DEF HttpServe

(* The upstream a 402 describes, found by the prefix search of Build, is   *)
(* the one the multiplexer hands the request to, for every route table and *)
(* every path that no route without a trailing slash begins.               *)
THEOREM ChallengeNamesServer == Spec => []AdvertisedIsServing
<1>1. Init => Described
  BY DEF Init, None, Described
<1>2. Described /\ [Next]_vars => Described'
  <2> SUFFICES ASSUME Described, [Next]_vars PROVE Described'
    OBVIOUS
  <2>1. CASE UNCHANGED ran
    BY <2>1 DEF Described, Dispatched
  <2>2. CASE Restart
    BY <2>2 DEF Restart, None, Described
  <2>3. (Topup \/ Delegate \/ RevokeCredential \/ Tick \/ UNCHANGED vars) => UNCHANGED ran
    BY DEF Topup, Delegate, RevokeCredential, Tick, vars
  <2> QED BY <2>1, <2>2, <2>3, RequestsDescribe DEF Next
<1>3. Described => AdvertisedIsServing
  <2> SUFFICES ASSUME Described, ran.how = "challenge",
                      \A u \in Upstreams : \/ Subtree(u.route)
                                           \/ u.route = ran.path
                                           \/ ~HasPrefix(ran.path, u.route)
               PROVE  upFor(ran.path) = ran.up
    BY DEF AdvertisedIsServing
  <2>1. ran.path \in Path /\ ran.up \in Upstreams /\ Dispatched(ran.path, ran.up)
    BY DEF Described
  <2> QED BY <2>1, UpForServes
<1> QED BY <1>1, <1>2, <1>3, PTL DEF Spec

-----------------------------------------------------------------------------
(* Prices and payments.                                                    *)

(* An accepted credential is one in circulation: what lost a caveat has a  *)
(* signature over more than it carries.                                    *)
LEMMA AcceptedIsHeld ==
  ASSUME Genuine, NEW m \in Presented, authorizeToken(m)
  PROVE  m \in held
<1>1. ASSUME NEW h \in held, m = LostCaveat(h) PROVE FALSE
  <2>1. h.caveats \in Seq(Caveat) /\ h.caveats # <<>> /\ h.sig = chain(RootKey, h.caveats)
    BY DEF Genuine
  <2>2. Len(h.caveats) > 0
    BY <2>1
  <2>3. Len(Front(h.caveats)) = Len(h.caveats) - 1
    BY <2>1, <2>2, FrontFacts
  <2>4. m.sig = h.sig /\ m.caveats = Front(h.caveats)
    BY <1>1 DEF LostCaveat
  <2>5. m.sig = chain(RootKey, m.caveats)
    BY DEF authorizeToken, VerifyToken, VerifySignature
  <2>6. h.caveats = Front(h.caveats)
    BY <2>1, <2>4, <2>5 DEF chain
  <2>7. Len(h.caveats) = Len(h.caveats) - 1
    BY <2>3, <2>6
  <2> QED BY <2>1, <2>7
<1> QED BY <1>1 DEF Presented

(* The price the HTTP handler finds is one the configuration asks for the  *)
(* resource, in whatever spelling both name it.                            *)
LEMMA HttpPriceIsAsked ==
  ASSUME prices \in ResolveUpstreams, NEW u \in Upstreams, ~u.mcp,
         NEW method \in Method, NEW path \in Path
  PROVE  PriceFor(u, method, path) \in Asked(u, <<ToUpper(method), Cleaned[path]>>)
<1> DEFINE k == <<ToUpper(method), Cleaned[path]>>
           Entry == [op |-> k, atoms |-> prices[u][k]]
<1>1. prices[u] \in Resolved(u)
  BY DEF ResolveUpstreams
<1>2. ToUpper(method) # ""
  BY RequestAssumption DEF ToUpper
<1>3. Listed[u] = {[op |-> <<ToUpper(e.method), cleanPath(e.path)>>, atoms |-> e.atoms] :
                     e \in {e \in u.prices : e.method # ""}}
  BY DEF Listed
<1>4. CASE k \in DOMAIN prices[u]
  <2>1. PICK e \in u.prices : normalizePriceKey(e) = k /\ e.atoms = prices[u][k]
    BY <1>1, <1>4 DEF Resolved
  <2>2. e.method # ""
    BY <1>2, <2>1 DEF normalizePriceKey
  <2>3. k = <<ToUpper(e.method), cleanPath(e.path)>>
    BY <2>1, <2>2 DEF normalizePriceKey
  <2>4. [op |-> <<ToUpper(e.method), cleanPath(e.path)>>, atoms |-> e.atoms] \in Listed[u]
    BY <1>3, <2>2
  <2>5. Entry \in Listed[u]
    BY <2>1, <2>3, <2>4
  <2>6. Entry.op = k /\ Entry.atoms = prices[u][k]
    OBVIOUS
  <2>7. PriceFor(u, method, path) = prices[u][k]
    BY <1>4 DEF PriceFor, PriceKey
  <2> HIDE DEF Entry, k
  <2>8. prices[u][k] \in {l.atoms : l \in {l \in Listed[u] : l.op = k}}
    BY <2>5, <2>6
  <2>9. Asked(u, k) = {l.atoms : l \in {l \in Listed[u] : l.op = k}}
    BY <2>5, <2>6 DEF Asked
  <2> QED BY <2>7, <2>8, <2>9 DEF k
<1>5. CASE k \notin DOMAIN prices[u]
  <2>1. DOMAIN prices[u] = {normalizePriceKey(e) : e \in u.prices}
    BY <1>1 DEF Resolved
  <2>2. ASSUME NEW l \in Listed[u], l.op = k PROVE FALSE
    <3>1. PICK e \in u.prices : /\ e.method # ""
                               /\ l = [op |-> <<ToUpper(e.method), cleanPath(e.path)>>,
                                       atoms |-> e.atoms]
      BY <1>3
    <3>2. normalizePriceKey(e) = k
      BY <2>2, <3>1 DEF normalizePriceKey
    <3> QED BY <1>5, <2>1, <3>2
  <2>3. PriceFor(u, method, path) = u.priceDefault
    BY <1>5 DEF PriceFor, PriceKey
  <2> HIDE DEF k
  <2>4. Asked(u, k) = {u.priceDefault}
    BY <2>2 DEF Asked
  <2> QED BY <2>3, <2>4 DEF k
<1> QED BY <1>4, <1>5

(* Of at most one member, spelled exactly, every reader reads the same.    *)
LEMMA OneReading ==
  ASSUME NEW V, NEW s \in Seq(Member(V)), NEW r \in Reader, NEW absent,
         AllExact(s), Len(s) <= 1
  PROVE  Reading(r, s, absent) = Reading(GoReader, s, absent)
<1> DEFINE found(q) == {i \in DOMAIN s : s[i].exact \/ ~q.exact}
<1>1. DOMAIN s = 1 .. Len(s) /\ Len(s) \in Nat
  OBVIOUS
<1>2. \A i \in DOMAIN s : s[i].exact
  BY DEF AllExact, ToSet
<1>3. \A q : found(q) = DOMAIN s
  BY <1>2
<1>4. CASE Len(s) = 0
  <2>1. DOMAIN s = {}
    BY <1>1, <1>4
  <2> HIDE DEF found
  <2>2. \A q : found(q) = {}
    BY <1>3, <2>1
  <2> QED BY <2>2, Zenon DEF Reading, found
<1>5. CASE Len(s) = 1
  <2>1. DOMAIN s = {1}
    BY <1>1, <1>5
  <2>2. Min(DOMAIN s) = 1 /\ Max(DOMAIN s) = 1
    BY <2>1 DEF Min, Max
  <2> HIDE DEF found
  <2>3. \A q : found(q) # {} /\ Min(found(q)) = 1 /\ Max(found(q)) = 1
    BY <1>3, <2>1, <2>2, Zenon
  <2>4. \A q : Reading(q, s, absent) =
                 IF found(q) = {} THEN absent
                 ELSE s[IF q.first THEN Min(found(q)) ELSE Max(found(q))].value
    BY DEF Reading, found
  <2>5. \A q : Reading(q, s, absent) = s[1].value
    BY <2>3, <2>4
  <2> QED BY <2>5
<1> QED BY <1>1, <1>4, <1>5

(* What a reader takes is the value of a member, or the default.           *)
LEMMA ReadingIsMember ==
  ASSUME NEW V, NEW s \in Seq(Member(V)), NEW absent, s # <<>>, AllExact(s), Len(s) <= 1
  PROVE  \E member \in ToSet(s) : Reading(GoReader, s, absent) = member.value
<1> DEFINE found == {i \in DOMAIN s : s[i].exact \/ ~GoReader.exact}
<1>0. DOMAIN s = 1 .. Len(s) /\ Len(s) = 1
  <2> DEFINE T == Member(V)
  <2>1. s \in Seq(T)
    OBVIOUS
  <2> HIDE DEF T
  <2>2. Len(s) \in Nat /\ Len(s) # 0 /\ DOMAIN s = 1 .. Len(s)
    BY <2>1
  <2> QED BY <2>2
<1>1. DOMAIN s = {1} /\ s[1].exact
  BY <1>0 DEF AllExact, ToSet
<1>2. found = {1}
  BY <1>1
<1>3. Max({1}) = 1
  BY DEF Max
<1>4. Reading(GoReader, s, absent) =
        IF found = {} THEN absent
        ELSE s[IF GoReader.first THEN Min(found) ELSE Max(found)].value
  BY DEF Reading
<1>5. ~GoReader.first
  BY DEF GoReader
<1> HIDE DEF found
<1>6. Reading(GoReader, s, absent) = s[1].value
  BY <1>2, <1>3, <1>4, <1>5
<1> QED BY <1>1, <1>6 DEF ToSet

(* A clear message that is one call runs the tool that was priced, and one *)
(* that is not a tool call runs none, whatever the upstream's reader.      *)
LEMMA ClearRuns ==
  ASSUME NEW b \in Body, NEW r \in Reader, Clear(r, b)
  PROVE  /\ b \in DOMAIN Called => Executed(r, b) \subseteq {Called[b]}
         /\ b \in Uncalled => Executed(r, b) = {}
<1>1. b \in BodyRec /\ (b.kind = "single" => Len(b.msgs) = 1)
  BY RequestAssumption
<1>2. b.msgs \in Seq(MessageRec)
  BY <1>1 DEF BodyRec
<1>3. \A msg \in ToSet(b.msgs) : msg \in MessageRec
  BY <1>2 DEF ToSet
<1>4. ASSUME NEW msg \in ToSet(b.msgs) PROVE IsCall(r, msg) = IsCall(GoReader, msg)
  <2>1. CASE r = GoReader
    BY <2>1
  <2>2. CASE Unambiguous(msg)
    <3>1. msg.methods \in Seq(Member(BOOLEAN))
      BY <1>3 DEF MessageRec
    <3> QED BY <2>2, <3>1, OneReading DEF Unambiguous, IsCall
  <2> QED BY <2>1, <2>2 DEF Clear
<1>5. ASSUME NEW msg \in ToSet(b.msgs), msg.params # <<>>,
             ~duplicateKey(Params(GoReader, msg))
      PROVE  ToolCalled(r, msg) = ToolCalled(GoReader, msg)
  <2>1. CASE r = GoReader
    BY <2>1
  <2>2. CASE Unambiguous(msg)
    <3> DEFINE V == Seq(Member(Tool))
               P == Params(GoReader, msg)
    <3>1. /\ msg.params \in Seq(Member(V))
          /\ AllExact(msg.params) /\ Len(msg.params) <= 1
      BY <1>3, <2>2 DEF MessageRec, Unambiguous
    <3>2. Params(r, msg) = P
      BY <3>1, OneReading DEF Params
    <3>3. PICK member \in ToSet(msg.params) : P = member.value
      BY <1>5, <3>1, ReadingIsMember DEF Params
    <3>4. P \in Seq(Member(Tool))
      <4> HIDE DEF P, V
      <4>1. \A i \in DOMAIN msg.params : msg.params[i] \in Member(V)
        BY <3>1
      <4>2. member \in Member(V)
        BY <4>1 DEF ToSet
      <4>3. member.value \in V
        BY <4>2 DEF Member
      <4> QED BY <3>3, <4>3 DEF V
    <3>5. AllExact(P)
      BY <2>2, <3>3 DEF Unambiguous
    <3>6. ~duplicateKey(P)
      BY <1>5
    <3> HIDE DEF P, V
    <3>7. Len(P) <= 1
      <4>1. \A i \in DOMAIN P : P[i].exact
        BY <3>5 DEF AllExact, ToSet
      <4>2. Len(P) > 1 => 1 \in DOMAIN P /\ 2 \in DOMAIN P
        BY <3>4
      <4> QED BY <3>4, <3>6, <4>1, <4>2 DEF duplicateKey
    <3>8. Reading(r, P, NoTool) = Reading(GoReader, P, NoTool)
      BY <3>4, <3>5, <3>7, OneReading
    <3> QED BY <3>2, <3>8 DEF ToolCalled, P
  <2> QED BY <2>1, <2>2 DEF Clear
<1>6. ASSUME b \in Uncalled PROVE Executed(r, b) = {}
  BY <1>4, <1>6 DEF Uncalled, Executed
<1>7. ASSUME b \in DOMAIN Called PROVE Executed(r, b) \subseteq {Called[b]}
  <2>1. SingleCall(b) /\ Called[b] = ToolCalled(GoReader, Head(b.msgs))
    BY <1>7 DEF Called
  <2>2. ToSet(b.msgs) = {Head(b.msgs)}
    <3>1. Len(b.msgs) = 1 /\ DOMAIN b.msgs = {1}
      BY <1>1, <1>2, <2>1 DEF SingleCall
    <3> QED BY <1>2, <3>1 DEF ToSet
  <2>3. ToolCalled(r, Head(b.msgs)) = ToolCalled(GoReader, Head(b.msgs))
    BY <1>5, <2>1, <2>2 DEF SingleCall
  <2> QED BY <2>1, <2>2, <2>3 DEF Executed
<1> QED BY <1>6, <1>7

(* Every request pays for what it runs.                                    *)
LEMMA RequestsPay ==
  ASSUME Serving, Genuine, NEW path \in Path, NEW u \in ServedBy[path],
         \/ ~u.mcp /\ HttpServe(u, path)
         \/ u.mcp /\ McpServe(u, path)
  PROVE  /\ ran'.clear => WorkIsPaid
         /\ ran'.how = "credit" => held # {}
         /\ held' = held
<1>0. u \in Upstreams
  BY DEF ServedBy
<1> DEFINE Goal == /\ ran'.clear => WorkIsPaid
                   /\ ran'.how = "credit" => held # {}
                   /\ held' = held
           Due(method) == PriceFor(u, method, path)
<1>1. \A did, how, atoms, genuine, clear : Did(u, did, how, atoms, genuine, clear) =>
        /\ ran'.clear = clear /\ ran'.up = u /\ ran'.did = did /\ ran'.how = how
        /\ ran'.atoms = atoms /\ ran'.genuine = genuine
  BY DEF Did
<1>2. ASSUME ~u.mcp, NEW method \in Method, NEW how, NEW atoms, NEW genuine,
             Did(u, Resource(method, path), how, atoms, genuine, TRUE),
             \/ Due(method) = 0
             \/ how = "proof" /\ atoms >= Due(method)
             \/ how = "token" /\ genuine
             \/ how = "credit" /\ genuine /\ balance' = balance - Due(method)
      PROVE  WorkIsPaid
  <2>1. Due(method) \in Asked(u, <<ToUpper(method), Cleaned[path]>>)
    BY <1>0, <1>2, HttpPriceIsAsked DEF Serving
  <2>2. /\ ran'.up = u /\ ran'.did = {<<ToUpper(method), Cleaned[path]>>}
        /\ ran'.how = how /\ ran'.atoms = atoms /\ ran'.genuine = genuine
    BY <1>1, <1>2 DEF Resource
  <2> HIDE DEF Due
  <2> QED BY <1>2, <2>1, <2>2 DEF WorkIsPaid
<1>3. ASSUME u.mcp, NEW b \in Body, NEW run \in Outcomes[b], b \in DOMAIN Called,
             NEW how, NEW atoms, NEW genuine,
             Did(u, run.did, how, atoms, genuine, run.clear),
             \/ ToolPriceFor(u, Called[b]) = 0
             \/ how = "proof" /\ atoms >= ToolPriceFor(u, Called[b])
             \/ how = "credit" /\ genuine
                /\ balance' = balance - ToolPriceFor(u, Called[b])
      PROVE  ran'.clear => WorkIsPaid
  <2>1. run.clear => run.did \subseteq {Called[b]}
    BY <1>3, ClearRuns DEF Outcomes
  <2>2. ToolPriceFor(u, Called[b]) \in Asked(u, Called[b])
    BY <1>3 DEF Asked
  <2>3. /\ ran'.clear = run.clear /\ ran'.did = run.did
        /\ ran'.up = u /\ ran'.how = how /\ ran'.atoms = atoms /\ ran'.genuine = genuine
    BY <1>1, <1>3
  <2> QED BY <1>3, <2>1, <2>2, <2>3 DEF WorkIsPaid
<1>4. ASSUME ~u.mcp, NEW method \in Method, HttpFree(u, method, path) PROVE Goal
  <2>1. WorkIsPaid
    BY <1>2, <1>4 DEF HttpFree
  <2>2. ran'.how = "free"
    BY <1>1, <1>4 DEF HttpFree
  <2> QED BY <1>4, <2>1, <2>2 DEF HttpFree
<1>5. ASSUME NEW method \in Method, HttpChallenge(u, method, path) PROVE Goal
  <2>1. ran'.did = {} /\ ran'.how = "challenge"
    BY <1>5 DEF HttpChallenge, None
  <2> QED BY <1>5, <2>1 DEF HttpChallenge, WorkIsPaid
<1>6. ASSUME ~u.mcp, NEW method \in Method, NEW m \in Presented,
             HttpCredits(u, method, path, m)
      PROVE  Goal
  <2>1. m \in held
    BY <1>6, AcceptedIsHeld DEF HttpCredits, ChargeCredential
  <2>2. Did(u, Resource(method, path), "credit", Due(method), m \in held, TRUE)
    BY <1>6 DEF HttpCredits
  <2>3. balance' = balance - Due(method)
    BY <1>6 DEF HttpCredits, ChargeCredential
  <2> HIDE DEF Due
  <2>4. WorkIsPaid
    BY <1>2, <1>6, <2>1, <2>2, <2>3
  <2> QED BY <1>6, <2>1, <2>4 DEF HttpCredits
<1>7. ASSUME ~u.mcp, NEW method \in Method, NEW m \in Presented,
             HttpToken(u, method, path, m)
      PROVE  Goal
  <2>1. m \in held
    BY <1>7, AcceptedIsHeld DEF HttpToken
  <2>2. Did(u, Resource(method, path), "token", 0, m \in held, TRUE)
    BY <1>7 DEF HttpToken
  <2>3. WorkIsPaid
    BY <1>2, <1>7, <2>1, <2>2
  <2> QED BY <1>7, <2>1, <2>3 DEF HttpToken
<1>8. ASSUME ~u.mcp, NEW method \in Method, NEW atoms \in Proof,
             HttpProof(u, method, path, atoms)
      PROVE  Goal
  <2>1. WorkIsPaid
    BY <1>2, <1>8 DEF HttpProof
  <2>2. ran'.how = "proof"
    BY <1>1, <1>8 DEF HttpProof
  <2> QED BY <1>8, <2>1, <2>2 DEF HttpProof
<1>9. ASSUME u.mcp, NEW b \in Body, NEW run \in Outcomes[b], McpForward(u, path, b, run)
      PROVE  Goal
  <2>1. Did(u, run.did, "free", 0, TRUE, run.clear)
    BY <1>9 DEF McpForward
  <2>2. ASSUME b \in DOMAIN Called, ToolPriceFor(u, Called[b]) = 0
        PROVE  ran'.clear => WorkIsPaid
    BY <1>3, <1>9, <2>1, <2>2
  <2>3. ASSUME b \in Uncalled PROVE ran'.clear => WorkIsPaid
    <3>1. run.clear => run.did = {}
      BY <2>3, ClearRuns DEF Outcomes
    <3> QED BY <1>1, <2>1, <3>1 DEF WorkIsPaid
  <2>4. ran'.clear => WorkIsPaid
    BY <1>9, <2>2, <2>3 DEF McpForward
  <2>5. ran'.how = "free"
    BY <1>1, <2>1
  <2> QED BY <1>9, <2>4, <2>5 DEF McpForward
<1>10. ASSUME u.mcp, NEW b \in Body, NEW run \in Outcomes[b], NEW m \in Presented,
              McpCredits(u, path, b, run, m)
       PROVE  Goal
  <2>1. m \in held
    BY <1>10, AcceptedIsHeld DEF McpCredits, ChargeCredential
  <2>2. /\ b \in DOMAIN Called
        /\ Did(u, run.did, "credit", ToolPriceFor(u, Called[b]), m \in held, run.clear)
        /\ balance' = balance - ToolPriceFor(u, Called[b])
    BY <1>10 DEF McpCredits, ChargeCredential
  <2>3. ran'.clear => WorkIsPaid
    BY <1>3, <1>10, <2>1, <2>2
  <2> QED BY <1>10, <2>1, <2>3 DEF McpCredits
<1>11. ASSUME u.mcp, NEW b \in Body, NEW run \in Outcomes[b], NEW atoms \in Proof,
              McpProof(u, path, b, run, atoms)
       PROVE  Goal
  <2>1. /\ b \in DOMAIN Called /\ Did(u, run.did, "proof", atoms, TRUE, run.clear)
        /\ atoms >= ToolPriceFor(u, Called[b])
    BY <1>11 DEF McpProof
  <2>2. ran'.clear => WorkIsPaid
    BY <1>3, <1>11, <2>1
  <2>3. ran'.how = "proof"
    BY <1>1, <2>1
  <2> QED BY <1>11, <2>2, <2>3 DEF McpProof
<1> HIDE DEF Goal
<1>12. CASE ~u.mcp /\ HttpServe(u, path)
  <2>1. Goal
    BY <1>4, <1>5, <1>6, <1>7, <1>8, <1>12 DEF HttpServe
  <2> QED BY <2>1 DEF Goal
<1>13. CASE u.mcp /\ McpServe(u, path)
  <2>1. Goal
    BY <1>9, <1>10, <1>11, <1>13 DEF McpServe
  <2> QED BY <2>1 DEF Goal
<1> QED BY <1>12, <1>13

(* What the last request ran is paid; and as long as nothing circulates no *)
(* credit was spent, so that a top-up follows no charge.                   *)
LastIsPaid ==
  ran.clear => \A op \in ran.did : \E price \in Asked(ran.up, op) :
                 \/ price = 0
                 \/ ran.how = "proof" /\ ran.atoms >= price
                 \/ ran.how \in {"token", "credit"} /\ ran.genuine

PaidInv == LastIsPaid /\ (ran.how = "credit" => held # {})

(* Whatever the upstream executes for a request is free by the             *)
(* configuration or was paid at its price: over every route table, price   *)
(* table, spelling of a path and credential in circulation, and for every  *)
(* message that is clear, repeated names among them, with every reader.    *)
THEOREM PricedWorkIsAlwaysPaid == Spec => PricedWorkIsPaid
<1>1. Init => PaidInv
  BY DEF Init, None, PaidInv, LastIsPaid
<1>2. ASSUME PaidInv, TypeOK, IInv, [Next]_vars
      PROVE  PaidInv' /\ [ran'.clear => WorkIsPaid]_<<ran, balance>>
  <2>0. Serving /\ Genuine
    BY <1>2 DEF TypeOK, Serving, IInv
  <2>1. ASSUME ran'.clear => WorkIsPaid PROVE LastIsPaid'
    BY <2>1 DEF WorkIsPaid, LastIsPaid
  <2>2. CASE Topup
    <3>1. ran' = ran /\ ran.how # "credit"
      BY <1>2, <2>2 DEF Topup, PaidInv
    <3>2. ran'.clear => WorkIsPaid
      BY <1>2, <3>1 DEF WorkIsPaid, PaidInv, LastIsPaid
    <3> QED BY <2>1, <3>1, <3>2 DEF PaidInv
  <2>3. CASE Restart
    <3>1. ran'.did = {} /\ ran'.how = "none"
      BY <2>3 DEF Restart, None
    <3> QED BY <3>1 DEF WorkIsPaid, PaidInv, LastIsPaid
  <2>4. CASE Delegate
    BY <1>2, <2>4 DEF Delegate, PaidInv, LastIsPaid
  <2>5. CASE RevokeCredential \/ Tick \/ UNCHANGED vars
    BY <1>2, <2>5 DEF RevokeCredential, Tick, vars, PaidInv, LastIsPaid
  <2>6. ASSUME NEW path \in Path, NEW u \in ServedBy[path],
               \/ ~u.mcp /\ HttpServe(u, path)
               \/ u.mcp /\ McpServe(u, path)
        PROVE  PaidInv' /\ (ran'.clear => WorkIsPaid)
    <3>1. /\ ran'.clear => WorkIsPaid
          /\ ran'.how = "credit" => held # {}
          /\ held' = held
      BY <2>0, <2>6, RequestsPay
    <3> QED BY <2>1, <3>1 DEF PaidInv
  <2> QED BY <1>2, <2>2, <2>3, <2>4, <2>5, <2>6 DEF Next
<1> QED BY <1>1, <1>2, TypeTheorem, GenuineInvariant, PTL DEF Spec, PricedWorkIsPaid

=============================================================================
