------------------------------- MODULE Gateway -------------------------------
(***************************************************************************)
(* The gateway in front of priced upstreams (src/gateway): its route       *)
(* table, its price table, the HTTP and the MCP handler, and the           *)
(* credentials its callers hold, hand on and attenuate (L402).  What the   *)
(* gate and the ledger do step by step is modelled in Gate and             *)
(* LedgerSQLite; here a settlement and a charge are one step each.         *)
(*                                                                         *)
(* External: net/http's ServeMux, the upstreams and the holders of         *)
(* credentials.  An upstream serves the resource a cleaned path names.  It *)
(* has a JSON reader of its own: of members whose keys agree up to case it *)
(* takes the first or the last, among all of them or among those spelled   *)
(* exactly.                                                                *)
(*                                                                         *)
(* A path is the sequence of what stands between its slashes, so that      *)
(* "/api/" is <<"api", "">> and "/" is <<"">>.                             *)
(***************************************************************************)
EXTENDS L402, SequencesExt

CONSTANTS Service,        \* the service of this gateway's gate
          Capabilities,   \* the capabilities it mints, a set of names
          Upstreams,      \* the configured upstreams
          Path, Method,   \* paths and methods of requests
          Tool, NoTool,   \* MCP tools; a call that names none
          Body,           \* JSON-RPC messages
          Proof,          \* amounts of the proofs callers present
          Added,          \* caveats holders append
          Credit,         \* what a top-up grants
          TTL,            \* lifetime of a credential
          RootKey,
          NoUpstream,
          MaxHeld,        \* bound: credentials in circulation
          MaxTime         \* bound: the clock stops here

PriceEntry == [method: STRING, path: Seq(STRING), atoms: Nat \ {0}]

UpstreamRec ==
  [route: Seq(STRING), mcp: BOOLEAN, mode: {"percall", "credits"},
   prices: SUBSET PriceEntry, priceDefault: Nat,
   toolPrices: SUBSET [tool: Tool, atoms: Nat \ {0}], toolPriceDefault: Nat,
   freeTools: SUBSET Tool]

\* A member of a JSON object under a key the handler looks for, in its exact
\* spelling or in another case.
Member(Value) == [value: Value, exact: BOOLEAN]

\* A JSON-RPC message: its "method" members (is the value tools/call), and its
\* "params", each by its "name" members; any of them may be absent or repeated.
MessageRec == [methods: Seq(Member(BOOLEAN)), params: Seq(Member(Seq(Member(Tool))))]
BodyRec == [kind: {"malformed", "batch", "single"}, msgs: Seq(MessageRec)]

ASSUME GatewayAssumption ==
  /\ Service \in Name /\ Capabilities \subseteq Name /\ NoName \notin Name
  /\ \A u \in Upstreams :
       /\ u.mode \in {"percall", "credits"} /\ u.mcp \in BOOLEAN
       /\ u.priceDefault \in Nat /\ u.toolPriceDefault \in Nat
       /\ \A e \in u.prices \cup u.toolPrices : e.atoms \in Nat \ {0}
       /\ \A v \in Upstreams : u.route = v.route => u = v
  /\ NoUpstream \notin Upstreams
  /\ Added \subseteq Caveat
  /\ {Credit, TTL, MaxHeld, MaxTime} \subseteq Nat
  /\ Proof \subseteq Nat \ {0}

\* Paths and routes begin with a slash, a request has a method, and what is not
\* a batch is one message.
ASSUME RequestAssumption ==
  /\ \A u \in Upstreams : u.route \in Seq(STRING) /\ Len(u.route) > 0
  /\ \A path \in Path : path \in Seq(STRING) /\ Len(path) > 0
  /\ "" \notin Method
  /\ Body \subseteq BodyRec /\ NoTool \notin Tool
  /\ \A b \in Body : b.kind = "single" => Len(b.msgs) = 1

VARIABLES
  now,
  key,          \* is the root key of the credential in the store
  held,         \* external: credentials in circulation
  balance,      \* the credit account of the credential
  prices,       \* Upstream.Prices as resolved at start, by upstream
  ran           \* history: what the last request did

vars == <<now, key, held, balance, prices, ran>>

-----------------------------------------------------------------------------
(* Paths.                                                                  *)
CleanStep(done, seg) ==
  CASE seg \in {"", "."} -> done
    [] seg = ".." -> IF done = <<>> THEN done ELSE Front(done)
    [] OTHER -> Append(done, seg)

cleanPath(path) ==
  LET clean == FoldLeft(CleanStep, <<>>, path)
  IN  IF clean = <<>> THEN <<"">> ELSE clean

Cleaned == [path \in Path |-> cleanPath(path)]

ToUpper(method) == IF method = "get" THEN "GET" ELSE method

\* A route that ends in a slash.
Subtree(route) == Last(route) = ""

\* Of two routes that begin one path, the longer string: "/api/" is longer
\* than "/api" and shorter than "/api/x".
RouteLen(route) == 2 * Len(route) + (IF Subtree(route) THEN 0 ELSE 1)

(* ServeMux: a subtree pattern ends in a slash, any other is exact; the    *)
(* longest match wins, and a path that is not clean, or that lacks only    *)
(* the slash of a pattern, is redirected and not served.                   *)
Matches(route, path) ==
  \/ route = path
  \/ Subtree(route) /\ Len(route) <= Len(path) /\ IsPrefix(Front(route), path)

Redirected(path) ==
  \/ path \notin {cleanPath(path), Append(cleanPath(path), "")}
  \/ /\ \E u \in Upstreams : u.route = Append(path, "")
     /\ \A u \in Upstreams : u.route # path

Dispatched(path, u) ==
  /\ ~Redirected(path)
  /\ Matches(u.route, path)
  /\ \A v \in Upstreams : Matches(v.route, path) => RouteLen(v.route) <= RouteLen(u.route)

(* strings.HasPrefix(path, route), for names none of which begins another. *)
HasPrefix(path, route) ==
  \/ IsPrefix(route, path)
  \/ Subtree(route) /\ Len(route) <= Len(path) /\ IsPrefix(Front(route), path)

\* A faulty lookup that takes the shortest route.
UpForShortest(path) ==
  CHOOSE u \in Upstreams \cup {NoUpstream} :
    IF \E v \in Upstreams : HasPrefix(path, v.route)
    THEN /\ u \in Upstreams /\ HasPrefix(path, u.route)
         /\ \A v \in Upstreams : HasPrefix(path, v.route) => RouteLen(v.route) >= RouteLen(u.route)
    ELSE u = NoUpstream

ServedBy == [path \in Path |-> {u \in Upstreams : Dispatched(path, u)}]

\* The upstream a 402 describes.
upFor(path) ==
  CHOOSE u \in Upstreams \cup {NoUpstream} :
    IF \E v \in Upstreams : HasPrefix(path, v.route)
    THEN /\ u \in Upstreams /\ HasPrefix(path, u.route)
         /\ \A v \in Upstreams : HasPrefix(path, v.route) => RouteLen(v.route) <= RouteLen(u.route)
    ELSE u = NoUpstream

-----------------------------------------------------------------------------
(* Prices.  A key without a method keeps its form and matches no request.  *)
normalizePriceKey(e) ==
  IF e.method = "" THEN <<"", e.path>> ELSE <<ToUpper(e.method), cleanPath(e.path)>>

(* ResolveUpstreams fills a map in map order: where two keys of the        *)
(* configuration become one, either price may stay.                        *)
Resolved(u) ==
  {p \in [{normalizePriceKey(e) : e \in u.prices} -> {e.atoms : e \in u.prices}] :
     \A k \in DOMAIN p : \E e \in u.prices : normalizePriceKey(e) = k /\ e.atoms = p[k]}

ResolveUpstreams ==
  {p \in [Upstreams -> UNION {Resolved(u) : u \in Upstreams}] :
     \A u \in Upstreams : p[u] \in Resolved(u)}

PriceKey(method, path) == <<ToUpper(method), Cleaned[path]>>

PriceFor(u, method, path) ==
  LET k == PriceKey(method, path)
  IN  IF k \in DOMAIN prices[u] THEN prices[u][k] ELSE u.priceDefault

ToolPriceFor(u, tool) ==
  IF tool \in u.freeTools THEN 0
  ELSE IF \E e \in u.toolPrices : e.tool = tool
       THEN (CHOOSE e \in u.toolPrices : e.tool = tool).atoms
       ELSE u.toolPriceDefault

-----------------------------------------------------------------------------
(* Credentials.                                                            *)
Minted ==
  <<ServicesCaveat({Service})>>
  \o (IF Capabilities = {} THEN <<>> ELSE <<CapabilitiesCaveat(Service, Capabilities)>>)
  \o <<ValidUntilCaveat(Service, now + TTL)>>

authorizeToken(m) == key /\ VerifyToken(RootKey, m, Service, NoName, now)

\* What a caller may send: a credential it holds, or one that lost its last
\* caveat on the way.
LostCaveat(m) == [caveats |-> Front(m.caveats), sig |-> m.sig]
Presented == held \cup {LostCaveat(m) : m \in held}

None == [up |-> NoUpstream, did |-> {}, how |-> "none", atoms |-> 0, genuine |-> TRUE,
         clear |-> TRUE, path |-> <<>>]
Did(u, did, how, atoms, genuine, clear) ==
  ran' = [up |-> u, did |-> did, how |-> how, atoms |-> atoms, genuine |-> genuine,
          clear |-> clear, path |-> <<>>]

Init ==
  /\ now = 0
  /\ key = FALSE
  /\ held = {}
  /\ balance = 0
  /\ prices \in ResolveUpstreams
  /\ ran = None

(* A top-up: mintCredential stores the root key, the settlement grants.    *)
Topup ==
  /\ held = {}
  /\ key' = TRUE
  /\ held' = {Mint(RootKey, Minted)}
  /\ balance' = Credit
  /\ UNCHANGED <<now, prices, ran>>

\* A holder narrows a credential and hands it on.
Delegate ==
  /\ Cardinality(held) < MaxHeld
  /\ \E m \in held, c \in Added : held' = held \cup {Attenuate(m, c)}
  /\ UNCHANGED <<now, key, balance, prices, ran>>

RevokeCredential ==
  /\ key /\ key' = FALSE
  /\ UNCHANGED <<now, held, balance, prices, ran>>

Tick ==
  /\ now < MaxTime /\ now' = now + 1
  /\ UNCHANGED <<key, held, balance, prices, ran>>

\* The prices are read from the configuration again.
Restart ==
  /\ prices' \in ResolveUpstreams
  /\ ran' = None
  /\ UNCHANGED <<now, key, held, balance>>

-----------------------------------------------------------------------------
(* ChargeCredential: the account of an accepted credential pays.           *)
ChargeCredential(m, atoms) ==
  /\ authorizeToken(m)
  /\ balance >= atoms
  /\ balance' = balance - atoms

(* upstreamHandler.  `did' is the resource the upstream then serves.       *)
HttpRequest(u, path) == ~u.mcp /\ u \in ServedBy[path]

\* External: the upstream cleans a path before it looks for the resource.
Resource(method, path) == {<<ToUpper(method), Cleaned[path]>>}

HttpFree(u, method, path) ==
  /\ HttpRequest(u, path)
  /\ PriceFor(u, method, path) = 0
  /\ Did(u, Resource(method, path), "free", 0, TRUE, TRUE)
  /\ UNCHANGED <<now, key, held, balance, prices>>

\* gate.RequireCredits around the proxy.
HttpCredits(u, method, path, m) ==
  LET price == PriceFor(u, method, path) IN
  /\ HttpRequest(u, path)
  /\ u.mode = "credits" /\ price > 0
  /\ ChargeCredential(m, price)
  /\ Did(u, Resource(method, path), "credit", price, m \in held, TRUE)
  /\ UNCHANGED <<now, key, held, prices>>

\* gate.Require around the proxy: an accepted credential wins over a proof.
HttpToken(u, method, path, m) ==
  LET price == PriceFor(u, method, path) IN
  /\ HttpRequest(u, path)
  /\ u.mode = "percall" /\ price > 0
  /\ authorizeToken(m)
  /\ Did(u, Resource(method, path), "token", 0, m \in held, TRUE)
  /\ UNCHANGED <<now, key, held, balance, prices>>

HttpProof(u, method, path, atoms) ==
  LET price == PriceFor(u, method, path) IN
  /\ HttpRequest(u, path)
  /\ u.mode = "percall" /\ price > 0
  /\ atoms >= price
  /\ Did(u, Resource(method, path), "proof", atoms, TRUE, TRUE)
  /\ UNCHANGED <<now, key, held, balance, prices>>

\* The 402 of gate.Require describes the resource and its upstream.
HttpChallenge(u, method, path) ==
  /\ HttpRequest(u, path)
  /\ u.mode = "percall" /\ PriceFor(u, method, path) > 0
  /\ ran' = [None EXCEPT !.up = u, !.how = "challenge", !.path = path]
  /\ UNCHANGED <<now, key, held, balance, prices>>

-----------------------------------------------------------------------------
(* JSON readers.  Each takes one of the members its matching of keys finds. *)
Reader == [first: BOOLEAN, exact: BOOLEAN]

\* encoding/json: keys match in any case, the last one counts.
GoReader == [first |-> FALSE, exact |-> FALSE]

Reading(r, members, absent) ==
  LET found == {i \in DOMAIN members : members[i].exact \/ ~r.exact}
  IN  IF found = {} THEN absent
      ELSE members[IF r.first THEN Min(found) ELSE Max(found)].value

IsCall(r, msg) == Reading(r, msg.methods, FALSE)
Params(r, msg) == Reading(r, msg.params, <<>>)
ToolCalled(r, msg) == Reading(r, Params(r, msg), NoTool)

\* External: the tools an upstream with this reader runs.
Executed(r, b) ==
  {ToolCalled(r, msg) : msg \in {msg \in ToSet(b.msgs) : IsCall(r, msg)}} \ {NoTool}

\* External: a message every key of which is spelled exactly, with at most one
\* method and one params.  The name of a tool may be repeated.
AllExact(members) == \A member \in ToSet(members) : member.exact

Unambiguous(msg) ==
  /\ AllExact(msg.methods) /\ Len(msg.methods) <= 1
  /\ AllExact(msg.params) /\ Len(msg.params) <= 1
  /\ \A params \in ToSet(msg.params) : AllExact(params.value)

\* External: the upstream reads as the gateway does, or has nothing to choose.
Clear(r, b) == r = GoReader \/ \A msg \in ToSet(b.msgs) : Unambiguous(msg)

\* External: what upstreams may make of a message.
Outcomes ==
  [b \in Body |-> {[did |-> Executed(r, b), clear |-> Clear(r, b)] : r \in Reader}]

-----------------------------------------------------------------------------
(* mcpHandler.  Only a POST carries a message; a malformed message, a      *)
(* batch with a tool call, a call without params and one whose name is     *)
(* repeated in its exact spelling are refused.                             *)
McpRequest(u, path) == u.mcp /\ u \in ServedBy[path]

duplicateKey(params) ==
  \E i, j \in DOMAIN params : i # j /\ params[i].exact /\ params[j].exact

\* A faulty handler that prices the last of two names.
LastNameCounts(b) ==
  b.kind = "single" /\ \A msg \in ToSet(b.msgs) : IsCall(GoReader, msg) /\ msg.params # <<>>

SingleCall(b) ==
  /\ b.kind = "single"
  /\ \A msg \in ToSet(b.msgs) :
       IsCall(GoReader, msg) /\ msg.params # <<>> /\ ~duplicateKey(Params(GoReader, msg))

\* What is not a tool call, and the tool of one that is.
Uncalled == {b \in Body : /\ b.kind # "malformed"
                          /\ \A msg \in ToSet(b.msgs) : ~IsCall(GoReader, msg)}
Called == [b \in {b \in Body : SingleCall(b)} |-> ToolCalled(GoReader, Head(b.msgs))]

McpForward(u, path, b, run) ==
  /\ McpRequest(u, path)
  /\ \/ b \in Uncalled
     \/ b \in DOMAIN Called /\ ToolPriceFor(u, Called[b]) = 0
  /\ Did(u, run.did, "free", 0, TRUE, run.clear)
  /\ UNCHANGED <<now, key, held, balance, prices>>

McpCredits(u, path, b, run, m) ==
  /\ McpRequest(u, path)
  /\ b \in DOMAIN Called /\ u.mode = "credits"
  /\ LET price == ToolPriceFor(u, Called[b]) IN
     /\ price > 0
     /\ ChargeCredential(m, price)
     /\ Did(u, run.did, "credit", price, m \in held, run.clear)
  /\ UNCHANGED <<now, key, held, prices>>

McpProof(u, path, b, run, atoms) ==
  /\ McpRequest(u, path)
  /\ b \in DOMAIN Called /\ u.mode = "percall"
  /\ LET price == ToolPriceFor(u, Called[b]) IN
     /\ price > 0
     /\ atoms >= price
     /\ Did(u, run.did, "proof", atoms, TRUE, run.clear)
  /\ UNCHANGED <<now, key, held, balance, prices>>

\* A request of either handler, with whatever it presents.
HttpServe(u, path) ==
  \E method \in Method :
    \/ HttpFree(u, method, path)
    \/ HttpChallenge(u, method, path)
    \/ \E m \in Presented : \/ HttpCredits(u, method, path, m)
                            \/ HttpToken(u, method, path, m)
    \/ \E atoms \in Proof : HttpProof(u, method, path, atoms)

McpServe(u, path) ==
  \E b \in Body : \E run \in Outcomes[b] :
    \/ McpForward(u, path, b, run)
    \/ \E m \in Presented : McpCredits(u, path, b, run, m)
    \/ \E atoms \in Proof : McpProof(u, path, b, run, atoms)

Next ==
  \/ Topup
  \/ Delegate
  \/ RevokeCredential
  \/ Tick
  \/ Restart
  \/ \E path \in Path : \E u \in ServedBy[path] :
       \/ ~u.mcp /\ HttpServe(u, path)
       \/ u.mcp /\ McpServe(u, path)

Spec == Init /\ [][Next]_vars

-----------------------------------------------------------------------------
TypeOK ==
  /\ now \in Nat
  /\ key \in BOOLEAN
  /\ \A m \in held : m.caveats \in Seq(Caveat)
  /\ balance \in 0 .. Credit
  /\ prices \in ResolveUpstreams
  /\ ran.up \in Upstreams \cup {NoUpstream}

(* Attenuation never widens: a credential that a holder derived from       *)
(* another one is accepted by the gate only while that other one is, in    *)
(* whatever order caveats of one condition were appended.                  *)
AttenuationNarrows ==
  \A m \in held, c \in Added :
    /\ Attenuate(m, c) \in held
    /\ authorizeToken(Attenuate(m, c))
    => authorizeToken(m)

\* What the configuration asks for METHOD and resource, in whatever spelling,
\* and for a tool.
Listed ==
  [u \in Upstreams |->
     {[op |-> <<ToUpper(e.method), cleanPath(e.path)>>, atoms |-> e.atoms] :
        e \in {e \in u.prices : e.method # ""}}]

Asked(u, op) ==
  CASE u.mcp -> {ToolPriceFor(u, op)}
    [] ~u.mcp /\ \E l \in Listed[u] : l.op = op -> {l.atoms : l \in {l \in Listed[u] : l.op = op}}
    [] OTHER -> {u.priceDefault}

\* What a step served is free, or was paid as its handler demands.
WorkIsPaid ==
  \A op \in ran'.did : \E price \in Asked(ran'.up, op) :
    \/ price = 0
    \/ ran'.how = "proof" /\ ran'.atoms >= price
    \/ ran'.how = "token" /\ ran'.genuine
    \/ ran'.how = "credit" /\ ran'.genuine /\ balance' = balance - price

(* Nothing priced runs unpaid: what the upstream executes for a request    *)
(* (the resource behind any spelling of its path, the tool it finds in a   *)
(* message) is free by the configuration, or was paid by a proof that      *)
(* covers its price, by a genuine credential of a per-call HTTP route, or  *)
(* by a debit of exactly its price from a genuine credential.  Of messages *)
(* this is said of those that are clear: the upstream's reader may be any, *)
(* and take the first of two names, as long as only the name is repeated   *)
(* and all keys are spelled exactly; other messages are the business of    *)
(* EveryReaderIsPaid.                                                      *)
PricedWorkIsPaid == [][ran'.clear => WorkIsPaid]_<<ran, balance>>

(* The same of every message and every reader: mcpgate.go:130-131 promises *)
(* to refuse a name that the gateway and the upstream may read             *)
(* differently.  duplicateKey compares the exact spelling, while the       *)
(* decoder that priced the call also takes a name in another case.         *)
EveryReaderIsPaid == [][WorkIsPaid]_<<ran, balance>>

(* The 402 describes the upstream that will serve: the prefix search of    *)
(* Build and the route table agree on every path, unless a route without a *)
(* trailing slash, which owns one path only, begins it.                    *)
AdvertisedIsServing ==
  ran.how = "challenge" /\ (\A u \in Upstreams : Subtree(u.route) \/ u.route = ran.path
                                                   \/ ~HasPrefix(ran.path, u.route))
    => upFor(ran.path) = ran.up
=============================================================================
