-------------------------------- MODULE L402 --------------------------------
(***************************************************************************)
(* The caveats of an L402 macaroon and their verification                  *)
(* (src/lib/l402/l402.go).  The HMAC chain is a term: it names the root    *)
(* key and the caveats it was computed over, and can be extended without   *)
(* the key.  A condition is its kind and the service it names; the values  *)
(* of the list conditions are sets of names (the tier behind a name is     *)
(* never read), the value of valid_until is a time.  A "malformed" caveat  *)
(* stands for one without "=" and for one with a bad time.                 *)
(***************************************************************************)
EXTENDS Integers, Sequences

CONSTANTS Name,          \* services and capabilities
          NoName         \* no capability asked for; the service of "services"

ListCaveat == [kind: {"services", "capabilities"}, svc: Name \cup {NoName}, list: SUBSET Name]
TimeCaveat == [kind: {"valid_until"}, svc: Name, time: Nat]
PlainCaveat == [kind: {"unknown", "malformed"}, svc: {NoName}]
Caveat == ListCaveat \cup TimeCaveat \cup PlainCaveat

ServicesCaveat(names) == [kind |-> "services", svc |-> NoName, list |-> names]
CapabilitiesCaveat(service, caps) ==
  [kind |-> "capabilities", svc |-> service, list |-> caps]
ValidUntilCaveat(service, t) == [kind |-> "valid_until", svc |-> service, time |-> t]

-----------------------------------------------------------------------------
chain(key, caveats) == [key |-> key, over |-> caveats]

Mint(key, caveats) == [caveats |-> caveats, sig |-> chain(key, caveats)]

\* Append a caveat with the signature alone.
Attenuate(m, c) ==
  [caveats |-> Append(m.caveats, c), sig |-> chain(m.sig.key, Append(m.sig.over, c))]

VerifySignature(key, m) == m.sig = chain(key, m.caveats)

-----------------------------------------------------------------------------
SameCond(c, d) == c.kind = d.kind /\ c.svc = d.svc

\* Positions i and j hold successive values of one condition.
Successive(cs, i, j) ==
  /\ i < j /\ SameCond(cs[i], cs[j])
  /\ \A k \in i + 1 .. j - 1 : ~SameCond(cs[k], cs[j])

\* Position i holds the last value of its condition.
LastValue(cs, i) == \A k \in i + 1 .. Len(cs) : ~SameCond(cs[k], cs[i])

\* No value of a list condition adds a name to the one before it.
ListsShrink(cs, kind) ==
  \A i, j \in 1 .. Len(cs) :
    cs[i].kind = kind /\ Successive(cs, i, j) => cs[j].list \subseteq cs[i].list

verifyServicesChain(cs, service) ==
  /\ ListsShrink(cs, "services")
  /\ \A i \in 1 .. Len(cs) :
       cs[i].kind = "services" /\ LastValue(cs, i) => service \in cs[i].list

verifyCapsChain(cs, service, capability) ==
  /\ ListsShrink(cs, "capabilities")
  /\ capability # NoName =>
       \A i \in 1 .. Len(cs) :
         cs[i].kind = "capabilities" /\ cs[i].svc = service /\ LastValue(cs, i) =>
           capability \in cs[i].list

\* A faulty verification that reads only the last time of a condition.
LastTimeOnly(cs, now) ==
  \A i \in 1 .. Len(cs) : cs[i].kind = "valid_until" /\ LastValue(cs, i) => now < cs[i].time

verifyValidUntilChain(cs, now) ==
  /\ \A i, j \in 1 .. Len(cs) :
       cs[i].kind = "valid_until" /\ Successive(cs, i, j) => cs[j].time <= cs[i].time
  /\ \A i \in 1 .. Len(cs) :
       cs[i].kind = "valid_until" /\ LastValue(cs, i) => now < cs[i].time

(* Unknown conditions are skipped; a check that is asked for and finds no  *)
(* caveat fails.                                                           *)
verifyCaveats(cs, service, capability, now) ==
  /\ \A i \in 1 .. Len(cs) : cs[i].kind # "malformed"
  /\ verifyServicesChain(cs, service)
  /\ verifyValidUntilChain(cs, now)
  /\ verifyCapsChain(cs, service, capability)
  /\ \E i \in 1 .. Len(cs) : cs[i].kind = "services"
  /\ capability # NoName =>
       \E i \in 1 .. Len(cs) : cs[i].kind = "capabilities" /\ cs[i].svc = service

VerifyToken(key, m, service, capability, now) ==
  /\ VerifySignature(key, m)
  /\ verifyCaveats(m.caveats, service, capability, now)
=============================================================================
