-------------------------------- MODULE Relay --------------------------------
(***************************************************************************)
(* The Bison Relay approval channel (src/agent/approve/bisonrelay): one    *)
(* goroutine streams the owner's private messages, applies each as a       *)
(* verdict or as a turn of the kill switch, acknowledges it to the relay   *)
(* client and saves the sequence number for the next start.  The dashboard *)
(* (src/agent/web) answers the same approvals and turns the same switch.   *)
(*                                                                         *)
(* External: the relay client, which numbers messages in the order they    *)
(* arrive and replays what is neither acknowledged nor below UnackedFrom;  *)
(* the owner and strangers who write; the agent whose payments escalate.   *)
(*                                                                         *)
(* Abstractions.  A message is what Fields, ToLower and the synonyms of    *)
(* its words leave: its first word, whether a freeze or block word         *)
(* follows, and the ids it names.  An approval that is past its time and   *)
(* not yet swept cannot be resolved and counts as expired.                 *)
(***************************************************************************)
EXTENDS Integers, Sequences

CONSTANTS Id,             \* approvals, by id
          Message,        \* messages that may arrive
          MaxMessages,    \* bound: messages sent
          MaxFaults,      \* bound: failed or lost calls
          MaxRestarts,    \* bound: restarts of the daemon
          MaxClicks       \* bound: actions on the dashboard

Verb == {"freeze", "unfreeze", "yes", "no", "chat"}
MessageRec == [owner: BOOLEAN, verb: Verb, kill: BOOLEAN, ids: Seq(Id)]

ASSUME RelayAssumption ==
  /\ Message \subseteq MessageRec
  /\ {MaxMessages, MaxFaults, MaxRestarts, MaxClicks} \subseteq Nat

VARIABLES
  inbox,        \* external: every message, at its sequence number
  serverAck,    \* external: the highest acknowledgement the client holds
  cursor,       \* external: the last message delivered on this stream
  ackSeq,       \* Approver.ackSeq
  ackRow,       \* state row "br_ack"
  frozen,       \* state row "frozen"
  approval,     \* status column of the approvals table
  phase,        \* where consume is
  todo,         \* ids resolveIDs has not tried
  handled,      \* history: messages handleReply applied to the end
  resolver,     \* history: the message that resolved an approval, or 0
  switcher,     \* history: the message that turned the switch last, or 0
  froze,        \* history: messages that froze
  faults, restarts, clicks

channel == <<serverAck, cursor, ackSeq, ackRow>>
effect == <<frozen, approval, resolver, switcher, froze>>
bounds == <<faults, restarts, clicks>>
vars == <<inbox, serverAck, cursor, ackSeq, ackRow, frozen, approval, phase,
          todo, handled, resolver, switcher, froze, faults, restarts, clicks>>

Handling == {"freeze", "unfreeze", "resolve"}
Phase == {"start", "closed", "recv", "ack", "save"} \cup Handling
Status == {"none", "pending", "approved", "denied", "expired"}

TypeOK ==
  /\ inbox \in Seq(Message)
  /\ {serverAck, cursor, ackSeq, ackRow} \subseteq 0 .. Len(inbox)
  /\ frozen \in BOOLEAN
  /\ approval \in [Id -> Status]
  /\ phase \in Phase
  /\ todo \in Seq(Id)
  /\ handled \subseteq 1 .. Len(inbox)
  /\ froze \subseteq 1 .. Len(inbox)
  /\ resolver \in [Id -> 0 .. Len(inbox)]
  /\ switcher \in 0 .. Len(inbox)
  /\ faults \in 0 .. MaxFaults
  /\ restarts \in 0 .. MaxRestarts
  /\ clicks \in 0 .. MaxClicks

Init ==
  /\ inbox = <<>>
  /\ serverAck = 0 /\ cursor = 0 /\ ackSeq = 0 /\ ackRow = 0
  /\ frozen = FALSE
  /\ approval = [i \in Id |-> "none"]
  /\ phase = "start"
  /\ todo = <<>>
  /\ handled = {} /\ froze = {}
  /\ resolver = [i \in Id |-> 0]
  /\ switcher = 0
  /\ faults = 0 /\ restarts = 0 /\ clicks = 0

-----------------------------------------------------------------------------
(* What a message asks for *)

Verdict(m) == m.verb \in {"yes", "no"}

\* freeze or block as the first word, or after a verdict.
Kills(m) == m.verb = "freeze" \/ (Verdict(m) /\ m.kill)

\* A trailing freeze or block turns the verdict into a deny.
Approves(m) == m.verb = "yes" /\ ~m.kill

Switches(m) == Kills(m) \/ m.verb = "unfreeze"
Names(m, i) == \E k \in DOMAIN m.ids : m.ids[k] = i

\* isOwner compares the sender's key with the configured one.
IsOwner(m) == m.owner

(* The first durable step of handleReply, or the acknowledgement when the  *)
(* message is not the owner's or asks for nothing.                         *)
FirstStep(m) ==
  CASE ~IsOwner(m) -> "ack"
    [] IsOwner(m) /\ Kills(m) -> "freeze"
    [] IsOwner(m) /\ m.verb = "unfreeze" -> "unfreeze"
    [] IsOwner(m) /\ Verdict(m) /\ ~Kills(m) -> "resolve"
    [] OTHER -> "ack"

Current == inbox[cursor]

-----------------------------------------------------------------------------
(* The channel's goroutine *)

Fault == faults < MaxFaults /\ faults' = faults + 1

(* loadAck, when Run starts.  A row that cannot be read leaves 0.          *)
LoadAck ==
  /\ phase = "start"
  /\ phase' = "closed"
  /\ \/ ackSeq' = ackRow /\ UNCHANGED faults
     \/ Fault /\ UNCHANGED ackSeq
  /\ UNCHANGED <<inbox, serverAck, cursor, ackRow, effect, todo, handled,
                 restarts, clicks>>

Later(m, n) == IF m >= n THEN m ELSE n

\* A faulty Run without its loop: a stream that ended is not opened again.
OpenStreamOnce ==
  /\ phase = "closed" /\ cursor = 0
  /\ phase' = "recv"
  /\ cursor' = Later(ackSeq, serverAck)
  /\ UNCHANGED <<inbox, serverAck, ackSeq, ackRow, effect, todo, handled, bounds>>

(* consume opens PMStream: the client replays what follows UnackedFrom and *)
(* was not acknowledged.                                                   *)
OpenStream ==
  /\ phase = "closed"
  /\ phase' = "recv"
  /\ cursor' = Later(ackSeq, serverAck)
  /\ UNCHANGED <<inbox, serverAck, ackSeq, ackRow, effect, todo, handled, bounds>>

\* The stream breaks while it waits for a message.
StreamError ==
  /\ phase = "recv"
  /\ Fault
  /\ phase' = "closed"
  /\ UNCHANGED <<inbox, channel, effect, todo, handled, restarts, clicks>>

(* Recv, and the parsing of the message.                                   *)
Recv ==
  LET m == inbox[cursor + 1] IN
  /\ phase = "recv"
  /\ cursor < Len(inbox)
  /\ cursor' = cursor + 1
  /\ phase' = FirstStep(m)
  /\ todo' = m.ids
  /\ handled' = IF FirstStep(m) = "ack" THEN handled \cup {cursor + 1} ELSE handled
  /\ UNCHANGED <<inbox, serverAck, ackSeq, ackRow, effect, bounds>>

\* A faulty freeze whose error is dropped.
FreezeErrorDropped ==
  /\ phase = "freeze"
  /\ phase' = "resolve"
  /\ \/ /\ frozen' = TRUE
        /\ switcher' = cursor
        /\ froze' = froze \cup {cursor}
        /\ UNCHANGED faults
     \/ Fault /\ UNCHANGED <<frozen, switcher, froze>>
  /\ UNCHANGED <<inbox, channel, approval, todo, handled, resolver, restarts, clicks>>

(* freeze, before the ids are denied.                                      *)
RelayFreeze ==
  /\ phase = "freeze"
  /\ phase' = "resolve"
  /\ frozen' = TRUE
  /\ switcher' = cursor
  /\ froze' = froze \cup {cursor}
  /\ UNCHANGED <<inbox, channel, approval, todo, handled, resolver, bounds>>

RelayUnfreeze ==
  /\ phase = "unfreeze"
  /\ phase' = "ack"
  /\ frozen' = FALSE
  /\ switcher' = cursor
  /\ handled' = handled \cup {cursor}
  /\ UNCHANGED <<inbox, channel, approval, todo, resolver, froze, bounds>>

Resolved(i, yes, by) ==
  /\ approval' = [approval EXCEPT ![i] = IF yes THEN "approved" ELSE "denied"]
  /\ resolver' = [resolver EXCEPT ![i] = by]

\* A faulty loop that takes an error of the store for an id that is not live.
ResolveErrorSkipped ==
  /\ phase = "resolve"
  /\ \/ /\ todo = <<>>
        /\ phase' = "ack"
        /\ handled' = handled \cup {cursor}
        /\ UNCHANGED <<todo, approval, resolver, faults>>
     \/ /\ todo # <<>>
        /\ approval[Head(todo)] = "pending"
        /\ Resolved(Head(todo), Approves(Current), cursor)
        /\ phase' = "ack"
        /\ handled' = handled \cup {cursor}
        /\ UNCHANGED <<todo, faults>>
     \/ /\ todo # <<>>
        /\ Fault
        /\ todo' = Tail(todo)
        /\ UNCHANGED <<phase, handled, approval, resolver>>
  /\ UNCHANGED <<inbox, channel, frozen, switcher, froze, restarts, clicks>>

(* One turn of resolveIDs: the first id that is still pending wins and     *)
(* ends the loop; one that is not is skipped.                              *)
ResolveIDs ==
  /\ phase = "resolve"
  /\ \/ /\ todo = <<>>
        /\ phase' = "ack"
        /\ handled' = handled \cup {cursor}
        /\ UNCHANGED <<todo, approval, resolver>>
     \/ /\ todo # <<>>
        /\ approval[Head(todo)] = "pending"
        /\ Resolved(Head(todo), Approves(Current), cursor)
        /\ phase' = "ack"
        /\ handled' = handled \cup {cursor}
        /\ UNCHANGED todo
     \/ /\ todo # <<>>
        /\ approval[Head(todo)] # "pending"
        /\ todo' = Tail(todo)
        /\ UNCHANGED <<phase, handled, approval, resolver>>
  /\ UNCHANGED <<inbox, channel, frozen, switcher, froze, bounds>>

\* A faulty loop that goes on to the next message.
HandlerErrorSkipped ==
  /\ phase \in Handling
  /\ Fault
  /\ phase' = "recv"
  /\ UNCHANGED <<inbox, channel, effect, todo, handled, restarts, clicks>>

(* A store error in the handler ends the stream without acknowledgement.   *)
HandlerError ==
  /\ phase \in Handling
  /\ Fault
  /\ phase' = "closed"
  /\ UNCHANGED <<inbox, channel, effect, todo, handled, restarts, clicks>>

\* A faulty acknowledgement of the number after the message.
AckNext ==
  /\ phase = "ack"
  /\ serverAck' = Later(serverAck, cursor + 1)
  /\ ackSeq' = cursor + 1
  /\ phase' = "save"
  /\ UNCHANGED <<inbox, cursor, ackRow, effect, todo, handled, bounds>>

(* AckReceivedPM, answered.                                                *)
Ack ==
  /\ phase = "ack"
  /\ serverAck' = Later(serverAck, cursor)
  /\ ackSeq' = cursor
  /\ phase' = "save"
  /\ UNCHANGED <<inbox, cursor, ackRow, effect, todo, handled, bounds>>

\* A faulty loop that keeps streaming when the call fails.
AckErrorIgnored ==
  /\ phase = "ack"
  /\ Fault
  /\ serverAck' \in {serverAck, Later(serverAck, cursor)}
  /\ phase' = "recv"
  /\ UNCHANGED <<inbox, cursor, ackSeq, ackRow, effect, todo, handled, restarts,
                 clicks>>

(* AckReceivedPM fails: the call or its answer was lost.                   *)
AckError ==
  /\ phase = "ack"
  /\ Fault
  /\ serverAck' \in {serverAck, Later(serverAck, cursor)}
  /\ phase' = "closed"
  /\ UNCHANGED <<inbox, cursor, ackSeq, ackRow, effect, todo, handled, restarts,
                 clicks>>

(* SetState("br_ack"), whose error is ignored.                             *)
SaveAck ==
  /\ phase = "save"
  /\ phase' = "recv"
  /\ \/ ackRow' = cursor /\ UNCHANGED faults
     \/ Fault /\ UNCHANGED ackRow
  /\ UNCHANGED <<inbox, serverAck, cursor, ackSeq, effect, todo, handled,
                 restarts, clicks>>

Consume == LoadAck \/ OpenStream \/ Recv \/ RelayFreeze \/ RelayUnfreeze
             \/ ResolveIDs \/ Ack \/ SaveAck

Failure == StreamError \/ HandlerError \/ AckError

-----------------------------------------------------------------------------
(* Everything else *)

(* A message arrives.  Ids are random: one can be named once it exists.    *)
Send(m) ==
  /\ Len(inbox) < MaxMessages
  /\ \A i \in Id : Names(m, i) => approval[i] # "none"
  /\ inbox' = Append(inbox, m)
  /\ UNCHANGED <<channel, effect, phase, todo, handled, bounds>>

\* A payment above the threshold parks an approval.
Escalate(i) ==
  /\ approval[i] = "none"
  /\ approval' = [approval EXCEPT ![i] = "pending"]
  /\ UNCHANGED <<inbox, channel, frozen, resolver, switcher, froze, phase, todo,
                 handled, bounds>>

\* The time of an approval is over.
Expire(i) ==
  /\ approval[i] = "pending"
  /\ approval' = [approval EXCEPT ![i] = "expired"]
  /\ UNCHANGED <<inbox, channel, frozen, resolver, switcher, froze, phase, todo,
                 handled, bounds>>

Click == clicks < MaxClicks /\ clicks' = clicks + 1

(* handleResolve: a conflict is answered unless the approval is pending.   *)
WebResolve(i, yes) ==
  /\ Click
  /\ approval[i] = "pending"
  /\ Resolved(i, yes, 0)
  /\ UNCHANGED <<inbox, channel, frozen, switcher, froze, phase, todo, handled,
                 faults, restarts>>

(* handleFreeze.                                                           *)
WebSwitch(on) ==
  /\ Click
  /\ frozen' = on
  /\ switcher' = 0
  /\ UNCHANGED <<inbox, channel, approval, resolver, froze, phase, todo, handled,
                 faults, restarts>>

(* The daemon stops anywhere and starts again: rows survive.               *)
Restart ==
  /\ phase # "start"
  /\ restarts < MaxRestarts
  /\ restarts' = restarts + 1
  /\ phase' = "start"
  /\ ackSeq' = 0 /\ cursor' = 0 /\ todo' = <<>>
  /\ UNCHANGED <<inbox, serverAck, ackRow, effect, handled, faults, clicks>>

Next ==
  \/ Consume
  \/ Failure
  \/ \E m \in Message : Send(m)
  \/ \E i \in Id : Escalate(i) \/ Expire(i)
  \/ \E i \in Id, yes \in BOOLEAN : WebResolve(i, yes)
  \/ \E on \in BOOLEAN : WebSwitch(on)
  \/ Restart

Spec == Init /\ [][Next]_vars

(* The goroutine keeps running and reconnects after every error; failures  *)
(* and restarts are finitely many.                                         *)
FairSpec == Spec /\ WF_vars(Consume)

-----------------------------------------------------------------------------
(* Properties *)

(* Whatever the channel will not be sent again has been applied: a message *)
(* at or below any acknowledgement (the client's, the one in memory, the   *)
(* saved one) went through handleReply to the end, across store errors,    *)
(* lost acknowledgements, reconnects and restarts.                         *)
NoCommandLost ==
  \A n \in 1 .. Len(inbox) :
    n <= serverAck \/ n <= ackSeq \/ n <= ackRow => n \in handled

(* An acknowledged reply of the owner decided something or had nothing     *)
(* left to decide: it won an approval it names, or none of them is pending *)
(* (resolveIDs skips ids that are not live and stops at the first win).    *)
RepliesDecide ==
  \A n \in 1 .. serverAck :
    inbox[n].owner /\ (Verdict(inbox[n]) \/ Kills(inbox[n])) =>
      \/ \E i \in Id : resolver[i] = n
      \/ \A i \in Id : Names(inbox[n], i) => approval[i] # "pending"

(* What a message resolved is what the owner asked for: the sender is the  *)
(* owner, the id is named, the verdict is the one written, and a reply     *)
(* with a freeze word denies, and only after the switch was thrown.        *)
VerdictsAreTheOwners ==
  \A i \in Id : resolver[i] # 0 =>
    LET m == inbox[resolver[i]] IN
    /\ m.owner /\ Names(m, i)
    /\ approval[i] = IF m.verb = "yes" /\ ~Kills(m) THEN "approved" ELSE "denied"
    /\ Kills(m) => resolver[i] \in froze

(* Replay never takes the switch back past a later command: unless the     *)
(* dashboard turned it since, the switch stands as the latest switching    *)
(* message that was applied left it, although every message may be         *)
(* delivered twice.                                                        *)
SwitchFollowsLatest ==
  switcher # 0 =>
    /\ frozen = Kills(inbox[switcher])
    /\ \A n \in handled : inbox[n].owner /\ Switches(inbox[n]) => n <= switcher

(* Every message is eventually applied: none is skipped for good and no    *)
(* reply blocks the ones behind it.                                        *)
MessagesHandled ==
  \A n \in 1 .. MaxMessages : n <= Len(inbox) ~> n \in handled

-----------------------------------------------------------------------------
(* The inductive invariant behind the safety properties *)

(* The client's acknowledgement is the latest, and at most one message     *)
(* beyond it was applied.                                                  *)
Acknowledged ==
  /\ ackSeq <= serverAck /\ ackRow <= serverAck
  /\ 1 .. serverAck \subseteq handled
  /\ handled \subseteq 1 .. serverAck + 1

(* Where the stream stands at each point of consume, and what is left of   *)
(* the message it is at.                                                   *)
StreamPosition ==
  /\ phase \in {"recv", "save"} => cursor = serverAck
  /\ phase \in Handling \cup {"ack"} => cursor = serverAck + 1
  /\ phase = "ack" => cursor \in handled
  /\ phase \in Handling => Current.owner
  /\ phase = "freeze" => Kills(Current)
  /\ phase = "unfreeze" => Current.verb = "unfreeze"
  /\ phase = "resolve" =>
       /\ Verdict(Current) \/ Kills(Current)
       /\ Kills(Current) => cursor \in froze /\ switcher \in {0, cursor}
  /\ phase \in {"freeze", "resolve"} =>
       /\ \A k \in DOMAIN todo : Names(Current, todo[k])
       /\ \A i \in Id : Names(Current, i) =>
            (\E k \in DOMAIN todo : todo[k] = i) \/ approval[i] # "pending"

\* An id is named only once it exists, and a resolved approval stays so.
NamesExist ==
  \A n \in 1 .. Len(inbox), i \in Id : Names(inbox[n], i) => approval[i] # "none"

\* A reply that was applied decided something or had nothing left to decide.
Decided(n) ==
  inbox[n].owner /\ (Verdict(inbox[n]) \/ Kills(inbox[n])) =>
    \/ \E i \in Id : resolver[i] = n
    \/ \A i \in Id : Names(inbox[n], i) => approval[i] # "pending"

RelayInv ==
  /\ TypeOK /\ Acknowledged /\ StreamPosition /\ NamesExist
  /\ \A n \in handled : Decided(n)
  /\ VerdictsAreTheOwners /\ SwitchFollowsLatest

=============================================================================
