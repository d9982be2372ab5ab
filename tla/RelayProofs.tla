----------------------------- MODULE RelayProofs -----------------------------
(***************************************************************************)
(* The Bison Relay channel, for any number of messages, approvals, lost    *)
(* calls, restarts and clicks: no command is acknowledged before it took   *)
(* effect, only the owner decides, and replay never takes the kill switch  *)
(* back past a later command.                                              *)
(***************************************************************************)
EXTENDS Relay, TLAPS

USE RelayAssumption

\* A message that arrived has the fields of a message.
LEMMA MessageAt ==
  ASSUME inbox \in Seq(Message), NEW n \in 1 .. Len(inbox)
  PROVE  /\ inbox[n] \in MessageRec
         /\ inbox[n].owner \in BOOLEAN /\ inbox[n].kill \in BOOLEAN
         /\ inbox[n].verb \in Verb /\ inbox[n].ids \in Seq(Id)
  BY DEF MessageRec

LEMMA Bounds ==
  MaxMessages \in Nat /\ MaxFaults \in Nat /\ MaxRestarts \in Nat /\ MaxClicks \in Nat
  OBVIOUS

\* The numbers a channel keeps, one by one.
LEMMA Numbers ==
  /\ {serverAck, cursor, ackSeq, ackRow} \subseteq 0 .. Len(inbox)
       <=> /\ serverAck \in 0 .. Len(inbox) /\ cursor \in 0 .. Len(inbox)
           /\ ackSeq \in 0 .. Len(inbox) /\ ackRow \in 0 .. Len(inbox)
  /\ {serverAck', cursor', ackSeq', ackRow'} \subseteq 0 .. Len(inbox')
       <=> /\ serverAck' \in 0 .. Len(inbox') /\ cursor' \in 0 .. Len(inbox')
           /\ ackSeq' \in 0 .. Len(inbox') /\ ackRow' \in 0 .. Len(inbox')
  OBVIOUS

\* They are numbers, and the other channel state is bounded, too.
LEMMA Typed ==
  ASSUME TypeOK
  PROVE  /\ inbox \in Seq(Message) /\ Len(inbox) \in Nat
         /\ serverAck \in 0 .. Len(inbox) /\ cursor \in 0 .. Len(inbox)
         /\ ackSeq \in 0 .. Len(inbox) /\ ackRow \in 0 .. Len(inbox)
         /\ phase \in Phase /\ todo \in Seq(Id) /\ handled \subseteq 1 .. Len(inbox)
         /\ faults \in 0 .. MaxFaults /\ restarts \in 0 .. MaxRestarts
         /\ clicks \in 0 .. MaxClicks
<1>1. Len(inbox) \in Nat
  BY DEF TypeOK
<1> QED BY <1>1, Numbers DEF TypeOK

\* The state of the channel may move where the types allow.
LEMMA TypesStay ==
  ASSUME TypeOK, UNCHANGED <<inbox, effect>>,
         serverAck' \in 0 .. Len(inbox), cursor' \in 0 .. Len(inbox),
         ackSeq' \in 0 .. Len(inbox), ackRow' \in 0 .. Len(inbox),
         phase' \in Phase, todo' \in Seq(Id), handled' \subseteq 1 .. Len(inbox),
         faults' \in 0 .. MaxFaults, restarts' \in 0 .. MaxRestarts,
         clicks' \in 0 .. MaxClicks
  PROVE  TypeOK'
<1>1. inbox' = inbox
  OBVIOUS
<1>2. {serverAck', cursor', ackSeq', ackRow'} \subseteq 0 .. Len(inbox')
  BY <1>1
<1>3. /\ frozen' = frozen /\ approval' = approval /\ froze' = froze
      /\ resolver' = resolver /\ switcher' = switcher
  BY DEF effect
<1> QED BY <1>1, <1>2, <1>3 DEF TypeOK

LEMMA InitRelayInv == Init => RelayInv
<1> SUFFICES ASSUME Init PROVE RelayInv
  OBVIOUS
<1>1. TypeOK
  <2>1. inbox \in Seq(Message) /\ todo \in Seq(Id) /\ Len(inbox) = 0
    BY DEF Init
  <2>2. approval \in [Id -> Status] /\ resolver \in [Id -> 0 .. Len(inbox)]
    BY <2>1 DEF Init, Status
  <2>3. {serverAck, cursor, ackSeq, ackRow} \subseteq 0 .. Len(inbox)
    BY <2>1 DEF Init
  <2>4. faults \in 0 .. MaxFaults /\ restarts \in 0 .. MaxRestarts /\ clicks \in 0 .. MaxClicks
    BY Bounds DEF Init
  <2> QED BY <2>1, <2>2, <2>3, <2>4 DEF Init, TypeOK, Phase
<1>2. Acknowledged /\ StreamPosition /\ NamesExist
  BY DEF Init, Acknowledged, StreamPosition, NamesExist, Handling
<1>3. VerdictsAreTheOwners /\ SwitchFollowsLatest /\ \A n \in handled : Decided(n)
  BY DEF Init, VerdictsAreTheOwners, SwitchFollowsLatest
<1> QED BY <1>1, <1>2, <1>3 DEF RelayInv

\* A step that neither receives a message nor has an effect keeps what the
\* invariant says of effects.
LEMMA EffectFrame ==
  ASSUME RelayInv, UNCHANGED <<inbox, effect>>
  PROVE  /\ NamesExist' /\ VerdictsAreTheOwners'
         /\ \A n \in handled : Decided(n)'
         /\ handled' = handled => SwitchFollowsLatest'
<1>1. NamesExist'
  BY DEF RelayInv, NamesExist, effect, Names
<1>2. VerdictsAreTheOwners'
  BY DEF RelayInv, VerdictsAreTheOwners, effect, Names, Kills, Verdict
<1>3. \A n \in handled : Decided(n)'
  BY DEF RelayInv, Decided, effect, Names, Kills, Verdict
<1>4. handled' = handled => SwitchFollowsLatest'
  BY DEF RelayInv, SwitchFollowsLatest, effect, Kills, Verdict, Switches
<1> QED BY <1>1, <1>2, <1>3, <1>4

\* Opening, breaking and resuming the stream, and saving the acknowledgement.
LEMMA ChannelSteps ==
  ASSUME RelayInv,
         LoadAck \/ OpenStream \/ StreamError \/ HandlerError \/ SaveAck \/ Restart
  PROVE  RelayInv'
<1> USE DEF RelayInv
<1>1. UNCHANGED <<inbox, effect, handled>>
  BY DEF LoadAck, OpenStream, StreamError, HandlerError, SaveAck, Restart, Fault, bounds
<1>2. TypeOK'
  <2>1. /\ inbox' \in Seq(Message) /\ Len(inbox') = Len(inbox)
        /\ serverAck' \in 0 .. Len(inbox) /\ cursor' \in 0 .. Len(inbox)
        /\ ackSeq' \in 0 .. Len(inbox) /\ ackRow' \in 0 .. Len(inbox)
    BY SMTT(30), <1>1, Numbers DEF LoadAck, OpenStream, StreamError, HandlerError, SaveAck, Restart,
       TypeOK, Later, channel
  <2>2. phase' \in Phase /\ todo' \in Seq(Id)
    <3>1. phase \in Phase /\ todo \in Seq(Id) /\ <<>> \in Seq(Id)
      BY DEF TypeOK
    <3>2. phase' \in {"start", "closed", "recv"} /\ (todo' = todo \/ todo' = <<>>)
      BY DEF LoadAck, OpenStream, StreamError, HandlerError, SaveAck, Restart
    <3> QED BY <3>1, <3>2 DEF Phase
  <2>3. faults' \in 0 .. MaxFaults /\ restarts' \in 0 .. MaxRestarts /\ clicks' = clicks
    <3>1. faults \in 0 .. MaxFaults /\ restarts \in 0 .. MaxRestarts
      BY DEF TypeOK
    <3>2. faults' = faults \/ (faults < MaxFaults /\ faults' = faults + 1)
      BY DEF LoadAck, OpenStream, StreamError, HandlerError, SaveAck, Restart, Fault, bounds
    <3>3. restarts' = restarts \/ (restarts < MaxRestarts /\ restarts' = restarts + 1)
      BY DEF LoadAck, OpenStream, StreamError, HandlerError, SaveAck, Restart, bounds
    <3>4. clicks' = clicks
      BY DEF LoadAck, OpenStream, StreamError, HandlerError, SaveAck, Restart, bounds
    <3> QED BY <3>1, <3>2, <3>3, <3>4, Bounds
  <2> QED BY <1>1, <2>1, <2>2, <2>3, Typed, TypesStay
<1>3. Acknowledged'
  <2>1. serverAck' = serverAck /\ handled' = handled
    BY <1>1 DEF LoadAck, OpenStream, StreamError, HandlerError, SaveAck, Restart, channel
  <2>2. ackSeq' \in {ackSeq, ackRow, 0}
    BY DEF LoadAck, OpenStream, StreamError, HandlerError, SaveAck, Restart, channel
  <2>3. ackRow' = ackRow \/ (phase = "save" /\ ackRow' = cursor)
    BY DEF LoadAck, OpenStream, StreamError, HandlerError, SaveAck, Restart, channel
  <2>4. phase = "save" => cursor = serverAck
    BY DEF StreamPosition
  <2>5. serverAck \in Nat
    BY Typed
  <2>6. ackSeq <= serverAck /\ ackRow <= serverAck /\ 0 <= serverAck /\ serverAck <= serverAck
    BY <2>5 DEF Acknowledged
  <2>7. ackSeq' <= serverAck
    BY <2>2, <2>6
  <2>8. ackRow' <= serverAck
    BY <2>3, <2>4, <2>6
  <2> QED BY <2>1, <2>7, <2>8 DEF Acknowledged
<1>4. StreamPosition'
  <2>1. phase' \in {"start", "closed", "recv"}
    BY DEF LoadAck, OpenStream, StreamError, HandlerError, SaveAck, Restart
  <2>2. phase' = "recv" => OpenStream \/ SaveAck
    BY DEF LoadAck, StreamError, HandlerError, Restart
  <2>3. ASSUME OpenStream PROVE cursor' = serverAck'
    <3>1. serverAck \in Nat /\ ackSeq \in Nat /\ ackSeq <= serverAck
      BY Typed DEF Acknowledged
    <3>2. Later(ackSeq, serverAck) = serverAck
      BY <3>1 DEF Later
    <3> QED BY <2>3, <3>2 DEF OpenStream
  <2>4. ASSUME SaveAck PROVE cursor' = serverAck'
    BY <2>4 DEF SaveAck, StreamPosition
  <2> QED BY <2>1, <2>2, <2>3, <2>4 DEF StreamPosition, Handling
<1> QED BY <1>1, <1>2, <1>3, <1>4, EffectFrame

LEMMA AckSteps ==
  ASSUME RelayInv, Ack \/ AckError
  PROVE  RelayInv'
<1> USE DEF RelayInv
<1>1. UNCHANGED <<inbox, effect, handled>>
  BY DEF Ack, AckError, Fault, bounds
<1>2. TypeOK'
  <2>1. /\ serverAck' \in {serverAck, Later(serverAck, cursor)} /\ ackSeq' \in {ackSeq, cursor}
        /\ cursor' = cursor /\ ackRow' = ackRow /\ todo' = todo
        /\ phase' \in {"save", "closed"}
    BY DEF Ack, AckError
  <2>2. /\ faults' = faults \/ (faults < MaxFaults /\ faults' = faults + 1)
        /\ restarts' = restarts /\ clicks' = clicks
    BY DEF Ack, AckError, Fault, bounds
  <2>3. Later(serverAck, cursor) \in {serverAck, cursor}
    BY DEF Later
  <2>4. serverAck' \in 0 .. Len(inbox) /\ ackSeq' \in 0 .. Len(inbox)
    BY <2>1, <2>3, Typed
  <2>5. faults' \in 0 .. MaxFaults
    BY <2>2, Bounds, Typed
  <2>6. phase' \in Phase
    BY <2>1 DEF Phase
  <2> QED BY <1>1, <2>1, <2>2, <2>4, <2>5, <2>6, Typed, TypesStay
<1>3. Acknowledged'
  BY SMTT(30), <1>1 DEF Ack, AckError, TypeOK, Acknowledged, StreamPosition, Later
<1>4. StreamPosition'
  BY SMTT(30), <1>1 DEF Ack, AckError, TypeOK, Acknowledged, StreamPosition, Handling, Later
<1> QED BY <1>1, <1>2, <1>3, <1>4, EffectFrame

LEMMA RecvStep ==
  ASSUME RelayInv, Recv
  PROVE  RelayInv'
<1> USE DEF RelayInv
<1> DEFINE m == inbox[cursor + 1]
<1>0. /\ cursor = serverAck /\ cursor + 1 \in 1 .. Len(inbox)
      /\ m \in MessageRec /\ m.owner \in BOOLEAN /\ m.kill \in BOOLEAN
      /\ m.verb \in Verb /\ m.ids \in Seq(Id)
  <2>1. cursor = serverAck /\ cursor < Len(inbox)
    BY DEF Recv, StreamPosition
  <2>2. cursor + 1 \in 1 .. Len(inbox) /\ inbox \in Seq(Message)
    BY <2>1, Typed
  <2> QED BY <2>1, <2>2, MessageAt
<1>1. UNCHANGED <<inbox, effect>>
  BY DEF Recv
<1> HIDE DEF m
<1>r. /\ cursor' = cursor + 1 /\ phase' = FirstStep(m) /\ todo' = m.ids
      /\ handled' \in {handled, handled \cup {cursor + 1}}
      /\ serverAck' = serverAck /\ ackSeq' = ackSeq /\ ackRow' = ackRow
      /\ faults' = faults /\ restarts' = restarts /\ clicks' = clicks
  BY DEF Recv, bounds, m
<1>2. TypeOK'
  <2>1. FirstStep(m) \in Phase
    BY DEF FirstStep, Phase, Handling
  <2>2. handled' \subseteq 1 .. Len(inbox)
    BY <1>0, <1>r, Typed
  <2>3. cursor' \in 0 .. Len(inbox)
    BY <1>0, <1>r, Typed
  <2> QED BY <1>0, <1>1, <1>r, <2>1, <2>2, <2>3, Typed, TypesStay
<1>3. Acknowledged'
  <2>1. serverAck \in Nat /\ cursor + 1 = serverAck + 1
    BY <1>0, Typed
  <2>2. serverAck + 1 \in 1 .. serverAck + 1
    BY <2>1
  <2>3. handled' \subseteq 1 .. serverAck + 1 /\ handled \subseteq handled'
    BY <1>r, <2>1, <2>2 DEF Acknowledged
  <2> QED BY <1>r, <2>3 DEF Acknowledged
<1> USE DEF m
<1>4. StreamPosition'
  <2>1. /\ FirstStep(m) \in Handling \cup {"ack"}
        /\ FirstStep(m) \in Handling => m.owner
        /\ FirstStep(m) = "freeze" => Kills(m)
        /\ FirstStep(m) = "unfreeze" => m.verb = "unfreeze"
        /\ FirstStep(m) = "resolve" => Verdict(m) /\ ~Kills(m)
    BY DEF FirstStep, Handling, IsOwner
  <2>2. cursor' = serverAck' + 1 /\ Current' = m
    BY <1>0, <1>1, <1>r DEF Current
  <2>3. FirstStep(m) = "ack" => cursor' \in handled'
    BY DEF Recv
  <2>4. /\ \A k \in DOMAIN todo' : Names(m, todo'[k])
        /\ \A i \in Id : Names(m, i) => \E k \in DOMAIN todo' : todo'[k] = i
    BY <1>r DEF Names
  <2> HIDE DEF m
  <2> QED BY SMTT(30), <1>r, <2>1, <2>2, <2>3, <2>4 DEF StreamPosition, Handling, Names
<1>5. FirstStep(m) = "ack" => ~(m.owner /\ (Verdict(m) \/ Kills(m) \/ Switches(m)))
  BY <1>0 DEF FirstStep, IsOwner, Kills, Verdict, Verb, Switches
<1>6. \A n \in handled' : Decided(n)'
  BY <1>0, <1>1, <1>5, EffectFrame DEF Recv, Decided, Kills, Verdict
<1>7. SwitchFollowsLatest'
  BY <1>0, <1>1, <1>5 DEF Recv, SwitchFollowsLatest, effect, Kills, Verdict, Switches
<1> QED BY <1>1, <1>2, <1>3, <1>4, <1>6, <1>7, EffectFrame

LEMMA SwitchSteps ==
  ASSUME RelayInv, RelayFreeze \/ RelayUnfreeze
  PROVE  RelayInv'
<1> USE DEF RelayInv
<1>0. /\ cursor = serverAck + 1 /\ cursor \in 1 .. Len(inbox)
      /\ Current.owner
      /\ phase = "freeze" => Kills(Current)
      /\ phase = "unfreeze" => ~Kills(Current) /\ ~Verdict(Current)
  BY SMTT(30) DEF RelayFreeze, RelayUnfreeze, StreamPosition, TypeOK, Handling, Kills, Verdict
<1>1. UNCHANGED <<inbox, channel, approval, resolver, todo>> /\ froze \subseteq froze'
  BY DEF RelayFreeze, RelayUnfreeze
<1>2. TypeOK'
  BY Bounds, Numbers, <1>0, <1>1 DEF RelayFreeze, RelayUnfreeze, TypeOK, Phase, Handling, channel, bounds
<1>3. Acknowledged'
  BY SMTT(30), <1>0, <1>1 DEF RelayFreeze, RelayUnfreeze, TypeOK, Acknowledged, channel
<1>4. StreamPosition'
  BY <1>0, <1>1 DEF RelayFreeze, RelayUnfreeze, StreamPosition, Handling, Current, Names, Kills, Verdict, channel
<1>5. NamesExist'
  BY <1>1 DEF NamesExist, Names
<1>6. VerdictsAreTheOwners'
  BY <1>1 DEF VerdictsAreTheOwners, Names, Kills, Verdict
<1>7. \A n \in handled' : Decided(n)'
  BY <1>0, <1>1 DEF RelayFreeze, RelayUnfreeze, Decided, Names, Kills, Verdict, Current, channel
<1>8. SwitchFollowsLatest'
  <2>1. switcher' = cursor /\ frozen' = Kills(Current)
    BY <1>0 DEF RelayFreeze, RelayUnfreeze, Kills, Verdict
  <2>2. handled' \subseteq handled \cup {cursor}
    BY DEF RelayFreeze, RelayUnfreeze
  <2>3. \A n \in handled' : n <= cursor
    BY <1>0, <2>2, Numbers DEF Acknowledged, TypeOK
  <2> QED BY <1>1, <2>1, <2>3 DEF SwitchFollowsLatest, Current, Kills, Verdict
<1> QED BY <1>2, <1>3, <1>4, <1>5, <1>6, <1>7, <1>8
\* A verdict on an approval that is pending, by the message n or, for 0, on
\* the dashboard.
LEMMA ResolvedEffect ==
  ASSUME RelayInv, NEW j \in Id, NEW yes \in BOOLEAN, NEW n \in 0 .. Len(inbox),
         approval[j] = "pending", Resolved(j, yes, n), UNCHANGED <<inbox, froze>>,
         n # 0 => /\ inbox[n].owner /\ Names(inbox[n], j)
                  /\ yes = Approves(inbox[n])
                  /\ Kills(inbox[n]) => n \in froze
  PROVE  /\ approval' \in [Id -> Status] /\ resolver' \in [Id -> 0 .. Len(inbox)]
         /\ resolver'[j] = n /\ \A i \in Id : i # j => resolver'[i] = resolver[i]
         /\ \A i \in Id : approval'[i] = "pending" => approval[i] = "pending"
         /\ NamesExist' /\ VerdictsAreTheOwners'
         /\ \A k \in handled : Decided(k)'
<1> USE DEF RelayInv
<1>1. /\ approval' = [approval EXCEPT ![j] = IF yes THEN "approved" ELSE "denied"]
      /\ resolver' = [resolver EXCEPT ![j] = n]
      /\ approval \in [Id -> Status] /\ resolver \in [Id -> 0 .. Len(inbox)]
      /\ inbox \in Seq(Message)
  BY DEF Resolved, TypeOK
<1>2. /\ approval' \in [Id -> Status] /\ resolver' \in [Id -> 0 .. Len(inbox)]
      /\ resolver'[j] = n /\ \A i \in Id : i # j => resolver'[i] = resolver[i]
      /\ \A i \in Id : i # j => approval'[i] = approval[i]
      /\ approval'[j] = IF yes THEN "approved" ELSE "denied"
  BY <1>1 DEF Status
<1>3. NamesExist'
  BY <1>2 DEF NamesExist, Names
<1>4. VerdictsAreTheOwners'
  <2>1. ASSUME NEW i \in Id, resolver'[i] # 0
        PROVE  LET m == inbox[resolver'[i]] IN
               /\ m.owner /\ Names(m, i)
               /\ approval'[i] = IF m.verb = "yes" /\ ~Kills(m) THEN "approved" ELSE "denied"
               /\ Kills(m) => resolver'[i] \in froze'
    <3>1. CASE i = j
      <4>1. n # 0 /\ resolver'[i] = n
        BY <1>2, <2>1, <3>1
      <4>2. yes <=> inbox[n].verb = "yes" /\ ~Kills(inbox[n])
        BY <4>1 DEF Approves, Kills, Verdict
      <4> QED BY <1>2, <3>1, <4>1, <4>2
    <3>2. CASE i # j
      BY <1>2, <2>1, <3>2 DEF VerdictsAreTheOwners
    <3> QED BY <3>1, <3>2
  <2> QED BY <2>1 DEF VerdictsAreTheOwners, Names, Kills, Verdict
<1>5. resolver[j] = 0
  <2>1. resolver[j] # 0 => approval[j] \in {"approved", "denied"}
    BY DEF VerdictsAreTheOwners
  <2> QED BY <2>1
<1>6. ASSUME NEW k \in handled PROVE Decided(k)'
  <2>1. Decided(k) /\ k # 0
    BY <1>6 DEF TypeOK
  <2>2. (\E i \in Id : resolver[i] = k) => \E i \in Id : resolver'[i] = k
    BY <1>2, <1>5, <2>1
  <2>3. \A i \in Id : approval[i] # "pending" => approval'[i] # "pending"
    BY <1>2
  <2> QED BY <2>1, <2>2, <2>3 DEF Decided, Names, Kills, Verdict
<1> QED BY <1>2, <1>3, <1>4, <1>6

LEMMA ResolveStep ==
  ASSUME RelayInv, ResolveIDs
  PROVE  RelayInv'
<1> USE DEF RelayInv
<1>0. /\ cursor = serverAck + 1 /\ cursor \in 1 .. Len(inbox)
      /\ Current.owner /\ (Verdict(Current) \/ Kills(Current))
      /\ Kills(Current) => cursor \in froze /\ switcher \in {0, cursor}
      /\ \A k \in DOMAIN todo : Names(Current, todo[k])
      /\ \A i \in Id : Names(Current, i) =>
           (\E k \in DOMAIN todo : todo[k] = i) \/ approval[i] # "pending"
      /\ phase = "resolve"
  BY Numbers DEF ResolveIDs, StreamPosition, TypeOK, Handling
<1>1. UNCHANGED <<inbox, channel, frozen, switcher, froze, bounds>>
  BY DEF ResolveIDs
<1>2. CASE todo # <<>> /\ approval[Head(todo)] # "pending" /\ todo' = Tail(todo)
           /\ UNCHANGED <<phase, handled, approval, resolver>>
  <2>0. /\ todo \in Seq(Id) /\ Tail(todo) \in Seq(Id) /\ Len(todo) \in Nat \ {0}
        /\ DOMAIN todo = 1 .. Len(todo) /\ DOMAIN Tail(todo) = 1 .. Len(todo) - 1
        /\ \A k \in 1 .. Len(todo) - 1 : Tail(todo)[k] = todo[k + 1]
        /\ Head(todo) = todo[1]
    BY <1>2 DEF TypeOK
  <2>1. TypeOK'
    BY <1>1, <1>2, <2>0 DEF TypeOK, channel, bounds
  <2>2. Acknowledged'
    BY <1>1, <1>2 DEF Acknowledged, channel
  <2>3. StreamPosition'
    <3>1. \A k \in DOMAIN Tail(todo) : k + 1 \in DOMAIN todo /\ Tail(todo)[k] = todo[k + 1]
      BY <2>0
    <3>2. \A k \in DOMAIN todo : todo[k] = Head(todo) \/ \E l \in DOMAIN Tail(todo) : Tail(todo)[l] = todo[k]
      <4> TAKE k \in DOMAIN todo
      <4>1. CASE k = 1
        BY <2>0, <4>1
      <4>2. CASE k # 1
        <5>1. k - 1 \in DOMAIN Tail(todo) /\ Tail(todo)[k - 1] = todo[k]
          BY <2>0, <4>2
        <5> QED BY <5>1
      <4> QED BY <4>1, <4>2
    <3>3. /\ \A k \in DOMAIN todo' : Names(Current, todo'[k])
          /\ \A i \in Id : Names(Current, i) =>
               (\E k \in DOMAIN todo' : todo'[k] = i) \/ approval[i] # "pending"
      BY <1>0, <1>2, <3>1, <3>2
    <3> QED BY <1>0, <1>1, <1>2, <3>3 DEF StreamPosition, Handling, Current, Names, Kills,
                                          Verdict, channel
  <2>4. NamesExist' /\ VerdictsAreTheOwners' /\ SwitchFollowsLatest' /\ \A n \in handled' : Decided(n)'
    BY <1>1, <1>2, EffectFrame DEF effect
  <2> QED BY <2>1, <2>2, <2>3, <2>4
<1>3. ASSUME phase' = "ack", handled' = handled \cup {cursor}, UNCHANGED todo,
             approval' \in [Id -> Status], resolver' \in [Id -> 0 .. Len(inbox)],
             NamesExist', VerdictsAreTheOwners',
             \A n \in handled : Decided(n)',
             Decided(cursor)'
      PROVE  RelayInv'
  <2>1. TypeOK'
    BY <1>0, <1>1, <1>3, Numbers DEF TypeOK, channel, bounds, Phase
  <2>2. Acknowledged'
    <3>1. /\ serverAck \in Nat /\ ackSeq' = ackSeq /\ ackRow' = ackRow /\ serverAck' = serverAck
          /\ cursor \in 1 .. serverAck + 1
      BY <1>0, <1>1, Numbers DEF channel, TypeOK
    <3> QED BY <1>3, <3>1 DEF Acknowledged
  <2>3. StreamPosition'
    BY <1>0, <1>1, <1>3 DEF StreamPosition, Handling, channel
  <2>4. SwitchFollowsLatest'
    <3>1. switcher # 0 =>
            /\ frozen = Kills(inbox[switcher])
            /\ \A n \in handled : inbox[n].owner /\ Switches(inbox[n]) => n <= switcher
      BY DEF SwitchFollowsLatest
    <3>2. switcher # 0 /\ Switches(Current) => cursor <= switcher
      BY <1>0 DEF Switches, Verdict, Kills
    <3> QED BY <1>0, <1>1, <1>3, <3>1, <3>2 DEF SwitchFollowsLatest, Switches, Kills, Verdict,
                                                Current
  <2>5. cursor' = cursor
    BY <1>1 DEF channel
  <2> QED BY <1>3, <2>1, <2>2, <2>3, <2>4, <2>5
<1>4. CASE todo = <<>> /\ phase' = "ack" /\ handled' = handled \cup {cursor}
           /\ UNCHANGED <<todo, approval, resolver>>
  <2>1. Decided(cursor)
    BY <1>0, <1>4 DEF Decided, Current
  <2>2. Decided(cursor)'
    BY <1>1, <1>4, <2>1 DEF Decided, Names, Kills, Verdict, channel
  <2> QED BY <1>1, <1>3, <1>4, <2>2, EffectFrame DEF effect, TypeOK
<1>5. CASE /\ todo # <<>> /\ approval[Head(todo)] = "pending"
           /\ Resolved(Head(todo), Approves(Current), cursor)
           /\ phase' = "ack" /\ handled' = handled \cup {cursor} /\ UNCHANGED todo
  <2>1. Head(todo) \in Id /\ Names(Current, Head(todo))
    BY SMTT(30), <1>0, <1>5 DEF TypeOK
  <2>2. Approves(Current) \in BOOLEAN
    BY DEF Approves
  <2>3. /\ approval' \in [Id -> Status] /\ resolver' \in [Id -> 0 .. Len(inbox)]
        /\ resolver'[Head(todo)] = cursor
        /\ NamesExist' /\ VerdictsAreTheOwners' /\ \A k \in handled : Decided(k)'
    BY <1>0, <1>1, <1>5, <2>1, <2>2, ResolvedEffect DEF Current
  <2>4. Decided(cursor)'
    BY <1>1, <2>1, <2>3 DEF Decided, channel
  <2> QED BY <1>3, <1>5, <2>3, <2>4
<1> QED BY <1>2, <1>4, <1>5 DEF ResolveIDs

LEMMA WebSteps ==
  ASSUME RelayInv, (\E i \in Id, yes \in BOOLEAN : WebResolve(i, yes)) \/ \E on \in BOOLEAN : WebSwitch(on)
  PROVE  RelayInv'
<1> USE DEF RelayInv
<1>1. ASSUME NEW j \in Id, NEW yes \in BOOLEAN, WebResolve(j, yes)
      PROVE  RelayInv'
  <2>1. /\ approval' \in [Id -> Status] /\ resolver' \in [Id -> 0 .. Len(inbox)]
        /\ \A i \in Id : approval'[i] = "pending" => approval[i] = "pending"
        /\ NamesExist' /\ VerdictsAreTheOwners' /\ \A k \in handled : Decided(k)'
    <3>1. 0 \in 0 .. Len(inbox)
      BY DEF TypeOK
    <3> QED BY <1>1, <3>1, ResolvedEffect DEF WebResolve
  <2>2. TypeOK'
    <3>1. clicks' \in 0 .. MaxClicks
      BY SMTT(30), <1>1, Bounds DEF WebResolve, Click, TypeOK
    <3> QED BY <1>1, <2>1, <3>1 DEF WebResolve, TypeOK, channel
  <2>3. Acknowledged'
    BY <1>1 DEF WebResolve, Acknowledged, channel
  <2>4. StreamPosition'
    BY <1>1, <2>1 DEF WebResolve, StreamPosition, channel, Current, Kills, Verdict, Names, Handling
  <2>5. SwitchFollowsLatest'
    BY <1>1 DEF WebResolve, SwitchFollowsLatest, Kills, Verdict, Switches
  <2> QED BY <1>1, <2>1, <2>2, <2>3, <2>4, <2>5 DEF WebResolve
<1>2. ASSUME NEW on \in BOOLEAN, WebSwitch(on)
      PROVE  RelayInv'
  <2>1. TypeOK'
    <3>1. clicks' \in 0 .. MaxClicks
      BY <1>2, Bounds DEF WebSwitch, Click, TypeOK
    <3> QED BY SMTT(30), <1>2, <3>1 DEF WebSwitch, TypeOK, channel
  <2>2. Acknowledged'
    BY <1>2 DEF WebSwitch, Acknowledged, channel
  <2>3. StreamPosition'
    BY <1>2 DEF WebSwitch, StreamPosition, channel, Current, Kills, Verdict, Names, Handling
  <2>4. NamesExist' /\ SwitchFollowsLatest'
    BY <1>2 DEF WebSwitch, NamesExist, Names, SwitchFollowsLatest
  <2>5. VerdictsAreTheOwners'
    BY <1>2 DEF WebSwitch, VerdictsAreTheOwners, Names, Kills, Verdict
  <2>6. \A n \in handled' : Decided(n)'
    BY <1>2 DEF WebSwitch, Decided, Names, Kills, Verdict
  <2> QED BY <2>1, <2>2, <2>3, <2>4, <2>5, <2>6
<1> QED BY <1>1, <1>2

\* An approval is parked or expires.
LEMMA AgentSteps ==
  ASSUME RelayInv, NEW j \in Id, Escalate(j) \/ Expire(j)
  PROVE  RelayInv'
<1> USE DEF RelayInv
<1>1. /\ UNCHANGED <<inbox, channel, frozen, resolver, switcher, froze, phase, todo, handled, bounds>>
      /\ approval' \in [Id -> Status]
      /\ \A i \in Id : approval'[i] = "none" => approval[i] = "none"
      /\ \A i \in Id : approval'[i] = "pending" => approval[i] \in {"none", "pending"}
      /\ \A i \in Id : approval[i] \in {"approved", "denied"} => approval'[i] = approval[i]
  BY DEF Escalate, Expire, TypeOK, Status
<1>2. TypeOK'
  BY <1>1 DEF TypeOK, channel, bounds
<1>3. Acknowledged' /\ NamesExist' /\ SwitchFollowsLatest'
  BY <1>1 DEF Acknowledged, NamesExist, SwitchFollowsLatest, channel, Names, Kills, Verdict, Switches
<1>4. \A n \in 1 .. Len(inbox), i \in Id :
        Names(inbox[n], i) /\ approval[i] # "pending" => approval'[i] # "pending"
  BY <1>1 DEF NamesExist
<1>5. StreamPosition'
  <2>1. phase \in {"freeze", "resolve"} => cursor \in 1 .. Len(inbox)
    BY SMTT(30), Numbers DEF TypeOK, StreamPosition, Handling
  <2> QED BY <1>1, <1>4, <2>1 DEF StreamPosition, Current, Kills, Verdict, Names, Handling, channel
<1>6. VerdictsAreTheOwners'
  <2>1. \A i \in Id : resolver[i] # 0 => approval[i] \in {"approved", "denied"}
    BY DEF VerdictsAreTheOwners
  <2> QED BY <1>1, <2>1 DEF VerdictsAreTheOwners, Names, Kills, Verdict
<1>7. \A n \in handled' : Decided(n)'
  <2>1. handled \subseteq 1 .. Len(inbox)
    BY DEF TypeOK
  <2> QED BY <1>1, <1>4, <2>1 DEF Decided, Names, Kills, Verdict
<1> QED BY <1>2, <1>3, <1>5, <1>6, <1>7

LEMMA SendStep ==
  ASSUME RelayInv, NEW m \in Message, Send(m)
  PROVE  RelayInv'
<1> USE DEF RelayInv
<1>0. /\ inbox' \in Seq(Message) /\ Len(inbox) \in Nat /\ Len(inbox') = Len(inbox) + 1
      /\ \A n \in 1 .. Len(inbox) : inbox'[n] = inbox[n]
      /\ inbox'[Len(inbox) + 1] = m
  BY SMTT(30) DEF Send, TypeOK
<1>1. UNCHANGED <<channel, effect, phase, todo, handled, bounds>>
  BY DEF Send
<1>2. TypeOK'
  <2>1. \A k \in 0 .. Len(inbox) : k \in 0 .. Len(inbox')
    BY <1>0
  <2>2. {serverAck', cursor', ackSeq', ackRow'} \subseteq 0 .. Len(inbox')
    BY <1>1, <2>1, Typed DEF channel
  <2>3. \A k \in 1 .. Len(inbox) : k \in 1 .. Len(inbox')
    BY <1>0
  <2>4. handled' \subseteq 1 .. Len(inbox') /\ froze' \subseteq 1 .. Len(inbox')
    BY <1>1, <2>3 DEF TypeOK, effect
  <2>5. resolver' \in [Id -> 0 .. Len(inbox')] /\ switcher' \in 0 .. Len(inbox')
    BY <1>1, <2>1 DEF TypeOK, effect
  <2> QED BY <1>0, <1>1, <2>2, <2>4, <2>5 DEF TypeOK, effect, bounds
<1>3. Acknowledged'
  BY <1>1 DEF Acknowledged, channel
<1>4. StreamPosition'
  <2>1. phase \in Handling => cursor \in 1 .. Len(inbox)
    BY Numbers DEF TypeOK, StreamPosition, Handling
  <2> QED BY <1>0, <1>1, <2>1 DEF StreamPosition, Current, Kills, Verdict, Names, Handling, channel, effect
<1>5. NamesExist'
  <2>1. \A n \in 1 .. Len(inbox') : n \in 1 .. Len(inbox) \/ n = Len(inbox) + 1
    BY <1>0
  <2> QED BY <1>0, <1>1, <2>1 DEF NamesExist, Send, Names, effect
<1>6. VerdictsAreTheOwners'
  <2>1. \A i \in Id : resolver[i] # 0 => resolver[i] \in 1 .. Len(inbox)
    BY DEF TypeOK
  <2> QED BY <1>0, <1>1, <2>1 DEF VerdictsAreTheOwners, Names, Kills, Verdict, effect
<1>7. handled \subseteq 1 .. Len(inbox) /\ (switcher # 0 => switcher \in 1 .. Len(inbox))
  BY DEF TypeOK
<1>8. \A n \in handled' : Decided(n)'
  BY <1>0, <1>1, <1>7 DEF Decided, Names, Kills, Verdict, effect
<1>9. SwitchFollowsLatest'
  BY <1>0, <1>1, <1>7 DEF SwitchFollowsLatest, Kills, Verdict, Switches, effect
<1> QED BY <1>2, <1>3, <1>4, <1>5, <1>6, <1>8, <1>9

LEMMA StutterRelay == RelayInv /\ UNCHANGED vars => RelayInv'
<1> SUFFICES ASSUME RelayInv, UNCHANGED vars PROVE RelayInv'
  OBVIOUS
<1>1. UNCHANGED <<inbox, effect, channel, phase, todo, handled, bounds>>
  BY DEF vars, effect, channel, bounds
<1>2. TypeOK' /\ Acknowledged'
  BY <1>1 DEF RelayInv, TypeOK, Acknowledged, effect, channel, bounds
<1>3. StreamPosition'
  BY <1>1 DEF RelayInv, StreamPosition, Current, Names, Kills, Verdict, Handling, effect, channel
<1> QED BY <1>1, <1>2, <1>3, EffectFrame DEF RelayInv

(* The inductive invariant of the channel: at most one message beyond the  *)
(* client's acknowledgement was applied, and the stream is at that one.    *)
THEOREM RelayInvariant == Spec => []RelayInv
<1>1. Init => RelayInv
  BY InitRelayInv
<1>2. RelayInv /\ [Next]_vars => RelayInv'
  <2> SUFFICES ASSUME RelayInv, [Next]_vars PROVE RelayInv'
    OBVIOUS
  <2>1. CASE Consume
    BY <2>1, ChannelSteps, AckSteps, RecvStep, SwitchSteps, ResolveStep DEF Consume
  <2>2. CASE Failure
    BY <2>2, ChannelSteps, AckSteps DEF Failure
  <2>3. CASE Restart
    BY <2>3, ChannelSteps
  <2>4. CASE \E m \in Message : Send(m)
    BY <2>4, SendStep
  <2>5. CASE \E i \in Id : Escalate(i) \/ Expire(i)
    BY <2>5, AgentSteps
  <2>6. CASE (\E i \in Id, yes \in BOOLEAN : WebResolve(i, yes)) \/ \E on \in BOOLEAN : WebSwitch(on)
    BY <2>6, WebSteps
  <2>7. CASE UNCHANGED vars
    BY <2>7, StutterRelay
  <2> QED BY <2>1, <2>2, <2>3, <2>4, <2>5, <2>6, <2>7 DEF Next
<1> QED BY <1>1, <1>2, PTL DEF Spec

(* A message at or below any acknowledgement, the client's, the one in     *)
(* memory or the saved one, was applied to the end (consume, handleReply). *)
THEOREM EveryAckWasApplied == Spec => []NoCommandLost
<1>1. RelayInv => NoCommandLost
  <2> SUFFICES ASSUME RelayInv, NEW n \in 1 .. Len(inbox),
                      n <= serverAck \/ n <= ackSeq \/ n <= ackRow
               PROVE  n \in handled
    BY DEF NoCommandLost
  <2>1. Len(inbox) \in Nat /\ serverAck \in Nat /\ ackSeq \in Nat /\ ackRow \in Nat
    BY Numbers DEF RelayInv, TypeOK
  <2> QED BY <2>1 DEF RelayInv, Acknowledged
<1> QED BY <1>1, RelayInvariant, PTL

(* An acknowledged reply of the owner won an approval it names or found    *)
(* none of them pending (resolveIDs).                                      *)
THEOREM EveryReplyDecides == Spec => []RepliesDecide
<1>1. RelayInv => RepliesDecide
  BY DEF RelayInv, Acknowledged, RepliesDecide, Decided
<1> QED BY <1>1, RelayInvariant, PTL

(* Only the owner's messages resolve, as written, and a reply with a       *)
(* freeze word denies after the switch was thrown (handleReply).           *)
THEOREM OnlyTheOwnerDecides == Spec => []VerdictsAreTheOwners
  BY RelayInvariant, PTL DEF RelayInv

(* Unless the dashboard turned it since, the switch stands as the latest   *)
(* switching message that was applied left it (freeze, unfreeze).          *)
THEOREM SwitchIsNotTakenBack == Spec => []SwitchFollowsLatest
  BY RelayInvariant, PTL DEF RelayInv

(* The channel's state is well typed: no acknowledgement runs ahead of the *)
(* messages that arrived.                                                  *)
THEOREM RelayTypeOK == Spec => []TypeOK
  BY RelayInvariant, PTL DEF RelayInv

=============================================================================
