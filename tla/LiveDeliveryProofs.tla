------------------------- MODULE LiveDeliveryProofs -------------------------
(***************************************************************************)
(* Live delivery has no gap, tells nobody what he may not read and keeps   *)
(* its permits, for every set of sessions, every capacity and every bound. *)
(***************************************************************************)
EXTENDS LiveDelivery, FiniteSetTheorems, SequenceTheorems, TLAPS

-----------------------------------------------------------------------------
(* The inductive invariant *)

\* An offset is published at most once: it is in the bus, or waits with the one
\* session that stored it.
PublishedOnce ==
  /\ \A i, j \in DOMAIN bus : bus[i] = bus[j] => i = j
  /\ \A s \in Sessions : \A i, j \in DOMAIN toPublish[s] :
       toPublish[s][i] = toPublish[s][j] => i = j
  /\ \A s \in Sessions : \A i \in DOMAIN toPublish[s], j \in DOMAIN bus :
       toPublish[s][i] # bus[j]
  /\ \A s, t \in Sessions : \A i \in DOMAIN toPublish[s], j \in DOMAIN toPublish[t] :
       toPublish[s][i] = toPublish[t][j] => s = t

\* A receiver is within the bus or waits at its end.
ReceiverInBus == \A s \in Sessions : next[s] <= Len(bus) + 1

\* Only a session that is publishing has offsets to publish, one that is gone has no
\* subscription, and a REQ being handled has filters.
TasksInPhase ==
  \A s \in Sessions :
    /\ phase[s] # "publishing" => toPublish[s] = <<>>
    /\ phase[s] = "none" => Active(s) = {}
    /\ phase[s] = "subscribing" => req[s].filter # {}

TypeInv == TypeOK /\ PublishedOnce /\ ReceiverInBus /\ TasksInPhase

-----------------------------------------------------------------------------
(* Types *)

\* The parts of TypeOK.
ReqTypes == [sub : SubIds, filter : SUBSET Topics, complete : BOOLEAN,
             hits : SUBSET DOMAIN log, denied : BOOLEAN]
SubTypes == [filter : SUBSET Topics, seen : SUBSET DOMAIN log, withheld : SUBSET DOMAIN log]

LogTyped == log \in Seq(LogEvents) /\ Len(log) <= MaxEvents
RelayTyped ==
  /\ members \subseteq Sessions /\ bus \in Seq(DOMAIN log)
  /\ lost \subseteq DOMAIN log /\ faults \in 0..MaxFaults
TaskTyped ==
  /\ phase \in [Sessions -> {"none", "ready", "publishing", "subscribing"}]
  /\ next \in [Sessions -> 1..(MaxEvents + 1)]
  /\ queued \in [Sessions -> 0..QueueCapacity]
  /\ authed \subseteq Sessions
PublishTyped == toPublish \in [Sessions -> Seq(DOMAIN log)]
ReqTyped == req \in [Sessions -> ReqTypes]
SubsTyped == subs \in [Sessions -> [SubIds -> SubTypes]]
ClientTyped ==
  /\ permits \in [Sessions -> SUBSET SubIds]
  /\ told \in [Sessions -> [SubIds -> {"none", "open", "closed"}]]
  /\ commands \in 0..MaxCommands

\* The parts make up the whole, now and after a step.
LEMMA TypeParts ==
  /\ TypeOK <=> /\ LogTyped /\ RelayTyped /\ TaskTyped /\ PublishTyped /\ ReqTyped
                /\ SubsTyped /\ ClientTyped
  /\ TypeOK' <=> /\ LogTyped' /\ RelayTyped' /\ TaskTyped' /\ PublishTyped' /\ ReqTyped'
                 /\ SubsTyped' /\ ClientTyped'
<1> USE DEF TypeOK, LogTyped, RelayTyped, TaskTyped, PublishTyped, ReqTyped, SubsTyped,
            ClientTyped, ReqTypes, SubTypes
<1>1. TypeOK => /\ LogTyped /\ RelayTyped /\ TaskTyped /\ PublishTyped /\ ReqTyped
                /\ SubsTyped /\ ClientTyped
  OBVIOUS
<1>2. LogTyped /\ RelayTyped /\ TaskTyped /\ PublishTyped /\ ReqTyped /\ SubsTyped
        /\ ClientTyped => TypeOK
  BY Zenon
<1>3. TypeOK' => /\ LogTyped' /\ RelayTyped' /\ TaskTyped' /\ PublishTyped' /\ ReqTyped'
                 /\ SubsTyped' /\ ClientTyped'
  OBVIOUS
<1>4. LogTyped' /\ RelayTyped' /\ TaskTyped' /\ PublishTyped' /\ ReqTyped' /\ SubsTyped'
        /\ ClientTyped' => TypeOK'
  BY Zenon
<1> QED
  BY <1>1, <1>2, <1>3, <1>4

\* An interval from 1 has as many members as its end says.
LEMMA UpTo ==
  ASSUME NEW n \in Nat
  PROVE  IsFiniteSet(1..n) /\ Cardinality(1..n) = n
<1>1. 1 \in Int /\ n \in Int
  OBVIOUS
<1>2. IsFiniteSet(1..n) /\ Cardinality(1..n) = IF 1 > n THEN 0 ELSE n - 1 + 1
  BY ONLY <1>1, FS_Interval
<1> QED
  BY <1>2

\* The bus is no longer than the log: nothing is published twice.
LEMMA BusFits ==
  ASSUME TypeOK, PublishedOnce
  PROVE  Len(bus) \in Nat /\ Len(bus) <= Len(log) /\ Len(bus) <= MaxEvents
<1>1. bus \in [1..Len(bus) -> 1..Len(log)] /\ Len(bus) \in Nat /\ Len(log) \in Nat
  BY DEF TypeOK
<1>2. bus \in Injection(1..Len(bus), 1..Len(log))
  BY <1>1 DEF PublishedOnce, Injection, IsInjective
<1>3. IsFiniteSet(1..Len(log)) /\ Cardinality(1..Len(log)) = Len(log)
  BY <1>1, UpTo
<1>4. Cardinality(1..Len(bus)) = Len(bus)
  BY <1>1, UpTo
<1>5. Cardinality(1..Len(bus)) <= Cardinality(1..Len(log))
  BY <1>2, <1>3, FS_Injection
<1> QED
  BY <1>1, <1>3, <1>4, <1>5, LiveAssumption DEF TypeOK

\* The state before anything happens.
LEMMA InitTypeInv == Init => TypeInv
<1> SUFFICES ASSUME Init PROVE TypeInv
  OBVIOUS
<1>1. NoReq \in [sub : SubIds, filter : SUBSET Topics, complete : BOOLEAN,
                 hits : SUBSET DOMAIN log, denied : BOOLEAN]
  BY LiveAssumption DEF NoReq
<1>2. NoSubs \in [SubIds -> [filter : SUBSET Topics, seen : SUBSET DOMAIN log,
                             withheld : SUBSET DOMAIN log]]
  BY DEF NoSubs, NoSub
<1>3. TypeOK
  BY <1>1, <1>2, LiveAssumption DEF Init, TypeOK
<1>4. PublishedOnce /\ ReceiverInBus
  BY DEF Init, PublishedOnce, ReceiverInBus
<1>5. TasksInPhase
  BY DEF Init, TasksInPhase, Active, NoSubs, NoSub
<1> QED
  BY <1>3, <1>4, <1>5 DEF TypeInv

\* A REQ and subscriptions that are empty.
LEMMA EmptyTyped == NoReq \in ReqTypes /\ NoSubs \in [SubIds -> SubTypes]
BY LiveAssumption DEF NoReq, ReqTypes, NoSubs, NoSub, SubTypes

\* What is stored is only added to, and nothing is published.
LogGrows == LogTyped' /\ RelayTyped' /\ DOMAIN log \subseteq DOMAIN log' /\ UNCHANGED bus

\* An action that leaves the relay alone.
LEMMA SameRelay ==
  ASSUME TypeInv, UNCHANGED relay
  PROVE  LogGrows
BY DEF TypeInv, TypeOK, relay, LogTyped, RelayTyped, LogGrows

\* What refers to the log still does.
LEMMA WiderTypes ==
  ASSUME TypeInv, DOMAIN log \subseteq DOMAIN log'
  PROVE  /\ req \in [Sessions -> ReqTypes'] /\ NoReq \in ReqTypes'
         /\ subs \in [Sessions -> [SubIds -> SubTypes']] /\ NoSubs \in [SubIds -> SubTypes']
         /\ toPublish \in [Sessions -> Seq(DOMAIN log')]
<1>1. ReqTypes \subseteq ReqTypes'
  BY DEF ReqTypes
<1>2. SubTypes \subseteq SubTypes'
  BY DEF SubTypes
<1>3. req \in [Sessions -> ReqTypes] /\ subs \in [Sessions -> [SubIds -> SubTypes]]
  BY DEF TypeInv, TypeOK, ReqTypes, SubTypes
<1>4. req \in [Sessions -> ReqTypes'] /\ NoReq \in ReqTypes'
  BY <1>1, <1>3, EmptyTyped
<1>5. subs \in [Sessions -> [SubIds -> SubTypes']]
  BY <1>2, <1>3
<1>6. NoSubs \in [SubIds -> SubTypes']
  BY <1>2, EmptyTyped
<1>7. \A s \in Sessions : toPublish[s] \in Seq(DOMAIN log')
  BY SeqMonotonic DEF TypeInv, TypeOK
<1>8. toPublish \in [Sessions -> Seq(DOMAIN log')]
  BY <1>7 DEF TypeInv, TypeOK
<1> QED
  BY <1>4, <1>5, <1>6, <1>8

\* Everything of a session is dropped at its end.
LEMMA EndType ==
  ASSUME TypeInv, NEW s \in Sessions, End(s), LogGrows,
         commands' \in 0..MaxCommands, phase[s] = "publishing" => toPublish[s] = <<>>
  PROVE  TypeInv'
<1>1. TaskTyped'
  <2>1. TaskTyped
    BY DEF TypeInv, TypeOK, TaskTyped
  <2>2. 1 \in 1..MaxEvents + 1 /\ 0 \in 0..QueueCapacity
    BY LiveAssumption
  <2>3. /\ phase' \in [Sessions -> {"none", "ready", "publishing", "subscribing"}]
        /\ authed' \subseteq Sessions
    BY <2>1 DEF End, TaskTyped
  <2>4. next' \in [Sessions -> 1..MaxEvents + 1]
    BY <2>1, <2>2 DEF End, TaskTyped
  <2>5. queued' \in [Sessions -> 0..QueueCapacity]
    BY <2>1, <2>2 DEF End, TaskTyped
  <2> QED BY <2>3, <2>4, <2>5 DEF TaskTyped
<1>2. PublishTyped' /\ ReqTyped' /\ SubsTyped'
  <2>1. /\ req \in [Sessions -> ReqTypes'] /\ NoReq \in ReqTypes'
        /\ subs \in [Sessions -> [SubIds -> SubTypes']] /\ NoSubs \in [SubIds -> SubTypes']
        /\ toPublish \in [Sessions -> Seq(DOMAIN log')]
    BY WiderTypes DEF LogGrows
  <2>2. /\ req' = [req EXCEPT ![s] = NoReq] /\ subs' = [subs EXCEPT ![s] = NoSubs]
        /\ toPublish' = toPublish
    BY DEF End
  <2>3. PublishTyped'
    BY <2>1, <2>2 DEF PublishTyped
  <2>4. ReqTyped'
    BY <2>1, <2>2 DEF ReqTyped
  <2>5. SubsTyped'
    BY <2>1, <2>2 DEF SubsTyped
  <2> QED BY <2>3, <2>4, <2>5
<1>3. ClientTyped'
  BY DEF End, TypeInv, TypeOK, ClientTyped
<1>4. PublishedOnce' /\ ReceiverInBus'
  BY DEF End, TypeInv, TypeOK, LogGrows, PublishedOnce, ReceiverInBus
<1>5. TasksInPhase'
  BY DEF End, TypeInv, TypeOK, TasksInPhase, Active, NoSubs, NoSub
<1> QED
  BY <1>1, <1>2, <1>3, <1>4, <1>5, TypeParts DEF TypeInv, LogGrows

\* A session that may be closed for its full queue has nothing to publish.
LEMMA CloseFullType ==
  ASSUME TypeInv, NEW s \in Sessions, NEW n, CloseFull(s, n), LogGrows,
         commands' \in 0..MaxCommands, phase[s] = "publishing" => toPublish[s] = <<>>
  PROVE  TypeInv'
BY EndType DEF CloseFull

\* Messages that change nothing but the queue, who is authenticated, what the client
\* is told and the number of commands.
LEMMA AnswerType ==
  ASSUME TypeInv, NEW s \in Sessions, NEW n \in Nat, Enqueue(s, n), LogGrows,
         UNCHANGED <<next, toPublish, subs, permits>>,
         authed' \subseteq Sessions,
         \/ UNCHANGED <<phase, req>>
         \/ /\ phase' = [phase EXCEPT ![s] = "ready"] /\ toPublish[s] = <<>>
            /\ req' = req \/ req' = [req EXCEPT ![s] = NoReq],
         told' \in [Sessions -> [SubIds -> {"none", "open", "closed"}]],
         commands' \in 0..MaxCommands
  PROVE  TypeInv'
<1>1. phase' \in [Sessions -> {"none", "ready", "publishing", "subscribing"}]
  BY DEF TypeInv, TypeOK
<1>2. queued' \in [Sessions -> 0..QueueCapacity]
  <2>1. queued[s] + n \in 0..QueueCapacity
    BY LiveAssumption DEF Enqueue, Fits, TypeInv, TypeOK
  <2> QED
    BY <2>1 DEF Enqueue, TypeInv, TypeOK
<1>3. TaskTyped'
  BY <1>1, <1>2 DEF TypeInv, TypeOK, TaskTyped
<1>4. PublishTyped' /\ ReqTyped' /\ SubsTyped'
  BY WiderTypes DEF LogGrows, PublishTyped, ReqTyped, SubsTyped
<1>5. ClientTyped'
  BY DEF TypeInv, TypeOK, ClientTyped
<1>6. PublishedOnce' /\ ReceiverInBus'
  BY DEF TypeInv, TypeOK, LogGrows, PublishedOnce, ReceiverInBus
<1>7. TasksInPhase'
  <2>1. \A t \in Sessions : Active(t)' = Active(t)
    BY DEF Active
  <2>2. SUFFICES ASSUME NEW t \in Sessions
                 PROVE  /\ phase'[t] # "publishing" => toPublish'[t] = <<>>
                        /\ phase'[t] = "none" => Active(t) = {}
                        /\ phase'[t] = "subscribing" => req'[t].filter # {}
    BY <2>1 DEF TasksInPhase
  <2>3. CASE t = s
    BY <2>3 DEF TypeInv, TypeOK, TasksInPhase
  <2>4. CASE t # s
    BY <2>4 DEF TypeInv, TypeOK, TasksInPhase
  <2> QED BY <2>3, <2>4
<1> QED
  BY <1>3, <1>4, <1>5, <1>6, <1>7, TypeParts DEF TypeInv, LogGrows

\* The number of commands stays within its bound, and the session has nothing to
\* publish, when it takes a command.
LEMMA CommandType ==
  ASSUME TypeInv, NEW s \in Sessions, Command(s)
  PROVE  commands' \in 0..MaxCommands /\ phase[s] = "ready" /\ toPublish[s] = <<>>
BY LiveAssumption DEF TypeInv, TypeOK, TasksInPhase, Command

\* A client comes or goes, authenticates or is answered with one message.
LEMMA VisitType ==
  ASSUME TypeInv, NEW s \in Sessions,
         Connect(s) \/ Disconnect(s) \/ Authenticate(s) \/ Reply(s)
  PROVE  TypeInv'
<1>1. UNCHANGED <<relay, commands>> /\ LogGrows /\ commands' \in 0..MaxCommands
  BY SameRelay DEF Connect, Disconnect, Authenticate, Reply, TypeInv, TypeOK
<1>2. CASE Connect(s)
  <2>1. next' \in [Sessions -> 1..(MaxEvents + 1)] /\ ReceiverInBus'
    <3>1. Len(bus) + 1 \in 1..(MaxEvents + 1)
      BY BusFits, LiveAssumption DEF TypeInv
    <3>2. bus' = bus
      BY <1>1 DEF relay
    <3>3. next' \in [Sessions -> 1..(MaxEvents + 1)]
      BY <1>2, <3>1 DEF Connect, TypeInv, TypeOK
    <3>4. \A t \in Sessions : next'[t] <= Len(bus) + 1
      BY <1>2, <3>1 DEF Connect, TypeInv, TypeOK, ReceiverInBus
    <3> QED
      BY <3>2, <3>3, <3>4 DEF ReceiverInBus
  <2>2. queued' \in [Sessions -> 0..QueueCapacity]
    <3>1. queued[s] + 1 \in 0..QueueCapacity
      BY <1>2, LiveAssumption DEF Connect, Enqueue, Fits, TypeInv, TypeOK
    <3> QED
      BY <1>2, <3>1 DEF Connect, Enqueue, TypeInv, TypeOK
  <2>3. phase' \in [Sessions -> {"none", "ready", "publishing", "subscribing"}]
    BY <1>2 DEF Connect, TypeInv, TypeOK
  <2>4. TaskTyped'
    BY <1>2, <2>1, <2>2, <2>3 DEF Connect, TypeInv, TypeOK, TaskTyped
  <2>5. PublishTyped' /\ ReqTyped' /\ SubsTyped'
    BY <1>1, <1>2, WiderTypes DEF Connect, LogGrows, PublishTyped, ReqTyped, SubsTyped
  <2>6. ClientTyped'
    BY <1>2 DEF Connect, TypeInv, TypeOK, ClientTyped
  <2>7. PublishedOnce'
    BY <1>2 DEF Connect, TypeInv, relay, PublishedOnce
  <2>8. TasksInPhase'
    <3>1. \A t \in Sessions : Active(t)' = Active(t)
      BY <1>2 DEF Connect, Active
    <3> QED
      BY <1>2, <3>1 DEF Connect, TypeInv, TypeOK, TasksInPhase
  <2> QED
    BY <1>1, <2>1, <2>4, <2>5, <2>6, <2>7, <2>8, TypeParts DEF TypeInv, LogGrows
<1>3. CASE Disconnect(s)
  BY <1>1, <1>3, EndType DEF Disconnect
<1>4. CASE Authenticate(s)
  <2>1. CASE CloseFull(s, 1)
    BY <1>1, <1>4, <2>1, CloseFullType DEF Authenticate
  <2>2. CASE ~CloseFull(s, 1)
    <3>1. authed' \subseteq Sessions /\ told' \in [Sessions -> [SubIds -> {"none", "open", "closed"}]]
      BY <1>4, <2>2 DEF Authenticate, TypeInv, TypeOK
    <3> QED
      BY <1>1, <1>4, <2>2, <3>1, AnswerType DEF Authenticate
  <2> QED BY <2>1, <2>2
<1>5. CASE Reply(s)
  <2>1. CASE CloseFull(s, 1)
    BY <1>1, <1>5, <2>1, CloseFullType DEF Reply
  <2>2. CASE ~CloseFull(s, 1)
    <3>1. authed' \subseteq Sessions /\ told' \in [Sessions -> [SubIds -> {"none", "open", "closed"}]]
      BY <1>5, <2>2 DEF Reply, TypeInv, TypeOK
    <3> QED
      BY <1>1, <1>5, <2>2, <3>1, AnswerType DEF Reply
  <2> QED BY <2>1, <2>2
<1> QED
  BY <1>2, <1>3, <1>4, <1>5

\* The operations of clients, stored events first.
LEMMA OperationTypes ==
  ASSUME NEW events \in Operations
  PROVE  /\ events \in Seq(LogEvents) /\ Len(events) \in 1..2 /\ events # <<>>
<1>1. \A t \in Topics : Note(t) \in LogEvents
  BY DEF Note, LogEvents, Changes
<1>2. "group" \in Topics => \A c \in {"put", "remove"}, s \in Subscribers : Change(c, s) \in LogEvents
  BY LiveAssumption DEF Change, LogEvents, Changes
<1>3. CASE \E t \in Topics : events = <<Note(t)>>
  BY <1>1, <1>3
<1>4. CASE "group" \in Topics /\ \E c \in {"put", "remove"}, s \in Subscribers : events = <<Change(c, s)>>
  BY <1>2, <1>4
<1>5. CASE "group" \in Topics /\ \E s \in Subscribers : events = <<Note("group"), Change("put", s)>>
  <2>1. PICK s \in Subscribers : events = <<Note("group"), Change("put", s)>>
    BY <1>5
  <2>2. Note("group") \in LogEvents /\ Change("put", s) \in LogEvents
    BY <1>1, <1>2, <1>5
  <2> QED
    BY <2>1, <2>2
<1> QED
  BY <1>3, <1>4, <1>5 DEF Operations, MemberChanges

\* The log with the events of an operation at its end.
LEMMA StoreLog ==
  ASSUME TypeInv, NEW s \in Sessions, NEW events \in Operations, Store(s, events)
  PROVE  /\ LogTyped' /\ Len(log') = Len(log) + Len(events)
         /\ DOMAIN log' = 1..(Len(log) + Len(events)) /\ DOMAIN log = 1..Len(log)
         /\ \A i \in DOMAIN log : log'[i] = log[i]
         /\ \A i \in 1..Len(events) : log'[Len(log) + i] = events[i]
         /\ Len(events) \in 1..2 /\ Len(log) \in Nat
<1>1. events \in Seq(LogEvents) /\ log \in Seq(LogEvents) /\ Len(events) \in 1..2
  BY OperationTypes DEF TypeInv, TypeOK
<1>2. log' = log \o events /\ Len(log) + Len(events) <= MaxEvents
  BY DEF Store
<1> QED
  BY <1>1, <1>2, ConcatProperties DEF LogTyped

\* An event is stored with those generated from it, and none of the offsets was
\* published before.
LEMMA StoreType ==
  ASSUME TypeInv, NEW s \in Sessions, NEW events \in Operations, Store(s, events)
  PROVE  TypeInv'
<1> DEFINE new == [i \in 1..Len(events) |-> Len(log) + i]
<1>1. /\ LogTyped' /\ Len(log') = Len(log) + Len(events)
      /\ DOMAIN log' = 1..(Len(log) + Len(events)) /\ DOMAIN log = 1..Len(log)
      /\ Len(events) \in 1..2 /\ Len(log) \in Nat
  BY StoreLog
<1>2. DOMAIN log \subseteq DOMAIN log' /\ UNCHANGED bus
  BY <1>1 DEF Store
<1>3. RelayTyped'
  <2>1. bus' \in Seq(DOMAIN log')
    BY <1>2, SeqMonotonic DEF TypeInv, TypeOK
  <2>2. members' \subseteq Sessions
    <3>1. events[Len(events)] \in LogEvents
      BY OperationTypes, ElementOfSeq
    <3>2. events[Len(events)].who \subseteq Sessions
      BY <3>1 DEF LogEvents
    <3> QED
      BY <3>2 DEF Store, TypeInv, TypeOK
  <2> QED
    BY <1>2, <2>1, <2>2 DEF Store, TypeInv, TypeOK, RelayTyped
<1>4. new \in Seq(DOMAIN log')
  BY <1>1
<1>5. PublishTyped'
  BY <1>2, <1>4, WiderTypes DEF Store, PublishTyped
<1>6. ReqTyped' /\ SubsTyped'
  BY <1>2, WiderTypes DEF Store, ReqTyped, SubsTyped
<1>7. TaskTyped' /\ ClientTyped'
  BY DEF Store, TypeInv, TypeOK, TaskTyped, ClientTyped
<1>8. ReceiverInBus'
  BY DEF Store, TypeInv, ReceiverInBus
<1>9. TasksInPhase'
  <2>1. \A t \in Sessions : Active(t)' = Active(t)
    BY DEF Store, Active
  <2> QED
    BY <2>1 DEF Store, TypeInv, TypeOK, TasksInPhase
<1>10. PublishedOnce'
  <2>1. bus' = bus /\ toPublish' = [toPublish EXCEPT ![s] = new]
    BY DEF Store
  <2>2. DOMAIN new = 1..Len(events) /\ \A i \in DOMAIN new : new[i] = Len(log) + i
    OBVIOUS
  <2>3. \A i \in DOMAIN bus : bus[i] \in 1..Len(log)
    BY <1>1 DEF TypeInv, TypeOK
  <2>4. \A t \in Sessions : \A i \in DOMAIN toPublish[t] : toPublish[t][i] \in 1..Len(log)
    BY <1>1, ElementOfSeq, LenProperties DEF TypeInv, TypeOK
  <2>5. \A t \in Sessions : toPublish'[t] = IF t = s THEN new ELSE toPublish[t]
    BY <2>1 DEF TypeInv, TypeOK
  <2> HIDE DEF new
  <2>6. \A i, j \in DOMAIN bus' : bus'[i] = bus'[j] => i = j
    BY <2>1 DEF TypeInv, PublishedOnce
  <2>7. ASSUME NEW t \in Sessions PROVE
          /\ \A i, j \in DOMAIN toPublish'[t] : toPublish'[t][i] = toPublish'[t][j] => i = j
          /\ \A i \in DOMAIN toPublish'[t], j \in DOMAIN bus' : toPublish'[t][i] # bus'[j]
    <3>1. CASE t = s
      BY <3>1, <1>1, <2>1, <2>2, <2>3, <2>5
    <3>2. CASE t # s
      BY <3>2, <2>1, <2>5 DEF TypeInv, PublishedOnce
    <3> QED BY <3>1, <3>2
  <2>8. ASSUME NEW t \in Sessions, NEW u \in Sessions,
               NEW i \in DOMAIN toPublish'[t], NEW j \in DOMAIN toPublish'[u],
               toPublish'[t][i] = toPublish'[u][j]
        PROVE  t = u
    <3>1. CASE t = s /\ u # s
      BY <3>1, <1>1, <2>2, <2>4, <2>5, <2>8
    <3>2. CASE t # s /\ u = s
      BY <3>2, <1>1, <2>2, <2>4, <2>5, <2>8
    <3>3. CASE t # s /\ u # s
      BY <3>3, <2>5, <2>8 DEF TypeInv, PublishedOnce
    <3> QED BY <3>1, <3>2, <3>3
  <2> QED
    BY <2>6, <2>7, <2>8 DEF PublishedOnce
<1> QED
  BY <1>1, <1>3, <1>5, <1>6, <1>7, <1>8, <1>9, <1>10, TypeParts DEF TypeInv

\* What the first offset to publish and the others are.
LEMMA HeadAndTail ==
  ASSUME TypeInv, NEW s \in Sessions, toPublish[s] # <<>>
  PROVE  LET q == toPublish[s] IN
         /\ DOMAIN q = 1..Len(q) /\ Len(q) \in Nat \ {0}
         /\ Head(q) = q[1] /\ Head(q) \in DOMAIN log
         /\ Tail(q) \in Seq(DOMAIN log) /\ DOMAIN Tail(q) = 1..(Len(q) - 1)
         /\ \A i \in 1..(Len(q) - 1) : Tail(q)[i] = q[i + 1]
<1>1. toPublish[s] \in Seq(DOMAIN log)
  BY DEF TypeInv, TypeOK
<1> HIDE DEF TypeInv
<1>2. /\ DOMAIN toPublish[s] = 1..Len(toPublish[s]) /\ Len(toPublish[s]) \in Nat \ {0}
      /\ Head(toPublish[s]) = toPublish[s][1]
  BY <1>1
<1>3. /\ Head(toPublish[s]) \in DOMAIN log /\ Tail(toPublish[s]) \in Seq(DOMAIN log)
      /\ Len(Tail(toPublish[s])) = Len(toPublish[s]) - 1
  BY <1>1, HeadTailProperties
<1>4. DOMAIN Tail(toPublish[s]) = 1..(Len(toPublish[s]) - 1)
  BY <1>3, LenProperties
<1>5. \A i \in 1..(Len(toPublish[s]) - 1) : Tail(toPublish[s])[i] = toPublish[s][i + 1]
  BY <1>1, <1>3, HeadTailProperties
<1> QED
  BY <1>2, <1>3, <1>4, <1>5

\* One offset is published.
LEMMA PublishType ==
  ASSUME TypeInv, NEW s \in Sessions, Publish(s)
  PROVE  TypeInv'
<1> DEFINE q == toPublish[s]
<1>1. /\ DOMAIN q = 1..Len(q) /\ Len(q) \in Nat \ {0}
      /\ Head(q) = q[1] /\ Head(q) \in DOMAIN log
      /\ Tail(q) \in Seq(DOMAIN log) /\ DOMAIN Tail(q) = 1..(Len(q) - 1)
      /\ \A i \in 1..(Len(q) - 1) : Tail(q)[i] = q[i + 1]
  BY HeadAndTail DEF Publish
<1>2. log' = log /\ bus' = Append(bus, Head(q)) /\ toPublish' = [toPublish EXCEPT ![s] = Tail(q)]
  BY DEF Publish
<1>3. /\ bus \in Seq(DOMAIN log) /\ DOMAIN bus = 1..Len(bus) /\ Len(bus) \in Nat
      /\ bus' \in Seq(DOMAIN log) /\ DOMAIN bus' = 1..(Len(bus) + 1)
      /\ \A i \in 1..Len(bus) : bus'[i] = bus[i]
      /\ bus'[Len(bus) + 1] = q[1] /\ Len(bus') = Len(bus) + 1
  BY <1>1, <1>2, AppendProperties, LenProperties DEF TypeInv, TypeOK
<1>4. \A t \in Sessions : toPublish'[t] = IF t = s THEN Tail(q) ELSE toPublish[t]
  BY <1>2 DEF TypeInv, TypeOK
<1> HIDE DEF q
<1>5. LogTyped' /\ RelayTyped' /\ TaskTyped' /\ ClientTyped'
  BY <1>2, <1>3 DEF Publish, TypeInv, TypeOK, LogTyped, RelayTyped, TaskTyped, ClientTyped
<1>6. PublishTyped'
  BY <1>1, <1>2 DEF TypeInv, TypeOK, PublishTyped
<1>7. ReqTyped' /\ SubsTyped'
  BY DEF Publish, TypeInv, TypeOK, ReqTyped, ReqTypes, SubsTyped, SubTypes
<1>8. ReceiverInBus'
  BY <1>3 DEF Publish, TypeInv, TypeOK, ReceiverInBus
<1>9. TasksInPhase'
  <2>1. \A t \in Sessions : Active(t)' = Active(t)
    BY DEF Publish, Active
  <2> QED
    BY <2>1, <1>4 DEF Publish, TypeInv, TypeOK, TasksInPhase
<1>10. PublishedOnce'
  <2> USE DEF TypeInv, PublishedOnce
  <2>0. /\ \A i, j \in 1..Len(q) : q[i] = q[j] => i = j
        /\ \A i \in 1..Len(q) : i - 1 \in 1..(Len(q) - 1) \/ i = 1
        /\ \A i \in 1..(Len(q) - 1) : i + 1 \in 1..Len(q) /\ i + 1 # 1
    BY <1>1 DEF q
  <2>1. ASSUME NEW t \in Sessions, NEW i \in DOMAIN toPublish'[t]
        PROVE  \E j \in DOMAIN toPublish[t] : toPublish'[t][i] = toPublish[t][j]
    <3>1. CASE t = s
      <4>1. i \in 1..(Len(q) - 1) /\ toPublish'[t][i] = q[i + 1]
        BY <1>1, <1>4, <3>1
      <4> QED
        BY <1>1, <2>0, <3>1, <4>1 DEF q
    <3>2. CASE t # s
      BY <1>4, <3>2
    <3> QED BY <3>1, <3>2
  <2>2. \A i, j \in DOMAIN bus' : bus'[i] = bus'[j] => i = j
    <3>1. \A i \in DOMAIN bus : bus[i] # q[1]
      BY <1>1 DEF q
    <3> QED
      BY <1>3, <3>1
  <2>3. ASSUME NEW t \in Sessions, NEW i \in DOMAIN toPublish'[t], NEW j \in DOMAIN toPublish'[t],
               toPublish'[t][i] = toPublish'[t][j]
        PROVE  i = j
    <3>1. CASE t = s
      <4>1. /\ i \in 1..(Len(q) - 1) /\ toPublish'[t][i] = q[i + 1]
            /\ j \in 1..(Len(q) - 1) /\ toPublish'[t][j] = q[j + 1]
        BY <1>1, <1>4, <3>1
      <4>2. i + 1 = j + 1
        BY <2>0, <2>3, <4>1
      <4> QED
        BY <1>1, <4>1, <4>2
    <3>2. CASE t # s
      BY <1>4, <2>3, <3>2
    <3> QED BY <3>1, <3>2
  <2>4. ASSUME NEW t \in Sessions, NEW i \in DOMAIN toPublish'[t], NEW j \in DOMAIN bus'
        PROVE  toPublish'[t][i] # bus'[j]
    <3>1. CASE j \in 1..Len(bus)
      BY <1>3, <2>1, <3>1
    <3>2. CASE j = Len(bus) + 1
      <4>1. CASE t = s
        <5>0. 1 \in 1..Len(q)
          BY <1>1
        <5>1. i \in 1..(Len(q) - 1) /\ toPublish'[t][i] = q[i + 1]
          BY <1>1, <1>4, <4>1
        <5>2. i + 1 \in 1..Len(q) /\ i + 1 # 1
          BY <2>0, <5>1
        <5>3. q[i + 1] # q[1]
          BY <2>0, <5>0, <5>2
        <5> QED
          BY <1>3, <3>2, <5>1, <5>3
      <4>2. CASE t # s
        BY <1>1, <1>3, <1>4, <3>2, <4>2 DEF q
      <4> QED BY <4>1, <4>2
    <3> QED BY <1>3, <3>1, <3>2
  <2>5. ASSUME NEW t \in Sessions, NEW u \in Sessions,
               NEW i \in DOMAIN toPublish'[t], NEW j \in DOMAIN toPublish'[u],
               toPublish'[t][i] = toPublish'[u][j]
        PROVE  t = u
    BY <2>1, <2>5
  <2> QED
    BY <2>2, <2>3, <2>4, <2>5
<1> QED
  BY <1>5, <1>6, <1>7, <1>8, <1>9, <1>10, TypeParts DEF TypeInv

\* An event is stored and its operation fails.
LEMMA StoreFailsLog ==
  ASSUME TypeInv, NEW s \in Sessions, NEW t \in Topics, StoreFails(s, Note(t))
  PROVE  /\ LogGrows /\ Len(log) \in Nat /\ DOMAIN log = 1..Len(log)
         /\ DOMAIN log' = 1..(Len(log) + 1) /\ Len(log') = Len(log) + 1
         /\ \A i \in DOMAIN log : log'[i] = log[i]
         /\ log'[Len(log) + 1] = Note(t)
<1>1. Note(t) \in LogEvents /\ log \in Seq(LogEvents)
  BY DEF Note, LogEvents, Changes, TypeInv, TypeOK
<1>2. log' = Append(log, Note(t)) /\ Len(log) < MaxEvents /\ UNCHANGED <<members, bus>>
  BY DEF StoreFails
<1>3. /\ log' \in Seq(LogEvents) /\ Len(log) \in Nat /\ DOMAIN log = 1..Len(log)
      /\ DOMAIN log' = 1..(Len(log) + 1) /\ Len(log') = Len(log) + 1
      /\ \A i \in DOMAIN log : log'[i] = log[i]
      /\ log'[Len(log) + 1] = Note(t)
  BY <1>1, <1>2
<1>4. LogTyped' /\ DOMAIN log \subseteq DOMAIN log'
  BY <1>2, <1>3, LiveAssumption DEF LogTyped
<1>5. bus' \in Seq(DOMAIN log')
  BY <1>2, <1>4, SeqMonotonic DEF TypeInv, TypeOK
<1>6. lost' \subseteq DOMAIN log' /\ faults' \in 0..MaxFaults
  BY <1>3, <1>4, LiveAssumption DEF StoreFails, TypeInv, TypeOK
<1> QED
  BY <1>2, <1>3, <1>4, <1>5, <1>6 DEF LogGrows, RelayTyped, TypeInv, TypeOK

\* A note whose store write fails.
LEMMA StoreFailsType ==
  ASSUME TypeInv, NEW s \in Sessions, NEW t \in Topics, StoreFails(s, Note(t))
  PROVE  TypeInv'
<1>1. LogGrows /\ commands' \in 0..MaxCommands
  BY StoreFailsLog DEF StoreFails, TypeInv, TypeOK
<1>2. CASE CloseFull(s, 1)
  BY <1>1, <1>2, CloseFullType DEF StoreFails
<1>3. CASE ~CloseFull(s, 1)
  <2>1. authed' \subseteq Sessions /\ told' \in [Sessions -> [SubIds -> {"none", "open", "closed"}]]
    BY <1>3 DEF StoreFails, TypeInv, TypeOK
  <2> QED
    BY <1>1, <1>3, <2>1, AnswerType DEF StoreFails
<1> QED
  BY <1>2, <1>3

\* Messages that are answered with one message.
LEMMA RefuseType ==
  ASSUME TypeInv, NEW s \in Sessions, NEW x \in SubIds,
         RefuseReq(s, x) \/ RejectReq(s, x) \/ AnswerEvent(s) \/ RefusePermit(s)
  PROVE  TypeInv'
<1>1. /\ LogGrows /\ commands' \in 0..MaxCommands
      /\ phase[s] = "publishing" => toPublish[s] = <<>>
      /\ toPublish[s] = <<>>
  BY SameRelay, CommandType
     DEF RefuseReq, RejectReq, AnswerEvent, RefusePermit, TypeInv, TypeOK, TasksInPhase
<1>2. CASE CloseFull(s, 1)
  BY <1>1, <1>2, CloseFullType
<1>3. CASE ~CloseFull(s, 1)
  <2>1. authed' = authed /\ authed' \subseteq Sessions
    BY <1>3 DEF RefuseReq, RejectReq, AnswerEvent, RefusePermit, TypeInv, TypeOK
  <2>2. told' \in [Sessions -> [SubIds -> {"none", "open", "closed"}]]
    <3>1. told' = told \/ told' = [told EXCEPT ![s][x] = "closed"]
      BY <1>3 DEF RefuseReq, RejectReq, AnswerEvent, RefusePermit
    <3>2. told[s] \in [SubIds -> {"none", "open", "closed"}]
      BY DEF TypeInv, TypeOK
    <3>3. [told[s] EXCEPT ![x] = "closed"] \in [SubIds -> {"none", "open", "closed"}]
      BY <3>2
    <3> QED
      BY <3>1, <3>3 DEF TypeInv, TypeOK
  <2>3. Enqueue(s, 1) /\ UNCHANGED <<next, toPublish, subs, permits>>
    BY <1>3 DEF RefuseReq, RejectReq, AnswerEvent, RefusePermit
  <2>4. \/ UNCHANGED <<phase, req>>
        \/ /\ phase' = [phase EXCEPT ![s] = "ready"] /\ toPublish[s] = <<>>
           /\ req' = req \/ req' = [req EXCEPT ![s] = NoReq]
    BY <1>1, <1>3 DEF RefuseReq, RejectReq, AnswerEvent, RefusePermit
  <2> QED
    BY <1>1, <2>1, <2>2, <2>3, <2>4, AnswerType
<1> QED
  BY <1>2, <1>3

\* A REQ is queried.
LEMMA QueryType ==
  ASSUME TypeInv, NEW s \in Sessions, NEW x \in SubIds, NEW f \in (SUBSET Topics) \ {{}},
         NEW complete \in BOOLEAN, Query(s, x, f, complete)
  PROVE  TypeInv'
<1> DEFINE r == [sub |-> x, filter |-> f, complete |-> complete,
                 hits |-> {o \in Matching(f) : Readable(s, o)},
                 denied |-> \E o \in Matching(f) : ~Readable(s, o)]
<1>1. LogGrows /\ commands' \in 0..MaxCommands /\ toPublish[s] = <<>>
  BY SameRelay, CommandType DEF Query
<1>2. r \in ReqTypes /\ r.filter # {}
  BY DEF ReqTypes, Matching
<1>3. req' = [req EXCEPT ![s] = r]
  BY DEF Query
<1> HIDE DEF r
<1>4. ReqTyped'
  <2>1. ReqTypes' = ReqTypes /\ req \in [Sessions -> ReqTypes]
    BY DEF Query, relay, ReqTypes, TypeInv, TypeOK
  <2> QED BY <1>2, <1>3, <2>1 DEF ReqTyped
<1>5. TaskTyped'
  BY DEF Query, TypeInv, TypeOK, TaskTyped
<1>6. PublishTyped' /\ SubsTyped'
  BY <1>1, WiderTypes DEF Query, LogGrows, PublishTyped, SubsTyped
<1>7. ClientTyped'
  BY <1>1 DEF Query, TypeInv, TypeOK, ClientTyped
<1>8. PublishedOnce' /\ ReceiverInBus'
  BY DEF Query, relay, TypeInv, PublishedOnce, ReceiverInBus
<1>9. TasksInPhase'
  <2>1. \A t \in Sessions : Active(t)' = Active(t)
    BY DEF Query, Active
  <2>2. \A t \in Sessions : req'[t] = IF t = s THEN r ELSE req[t]
    BY <1>3 DEF TypeInv, TypeOK
  <2> QED
    BY <1>1, <1>2, <2>1, <2>2 DEF Query, TypeInv, TypeOK, TasksInPhase
<1> QED
  BY <1>1, <1>4, <1>5, <1>6, <1>7, <1>8, <1>9, TypeParts DEF TypeInv, LogGrows

\* What a step makes of the queue.
LEMMA EnqueueType ==
  ASSUME TypeInv, NEW s \in Sessions, NEW n \in Nat, Enqueue(s, n)
  PROVE  queued' \in [Sessions -> 0..QueueCapacity]
<1>1. queued[s] + n \in 0..QueueCapacity
  BY LiveAssumption DEF Enqueue, Fits, TypeInv, TypeOK
<1> QED
  BY <1>1 DEF Enqueue, TypeInv, TypeOK

\* The events a REQ is answered with can be counted.
LEMMA HitsFinite ==
  ASSUME TypeInv, NEW s \in Sessions
  PROVE  /\ req[s] \in ReqTypes /\ IsFiniteSet(req[s].hits)
         /\ Cardinality(req[s].hits) + 1 \in Nat
<1>1. req[s] \in ReqTypes /\ DOMAIN log = 1..Len(log) /\ Len(log) \in Nat
  BY DEF TypeInv, TypeOK, ReqTypes
<1>2. req[s].hits \in SUBSET (1..Len(log))
  BY <1>1 DEF ReqTypes
<1>3. IsFiniteSet(req[s].hits)
  BY <1>1, <1>2, UpTo, FS_Subset
<1>4. Cardinality(req[s].hits) \in Nat
  BY <1>3, FS_CardinalityType
<1> QED
  BY <1>1, <1>3, <1>4

\* A subscription is opened or replaced.
LEMMA SubscribeSubs ==
  ASSUME TypeInv, NEW s \in Sessions, phase[s] = "subscribing",
         subs' = [subs EXCEPT ![s][req[s].sub] =
                    [filter |-> req[s].filter, seen |-> req[s].hits, withheld |-> {}]]
  PROVE  /\ subs' \in [Sessions -> [SubIds -> SubTypes]]
         /\ req[s].sub \in SubIds /\ req[s].filter # {}
         /\ \A t \in Sessions, x \in SubIds :
              subs'[t][x] = IF t = s /\ x = req[s].sub
                            THEN [filter |-> req[s].filter, seen |-> req[s].hits, withheld |-> {}]
                            ELSE subs[t][x]
         /\ \A t \in Sessions : Active(t)' = IF t = s THEN Active(s) \cup {req[s].sub} ELSE Active(t)
<1> DEFINE new == [filter |-> req[s].filter, seen |-> req[s].hits, withheld |-> {}]
<1>1. req[s] \in ReqTypes /\ req[s].filter # {}
  BY HitsFinite DEF TypeInv, TasksInPhase
<1>2. new \in SubTypes /\ new.filter # {} /\ req[s].sub \in SubIds
  BY <1>1 DEF ReqTypes, SubTypes
<1>3. subs \in [Sessions -> [SubIds -> SubTypes]] /\ subs[s] \in [SubIds -> SubTypes]
  BY DEF TypeInv, TypeOK, SubTypes
<1>4. subs' = [subs EXCEPT ![s] = [subs[s] EXCEPT ![req[s].sub] = new]]
  OBVIOUS
<1> HIDE DEF new
<1>5. [subs[s] EXCEPT ![req[s].sub] = new] \in [SubIds -> SubTypes]
  BY <1>2, <1>3
<1>6. subs' \in [Sessions -> [SubIds -> SubTypes]]
  BY <1>3, <1>4, <1>5
<1>7. \A t \in Sessions, x \in SubIds :
        subs'[t][x] = IF t = s /\ x = req[s].sub THEN new ELSE subs[t][x]
  BY <1>2, <1>3, <1>4
<1>8. \A t \in Sessions : Active(t)' = IF t = s THEN Active(s) \cup {req[s].sub} ELSE Active(t)
  BY <1>2, <1>7 DEF Active
<1> QED
  BY <1>1, <1>2, <1>6, <1>7, <1>8 DEF new

\* A REQ is answered.
LEMMA AnswerReqType ==
  ASSUME TypeInv, NEW s \in Sessions, AnswerReq(s)
  PROVE  TypeInv'
<1> DEFINE r == req[s]
<1> DEFINE n == Cardinality(r.hits) + 1
<1>1. n \in Nat /\ r \in ReqTypes
  BY HitsFinite
<1>2. /\ phase[s] = "subscribing" /\ toPublish[s] = <<>> /\ UNCHANGED <<relay, commands>>
      /\ LogGrows /\ commands' \in 0..MaxCommands
  BY SameRelay DEF AnswerReq, TypeInv, TypeOK, TasksInPhase
<1>3. CASE CloseFull(s, n)
  BY <1>2, <1>3, CloseFullType
<1>4. CASE ~CloseFull(s, n)
  <2>1. /\ Enqueue(s, n)
        /\ IF Subscribes(r)
           THEN /\ subs' = [subs EXCEPT ![s][r.sub] =
                              [filter |-> r.filter, seen |-> r.hits, withheld |-> {}]]
                /\ permits' = [permits EXCEPT ![s] = @ \cup {r.sub}]
           ELSE UNCHANGED <<subs, permits>>
        /\ told' \in {told, [told EXCEPT ![s][r.sub] = "closed"], [told EXCEPT ![s][r.sub] = "open"]}
        /\ req' = [req EXCEPT ![s] = NoReq]
        /\ phase' = [phase EXCEPT ![s] = "ready"]
        /\ UNCHANGED <<next, authed, toPublish>>
    BY <1>4 DEF AnswerReq
  <2>2. r.sub \in SubIds
    BY <1>1 DEF ReqTypes
  <2> HIDE DEF n
  <2>3. TaskTyped'
    BY <1>1, <2>1, EnqueueType DEF TypeInv, TypeOK, TaskTyped
  <2>4. PublishTyped' /\ ReqTyped'
    BY <1>2, <2>1, WiderTypes DEF LogGrows, PublishTyped, ReqTyped
  <2>5. /\ SubsTyped' /\ \A t \in Sessions \ {s} : Active(t)' = Active(t)
    <3>1. SubTypes' = SubTypes /\ subs \in [Sessions -> [SubIds -> SubTypes]]
      BY <1>2 DEF relay, SubTypes, TypeInv, TypeOK
    <3>2. CASE Subscribes(r)
      BY <1>2, <2>1, <3>1, <3>2, SubscribeSubs DEF SubsTyped
    <3>3. CASE ~Subscribes(r)
      BY <2>1, <3>1, <3>3 DEF SubsTyped, Active
    <3> QED BY <3>2, <3>3
  <2>6. ClientTyped'
    <3>1. permits' \in [Sessions -> SUBSET SubIds]
      <4>1. permits \in [Sessions -> SUBSET SubIds]
        BY DEF TypeInv, TypeOK
      <4>2. permits' = permits \/ permits' = [permits EXCEPT ![s] = permits[s] \cup {r.sub}]
        BY <2>1
      <4> QED BY <2>2, <4>1, <4>2
    <3>2. told[s] \in [SubIds -> {"none", "open", "closed"}]
      BY DEF TypeInv, TypeOK
    <3>3. /\ [told[s] EXCEPT ![r.sub] = "closed"] \in [SubIds -> {"none", "open", "closed"}]
          /\ [told[s] EXCEPT ![r.sub] = "open"] \in [SubIds -> {"none", "open", "closed"}]
      BY <2>2, <3>2
    <3>5. told \in [Sessions -> [SubIds -> {"none", "open", "closed"}]]
      BY DEF TypeInv, TypeOK
    <3>6. [told EXCEPT ![s][r.sub] = "closed"] \in [Sessions -> [SubIds -> {"none", "open", "closed"}]]
      BY <3>3, <3>5
    <3>7. [told EXCEPT ![s][r.sub] = "open"] \in [Sessions -> [SubIds -> {"none", "open", "closed"}]]
      BY <3>3, <3>5
    <3>4. told' \in [Sessions -> [SubIds -> {"none", "open", "closed"}]]
      BY <2>1, <3>5, <3>6, <3>7
    <3> QED
      BY <1>2, <3>1, <3>4 DEF ClientTyped
  <2>7. PublishedOnce' /\ ReceiverInBus'
    BY <1>2, <2>1 DEF relay, TypeInv, PublishedOnce, ReceiverInBus
  <2>8. TasksInPhase'
    BY <1>2, <2>1, <2>5 DEF TypeInv, TypeOK, TasksInPhase
  <2> QED
    BY <1>2, <2>3, <2>4, <2>5, <2>6, <2>7, <2>8, TypeParts DEF TypeInv, LogGrows
<1> QED
  BY <1>3, <1>4

\* A subscription is closed.
LEMMA CloseSubSubs ==
  ASSUME TypeInv, NEW s \in Sessions, NEW x \in SubIds,
         subs' = [subs EXCEPT ![s][x] = NoSub]
  PROVE  /\ subs' \in [Sessions -> [SubIds -> SubTypes]]
         /\ \A t \in Sessions, y \in SubIds :
              subs'[t][y] = IF t = s /\ y = x THEN NoSub ELSE subs[t][y]
         /\ \A t \in Sessions : Active(t)' = IF t = s THEN Active(s) \ {x} ELSE Active(t)
<1>1. NoSub \in SubTypes /\ NoSub.filter = {}
  BY DEF NoSub, SubTypes
<1>2. subs \in [Sessions -> [SubIds -> SubTypes]] /\ subs[s] \in [SubIds -> SubTypes]
  BY DEF TypeInv, TypeOK, SubTypes
<1>3. [subs[s] EXCEPT ![x] = NoSub] \in [SubIds -> SubTypes]
  BY <1>1, <1>2
<1>4. subs' \in [Sessions -> [SubIds -> SubTypes]]
  BY <1>2, <1>3
<1>5. \A t \in Sessions, y \in SubIds :
        subs'[t][y] = IF t = s /\ y = x THEN NoSub ELSE subs[t][y]
  BY <1>2
<1>6. \A t \in Sessions : Active(t)' = IF t = s THEN Active(s) \ {x} ELSE Active(t)
  BY <1>1, <1>5 DEF Active
<1> QED
  BY <1>4, <1>5, <1>6

\* CLOSE of a subscription.
LEMMA CloseSubType ==
  ASSUME TypeInv, NEW s \in Sessions, NEW x \in SubIds, CloseSub(s, x)
  PROVE  TypeInv'
<1>1. LogGrows /\ commands' \in 0..MaxCommands /\ UNCHANGED <<relay, tasks>> /\ phase[s] = "ready"
  BY SameRelay, CommandType DEF CloseSub
<1>2. TaskTyped'
  BY <1>1 DEF TypeInv, TypeOK, TaskTyped, tasks
<1>3. PublishTyped' /\ ReqTyped'
  BY <1>1, WiderTypes DEF LogGrows, tasks, PublishTyped, ReqTyped
<1>4. SubsTyped' /\ \A t \in Sessions : Active(t)' = IF t = s THEN Active(s) \ {x} ELSE Active(t)
  <2>1. SubTypes' = SubTypes
    BY <1>1 DEF relay, SubTypes
  <2> QED
    BY <2>1, CloseSubSubs DEF CloseSub, SubsTyped
<1>5. ClientTyped'
  <2>1. permits' \in [Sessions -> SUBSET SubIds]
    BY DEF CloseSub, TypeInv, TypeOK
  <2>2. told[s] \in [SubIds -> {"none", "open", "closed"}]
    BY DEF TypeInv, TypeOK
  <2>3. [told[s] EXCEPT ![x] = "none"] \in [SubIds -> {"none", "open", "closed"}]
    BY <2>2
  <2>4. told' \in [Sessions -> [SubIds -> {"none", "open", "closed"}]]
    BY <2>3 DEF CloseSub, TypeInv, TypeOK
  <2> QED
    BY <1>1, <2>1, <2>4 DEF ClientTyped
<1>6. PublishedOnce' /\ ReceiverInBus'
  BY <1>1 DEF relay, tasks, TypeInv, PublishedOnce, ReceiverInBus
<1>7. TasksInPhase'
  BY <1>1, <1>4 DEF tasks, TypeInv, TasksInPhase
<1> QED
  BY <1>1, <1>2, <1>3, <1>4, <1>5, <1>6, <1>7, TypeParts DEF TypeInv, LogGrows

\* The subscriptions that match an offset, and those it is sent under.
Hit(s, o) == {x \in Active(s) : log[o].topic \in subs[s][x].filter}
Sent(s, o) == {x \in Hit(s, o) : Readable(s, o)}

\* What the subscriptions of a session become when it takes an offset.
FannedOut(s, o) ==
  [x \in SubIds |->
     CASE x \in Sent(s, o) -> [subs[s][x] EXCEPT !.seen = @ \cup {o}]
       [] x \in Hit(s, o) \ Sent(s, o) -> [subs[s][x] EXCEPT !.withheld = @ \cup {o}]
       [] OTHER -> subs[s][x]]

\* A receiver takes an offset of the bus, which is one of the log.
LEMMA FanoutSubs ==
  ASSUME TypeInv, NEW s \in Sessions, HasNext(s),
         subs' = [subs EXCEPT ![s] = FannedOut(s, bus[next[s]])]
  PROVE  /\ next[s] \in DOMAIN bus /\ bus[next[s]] \in DOMAIN log
         /\ subs' \in [Sessions -> [SubIds -> SubTypes]]
         /\ \A t \in Sessions, x \in SubIds :
              /\ subs'[t][x].filter = subs[t][x].filter
              /\ t = s /\ x \in Sent(s, bus[next[s]]) =>
                   /\ subs'[t][x].seen = subs[t][x].seen \cup {bus[next[s]]}
                   /\ subs'[t][x].withheld = subs[t][x].withheld
              /\ t = s /\ x \in Hit(s, bus[next[s]]) \ Sent(s, bus[next[s]]) =>
                   /\ subs'[t][x].seen = subs[t][x].seen
                   /\ subs'[t][x].withheld = subs[t][x].withheld \cup {bus[next[s]]}
              /\ t # s \/ x \notin Hit(s, bus[next[s]]) => subs'[t][x] = subs[t][x]
         /\ \A t \in Sessions : Active(t)' = Active(t)
<1> DEFINE o == bus[next[s]]
<1>1. next[s] \in DOMAIN bus /\ o \in DOMAIN log
  <2>1. next[s] \in 1..(MaxEvents + 1) /\ next[s] <= Len(bus) /\ bus \in Seq(DOMAIN log)
    BY DEF HasNext, TypeInv, TypeOK
  <2>2. next[s] \in 1..Len(bus)
    BY <2>1, LiveAssumption
  <2> QED
    BY <2>1, <2>2
<1>2. subs \in [Sessions -> [SubIds -> SubTypes]]
  BY DEF TypeInv, TypeOK, SubTypes
<1>3. subs' = [subs EXCEPT ![s] = FannedOut(s, o)]
  OBVIOUS
<1> DEFINE hit == Hit(s, o)
<1> DEFINE sent == Sent(s, o)
<1>0. sent \subseteq hit
  BY DEF Sent
<1> HIDE DEF o
<1>4. ASSUME NEW x \in SubIds
      PROVE  LET new == FannedOut(s, o)[x] IN
             /\ new \in SubTypes
             /\ new.filter = subs[s][x].filter
             /\ x \in sent => /\ new.seen = subs[s][x].seen \cup {o}
                              /\ new.withheld = subs[s][x].withheld
             /\ x \in hit \ sent => /\ new.seen = subs[s][x].seen
                                    /\ new.withheld = subs[s][x].withheld \cup {o}
             /\ x \notin hit => new = subs[s][x]
  <2>1. subs[s][x] \in SubTypes
    BY <1>2
  <2>2. CASE x \in sent
    BY <1>0, <1>1, <2>1, <2>2 DEF FannedOut, SubTypes
  <2>3. CASE x \in hit \ sent
    BY <1>1, <2>1, <2>3 DEF FannedOut, SubTypes
  <2>4. CASE x \notin hit
    BY <1>0, <2>1, <2>4 DEF FannedOut
  <2> QED BY <2>2, <2>3, <2>4
<1>5. FannedOut(s, o) \in [SubIds -> SubTypes]
  BY <1>4 DEF FannedOut
<1>6. subs' \in [Sessions -> [SubIds -> SubTypes]]
  BY <1>2, <1>3, <1>5
<1>7. \A t \in Sessions : subs'[t] = IF t = s THEN FannedOut(s, o) ELSE subs[t]
  BY <1>2, <1>3
<1>8. \A t \in Sessions, x \in SubIds : subs'[t][x].filter = subs[t][x].filter
  BY <1>4, <1>7
<1>9. \A t \in Sessions : Active(t)' = Active(t)
  BY <1>8 DEF Active
<1>10. ASSUME NEW t \in Sessions, NEW x \in SubIds
       PROVE  /\ t = s /\ x \in sent => /\ subs'[t][x].seen = subs[t][x].seen \cup {o}
                                        /\ subs'[t][x].withheld = subs[t][x].withheld
              /\ t = s /\ x \in hit \ sent =>
                   /\ subs'[t][x].seen = subs[t][x].seen
                   /\ subs'[t][x].withheld = subs[t][x].withheld \cup {o}
              /\ t # s \/ x \notin hit => subs'[t][x] = subs[t][x]
  BY <1>4, <1>7
<1> QED
  BY <1>1, <1>6, <1>8, <1>9, <1>10 DEF o

\* A fan-out either closes the session or does what FannedOut says.
LEMMA FanoutShape ==
  ASSUME TypeInv, NEW s \in Sessions, Fanout(s)
  PROVE  LET o == bus[next[s]] IN
         /\ HasNext(s) /\ ~Lags(s) /\ UNCHANGED <<relay, commands>>
         /\ Cardinality(Sent(s, o)) \in Nat /\ Sent(s, o) \in SUBSET Hit(s, o)
         /\ \/ CloseFull(s, Cardinality(Sent(s, o)))
            \/ /\ Enqueue(s, Cardinality(Sent(s, o)))
               /\ subs' = [subs EXCEPT ![s] = FannedOut(s, o)]
               /\ next' = [next EXCEPT ![s] = @ + 1]
               /\ UNCHANGED <<phase, authed, toPublish, req, permits, told>>
<1>1. Sent(s, bus[next[s]]) \in SUBSET SubIds
  BY DEF Sent, Hit, Active
<1>2. Cardinality(Sent(s, bus[next[s]])) \in Nat
  BY <1>1, LiveAssumption, FS_Subset, FS_CardinalityType
<1>3. HasNext(s) /\ ~Lags(s) /\ UNCHANGED <<relay, commands>>
  BY DEF Fanout
<1>4. \/ CloseFull(s, Cardinality(Sent(s, bus[next[s]])))
      \/ /\ Enqueue(s, Cardinality(Sent(s, bus[next[s]])))
         /\ subs' = [subs EXCEPT ![s] = FannedOut(s, bus[next[s]])]
         /\ next' = [next EXCEPT ![s] = @ + 1]
         /\ UNCHANGED <<phase, authed, toPublish, req, permits, told>>
  BY DEF Fanout, Sent, Hit, FannedOut
<1>5. Sent(s, bus[next[s]]) \in SUBSET Hit(s, bus[next[s]])
  BY DEF Sent
<1> QED
  BY <1>2, <1>3, <1>4, <1>5

\* What the receiver of a session and its queue do.
LEMMA ReceiveType ==
  ASSUME TypeInv, NEW s \in Sessions, Receive(s) \/ Send(s)
  PROVE  TypeInv'
<1>1. /\ LogGrows /\ commands' \in 0..MaxCommands /\ phase[s] = "ready" /\ UNCHANGED relay
  BY SameRelay DEF Receive, CloseLagging, Fanout, Send, HasNext, TypeInv, TypeOK
<1>2. CASE CloseLagging(s)
  BY <1>1, <1>2, EndType DEF CloseLagging
<1>3. CASE Fanout(s)
  <2> DEFINE o == bus[next[s]]
  <2> DEFINE n == Cardinality(Sent(s, o))
  <2>1. /\ HasNext(s) /\ ~Lags(s)
        /\ n \in Nat /\ Sent(s, o) \in SUBSET Hit(s, o)
        /\ \/ CloseFull(s, n)
           \/ /\ Enqueue(s, n)
              /\ subs' = [subs EXCEPT ![s] = FannedOut(s, o)]
              /\ next' = [next EXCEPT ![s] = @ + 1]
              /\ UNCHANGED <<phase, authed, toPublish, req, permits, told>>
    BY <1>3, FanoutShape
  <2>2. CASE CloseFull(s, n)
    BY <1>1, <2>2, CloseFullType
  <2>3. CASE ~CloseFull(s, n)
    <3>1. /\ next[s] \in DOMAIN bus
          /\ subs' \in [Sessions -> [SubIds -> SubTypes]]
          /\ \A t \in Sessions : Active(t)' = Active(t)
      <4>1. subs' = [subs EXCEPT ![s] = FannedOut(s, bus[next[s]])]
        BY <2>1, <2>3
      <4> QED
        BY <2>1, <4>1, FanoutSubs
    <3>2. next[s] + 1 \in 1..(MaxEvents + 1) /\ next[s] + 1 <= Len(bus) + 1
      <4>1. next[s] \in 1..Len(bus)
        BY <3>1 DEF TypeInv, TypeOK
      <4> QED
        BY <4>1, BusFits, LiveAssumption DEF TypeInv
    <3>3. next' \in [Sessions -> 1..(MaxEvents + 1)]
      BY <2>1, <2>3, <3>2 DEF TypeInv, TypeOK
    <3>4. queued' \in [Sessions -> 0..QueueCapacity]
      BY <2>1, <2>3, EnqueueType
    <3>5. TaskTyped'
      BY <2>1, <2>3, <3>3, <3>4 DEF TaskTyped, TypeInv, TypeOK
    <3>6. PublishTyped' /\ ReqTyped'
      BY <1>1, <2>1, <2>3, WiderTypes DEF LogGrows, PublishTyped, ReqTyped
    <3>7. SubsTyped'
      <4>1. SubTypes' = SubTypes
        BY <1>1 DEF relay, SubTypes
      <4> QED BY <3>1, <4>1 DEF SubsTyped
    <3>8. ClientTyped'
      BY <1>1, <2>1, <2>3 DEF ClientTyped, TypeInv, TypeOK
    <3>9. PublishedOnce'
      BY <1>1, <2>1, <2>3 DEF relay, TypeInv, PublishedOnce
    <3>10. ReceiverInBus'
      <4>1. \A t \in Sessions : next'[t] = IF t = s THEN next[s] + 1 ELSE next[t]
        BY <2>1, <2>3 DEF TypeInv, TypeOK
      <4>2. bus' = bus
        BY <1>1 DEF relay
      <4> QED
        BY <3>2, <4>1, <4>2 DEF ReceiverInBus, TypeInv
    <3>11. TasksInPhase'
      BY <2>1, <2>3, <3>1 DEF TypeInv, TasksInPhase
    <3> QED
      BY <1>1, <3>5, <3>6, <3>7, <3>8, <3>9, <3>10, <3>11, TypeParts DEF TypeInv, LogGrows
  <2> QED BY <2>2, <2>3
<1>4. CASE Send(s)
  <2>1. queued[s] - 1 \in 0..QueueCapacity
    BY <1>4, LiveAssumption DEF Send, TypeInv, TypeOK
  <2>2. TaskTyped'
    BY <1>4, <2>1 DEF Send, TypeInv, TypeOK, TaskTyped
  <2>3. PublishTyped' /\ ReqTyped' /\ SubsTyped'
    BY <1>1, <1>4, WiderTypes DEF Send, LogGrows, PublishTyped, ReqTyped, SubsTyped
  <2>4. ClientTyped'
    BY <1>4 DEF Send, TypeInv, TypeOK, ClientTyped
  <2>5. PublishedOnce' /\ ReceiverInBus'
    BY <1>4 DEF Send, relay, TypeInv, PublishedOnce, ReceiverInBus
  <2>6. TasksInPhase'
    <3>1. \A t \in Sessions : Active(t)' = Active(t)
      BY <1>4 DEF Send, Active
    <3> QED
      BY <1>4, <3>1 DEF Send, TypeInv, TasksInPhase
  <2> QED
    BY <1>1, <2>2, <2>3, <2>4, <2>5, <2>6, TypeParts DEF TypeInv, LogGrows
<1> QED
  BY <1>2, <1>3, <1>4 DEF Receive

\* A step that changes nothing.
LEMMA StutterType == TypeInv /\ UNCHANGED vars => TypeInv'
<1> SUFFICES ASSUME TypeInv, UNCHANGED vars PROVE TypeInv'
  OBVIOUS
<1> USE DEF vars, relay, tasks, TypeInv
<1>1. TypeOK'
  BY DEF TypeOK
<1>2. PublishedOnce' /\ ReceiverInBus'
  BY DEF PublishedOnce, ReceiverInBus
<1>3. TasksInPhase'
  BY DEF TasksInPhase, Active
<1> QED BY <1>1, <1>2, <1>3

\* Every step keeps the types.
LEMMA NextTypeInv == TypeInv /\ [Next]_vars => TypeInv'
<1> SUFFICES ASSUME TypeInv, [Next]_vars PROVE TypeInv'
  OBVIOUS
<1>1. CASE UNCHANGED vars
  BY <1>1, StutterType
<1>2. ASSUME NEW s \in Sessions, Client(s) PROVE TypeInv'
  BY <1>2, VisitType, StoreType, StoreFailsType, RefuseType, CloseSubType, QueryType DEF Client
<1>3. ASSUME NEW s \in Sessions, Proceed(s) PROVE TypeInv'
  <2>1. PICK x \in SubIds : TRUE
    BY LiveAssumption
  <2> QED
    BY <1>3, PublishType, RefuseType, AnswerReqType DEF Proceed
<1>4. ASSUME NEW s \in Sessions, Receive(s) \/ Send(s) PROVE TypeInv'
  BY <1>4, ReceiveType
<1> QED
  BY <1>1, <1>2, <1>3, <1>4 DEF Next

\* Every state is well typed: in particular no outbound queue grows beyond its
\* capacity, and every offset in the bus and in the receivers is one of the log.
THEOREM LiveTypeCorrect == Spec => []TypeOK
<1>1. TypeInv => TypeOK
  BY DEF TypeInv
<1> QED
  BY InitTypeInv, NextTypeInv, <1>1, PTL DEF Spec

-----------------------------------------------------------------------------
(* What steps do to the log, the bus and the subscriptions.  Of the many      *)
(* actions only a few shapes matter to the invariants below.                  *)

\* Nothing is stored, or an event whose operation fails.
Failed(t) ==
  /\ log' = Append(log, Note(t)) /\ lost' = lost \cup {Len(log) + 1}
  /\ UNCHANGED <<members, bus>>
LogStep == UNCHANGED <<log, lost, members, bus>> \/ \E t \in Topics : Failed(t)

\* Subscriptions stay as they are, a REQ is left alone or dropped, no key is lost.
Quiet ==
  /\ LogStep /\ UNCHANGED <<next, toPublish, subs, permits>>
  /\ authed \subseteq authed'
  /\ \A t \in Sessions : phase'[t] = "subscribing" => phase[t] = "subscribing" /\ req'[t] = req[t]

Ends(s) == LogStep /\ End(s)

\* A REQ is answered and the session goes on.
Answers(s) ==
  /\ phase[s] = "subscribing" /\ UNCHANGED <<relay, next, authed, toPublish>>
  /\ NeedsPermit(s, req[s]) => Cardinality(HostSubs) < MaxHostSubs
  /\ IF Subscribes(req[s])
     THEN /\ subs' = [subs EXCEPT ![s][req[s].sub] =
               [filter |-> req[s].filter, seen |-> req[s].hits, withheld |-> {}]]
          /\ permits' = [permits EXCEPT ![s] = @ \cup {req[s].sub}]
     ELSE UNCHANGED <<subs, permits>>
  /\ phase' = [phase EXCEPT ![s] = "ready"] /\ req' = [req EXCEPT ![s] = NoReq]

\* An offset is taken from the bus and the session goes on.
Takes(s) ==
  /\ HasNext(s) /\ UNCHANGED <<relay, phase, authed, toPublish, req, permits>>
  /\ subs' = [subs EXCEPT ![s] = FannedOut(s, bus[next[s]])]
  /\ next' = [next EXCEPT ![s] = @ + 1]

\* Every step has one of these shapes.
LEMMA Shapes ==
  ASSUME TypeInv, [Next]_vars
  PROVE  \/ Quiet
         \/ \E s \in Sessions :
              \/ Ends(s) \/ Connect(s) \/ Publish(s) \/ Answers(s) \/ Takes(s)
              \/ \E events \in Operations : Store(s, events)
              \/ \E x \in SubIds : CloseSub(s, x)
              \/ \E x \in SubIds, f \in (SUBSET Topics) \ {{}}, complete \in BOOLEAN :
                   Query(s, x, f, complete)
<1>0. phase \in [Sessions -> {"none", "ready", "publishing", "subscribing"}] /\ DOMAIN req = Sessions
  BY DEF TypeInv, TypeOK
<1>1. CASE UNCHANGED vars
  BY <1>1 DEF vars, relay, tasks, Quiet, LogStep
<1>2. ASSUME NEW s \in Sessions, Authenticate(s) \/ Reply(s) \/ AnswerEvent(s) \/ RefusePermit(s)
      PROVE  Quiet \/ Ends(s)
  <2>1. UNCHANGED relay
    BY <1>2 DEF Authenticate, Reply, AnswerEvent, RefusePermit
  <2>2. CASE CloseFull(s, 1)
    BY <2>1, <2>2 DEF relay, CloseFull, Ends, LogStep
  <2>3. CASE ~CloseFull(s, 1)
    <3>1. /\ UNCHANGED <<next, toPublish, subs, permits>> /\ authed \subseteq authed'
          /\ \/ UNCHANGED <<phase, req>>
             \/ phase' = [phase EXCEPT ![s] = "ready"] /\ UNCHANGED req
             \/ phase' = [phase EXCEPT ![s] = "ready"] /\ req' = [req EXCEPT ![s] = NoReq]
      BY <1>2, <2>3 DEF Authenticate, Reply, AnswerEvent, RefusePermit
    <3>2. \A t \in Sessions : phase'[t] = "subscribing" =>
                                phase[t] = "subscribing" /\ req'[t] = req[t]
      BY <1>0, <3>1
    <3> QED
      BY <2>1, <3>1, <3>2 DEF relay, Quiet, LogStep
  <2> QED BY <2>2, <2>3
<1>3. ASSUME NEW s \in Sessions, NEW x \in SubIds, RefuseReq(s, x) \/ RejectReq(s, x)
      PROVE  Quiet \/ Ends(s)
  <2>1. UNCHANGED relay
    BY <1>3 DEF RefuseReq, RejectReq
  <2>2. CASE CloseFull(s, 1)
    BY <2>1, <2>2 DEF relay, CloseFull, Ends, LogStep
  <2>3. CASE ~CloseFull(s, 1)
    BY <1>3, <2>1, <2>3 DEF RefuseReq, RejectReq, relay, Quiet, LogStep
  <2> QED BY <2>2, <2>3
<1>4. ASSUME NEW s \in Sessions, NEW t \in Topics, StoreFails(s, Note(t))
      PROVE  Quiet \/ Ends(s)
  <2>1. LogStep
    BY <1>4 DEF StoreFails, LogStep, Failed
  <2>2. CASE CloseFull(s, 1)
    BY <2>1, <2>2 DEF CloseFull, Ends
  <2>3. CASE ~CloseFull(s, 1)
    BY <1>4, <2>1, <2>3 DEF StoreFails, Quiet
  <2> QED BY <2>2, <2>3
<1>5. ASSUME NEW s \in Sessions, Disconnect(s) \/ CloseLagging(s)
      PROVE  Ends(s)
  BY <1>5 DEF Disconnect, CloseLagging, relay, Ends, LogStep
<1>6. ASSUME NEW s \in Sessions, AnswerReq(s)
      PROVE  Ends(s) \/ Answers(s)
  <2>1. CASE CloseFull(s, Cardinality(req[s].hits) + 1)
    BY <1>6, <2>1 DEF AnswerReq, CloseFull, relay, Ends, LogStep
  <2>2. CASE ~CloseFull(s, Cardinality(req[s].hits) + 1)
    BY <1>6, <2>2 DEF AnswerReq, Answers
  <2> QED BY <2>1, <2>2
<1>7. ASSUME NEW s \in Sessions, Fanout(s)
      PROVE  Ends(s) \/ Takes(s)
  <2>1. /\ HasNext(s) /\ UNCHANGED relay
        /\ \/ CloseFull(s, Cardinality(Sent(s, bus[next[s]])))
           \/ /\ subs' = [subs EXCEPT ![s] = FannedOut(s, bus[next[s]])]
              /\ next' = [next EXCEPT ![s] = @ + 1]
              /\ UNCHANGED <<phase, authed, toPublish, req, permits, told>>
    BY <1>7, FanoutShape
  <2> QED
    BY <2>1 DEF CloseFull, relay, Ends, LogStep, Takes
<1>8. ASSUME NEW s \in Sessions, Send(s)
      PROVE  Quiet
  BY <1>8 DEF Send, relay, Quiet, LogStep
<1> QED
  BY <1>1, <1>2, <1>3, <1>4, <1>5, <1>6, <1>7, <1>8 DEF Next, Client, Proceed, Receive

-----------------------------------------------------------------------------
(* Permits *)

\* A permit is for one subscription of one session, so they can be counted.
LEMMA HostSubsFinite == IsFiniteSet(HostSubs) /\ IsFiniteSet(HostSubs') /\ Cardinality(HostSubs) \in Nat
<1>1. IsFiniteSet(Sessions \X SubIds)
  BY LiveAssumption, FS_Product
<1>2. HostSubs \in SUBSET (Sessions \X SubIds) /\ HostSubs' \in SUBSET (Sessions \X SubIds)
  BY DEF HostSubs
<1> QED
  BY <1>1, <1>2, FS_Subset, FS_CardinalityType

\* Permits that are returned.
LEMMA FewerPermits ==
  ASSUME \A t \in Sessions : permits'[t] \subseteq permits[t]
  PROVE  Cardinality(HostSubs') <= Cardinality(HostSubs)
<1>1. HostSubs' \in SUBSET HostSubs
  BY DEF HostSubs
<1> QED
  BY <1>1, HostSubsFinite, FS_Subset

\* A set with one more member is larger by at most one.
LEMMA AddOne ==
  ASSUME NEW S, IsFiniteSet(S), NEW e
  PROVE  /\ IsFiniteSet(S \cup {e}) /\ Cardinality(S \cup {e}) \in Nat
         /\ Cardinality(S \cup {e}) <= Cardinality(S) + 1
<1>1. Cardinality(S) \in Nat
  BY FS_CardinalityType
<1>2. /\ IsFiniteSet(S \cup {e})
      /\ Cardinality(S \cup {e}) = IF e \in S THEN Cardinality(S) ELSE Cardinality(S) + 1
  BY FS_AddElement
<1> QED
  BY <1>1, <1>2

\* A permit that is taken.
LEMMA OneMorePermit ==
  ASSUME NEW s \in Sessions, NEW x \in SubIds, DOMAIN permits = Sessions,
         permits' = [permits EXCEPT ![s] = @ \cup {x}]
  PROVE  Cardinality(HostSubs') <= Cardinality(HostSubs) + 1 /\ Cardinality(HostSubs') \in Nat
<1>1. HostSubs' \in SUBSET (HostSubs \cup {<<s, x>>})
  BY DEF HostSubs
<1>2. /\ IsFiniteSet(HostSubs \cup {<<s, x>>})
      /\ Cardinality(HostSubs \cup {<<s, x>>}) <= Cardinality(HostSubs) + 1
      /\ Cardinality(HostSubs \cup {<<s, x>>}) \in Nat
  BY HostSubsFinite, AddOne
<1>3. Cardinality(HostSubs') <= Cardinality(HostSubs \cup {<<s, x>>}) /\ Cardinality(HostSubs') \in Nat
  BY <1>1, <1>2, FS_Subset, FS_CardinalityType
<1> QED
  BY <1>2, <1>3, HostSubsFinite

\* The end of a session.
LEMMA EndSubs ==
  ASSUME TypeInv, NEW s \in Sessions, End(s)
  PROVE  /\ \A t \in Sessions : Active(t)' = IF t = s THEN {} ELSE Active(t)
         /\ \A t \in Sessions : permits'[t] = IF t = s THEN {} ELSE permits[t]
         /\ \A t \in Sessions : t # s => /\ subs'[t] = subs[t] /\ next'[t] = next[t]
                                         /\ phase'[t] = phase[t] /\ req'[t] = req[t]
         /\ \A x \in SubIds : subs'[s][x] = NoSub
         /\ phase'[s] = "none"
<1>1. \A t \in Sessions : subs'[t] = IF t = s THEN NoSubs ELSE subs[t]
  BY DEF End, TypeInv, TypeOK
<1>2. \A t \in Sessions : Active(t)' = IF t = s THEN {} ELSE Active(t)
  BY <1>1 DEF Active, NoSubs, NoSub
<1>3. \A t \in Sessions : permits'[t] = IF t = s THEN {} ELSE permits[t]
  BY DEF End, TypeInv, TypeOK
<1>4. \A t \in Sessions : t # s => next'[t] = next[t] /\ phase'[t] = phase[t] /\ req'[t] = req[t]
  BY DEF End, TypeInv, TypeOK
<1>5. phase'[s] = "none"
  BY DEF End, TypeInv, TypeOK
<1>6. \A x \in SubIds : subs'[s][x] = NoSub
  BY <1>1 DEF NoSubs
<1> QED
  BY <1>1, <1>2, <1>3, <1>4, <1>5, <1>6

\* Every step takes and releases permits with the subscriptions.
LEMMA PermitsStep == TypeInv /\ PermitsMatch /\ [Next]_vars => PermitsMatch'
<1> SUFFICES ASSUME TypeInv, PermitsMatch, [Next]_vars PROVE PermitsMatch'
  OBVIOUS
<1>0. /\ Cardinality(HostSubs) \in Nat /\ MaxHostSubs \in Nat
      /\ Cardinality(HostSubs) <= MaxHostSubs /\ \A t \in Sessions : permits[t] = Active(t)
      /\ DOMAIN permits = Sessions
  BY HostSubsFinite, LiveAssumption DEF PermitsMatch, TypeInv, TypeOK
<1>1. ASSUME UNCHANGED permits, \A t \in Sessions : Active(t)' = Active(t)
      PROVE  PermitsMatch'
  <2>1. HostSubs' = HostSubs
    BY <1>1 DEF HostSubs
  <2> QED
    BY <1>0, <1>1, <2>1 DEF PermitsMatch
<1>2. ASSUME \A t \in Sessions : permits'[t] \subseteq permits[t] /\ permits'[t] = Active(t)'
      PROVE  PermitsMatch'
  <2>1. Cardinality(HostSubs') <= Cardinality(HostSubs) /\ Cardinality(HostSubs') \in Nat
    BY <1>2, FewerPermits, HostSubsFinite, FS_CardinalityType
  <2> QED
    BY <1>0, <1>2, <2>1 DEF PermitsMatch
<1>3. CASE UNCHANGED <<subs, permits>>
  BY <1>1, <1>3 DEF Active
<1>4. ASSUME NEW s \in Sessions, Ends(s)
      PROVE  PermitsMatch'
  BY <1>0, <1>2, <1>4, EndSubs DEF Ends
<1>5. ASSUME NEW s \in Sessions, Answers(s), Subscribes(req[s])
      PROVE  PermitsMatch'
  <2>1. /\ req[s].sub \in SubIds
        /\ \A t \in Sessions : Active(t)' = IF t = s THEN Active(s) \cup {req[s].sub} ELSE Active(t)
    BY <1>5, SubscribeSubs DEF Answers
  <2>2. permits' = [permits EXCEPT ![s] = @ \cup {req[s].sub}]
    BY <1>5 DEF Answers
  <2>3. \A t \in Sessions : permits'[t] = Active(t)'
    BY <1>0, <2>1, <2>2
  <2>4. CASE req[s].sub \in Active(s)
    BY <1>0, <1>2, <2>1, <2>3, <2>4
  <2>5. CASE req[s].sub \notin Active(s)
    <3>1. Cardinality(HostSubs) < MaxHostSubs
      BY <1>5, <2>5 DEF Answers, NeedsPermit
    <3>2. Cardinality(HostSubs') <= Cardinality(HostSubs) + 1 /\ Cardinality(HostSubs') \in Nat
      BY <1>0, <2>1, <2>2, OneMorePermit
    <3> QED
      BY <1>0, <2>3, <3>1, <3>2 DEF PermitsMatch
  <2> QED BY <2>4, <2>5
<1>6. ASSUME NEW s \in Sessions, NEW x \in SubIds, CloseSub(s, x)
      PROVE  PermitsMatch'
  <2>1. \A t \in Sessions : Active(t)' = IF t = s THEN Active(s) \ {x} ELSE Active(t)
    BY <1>6, CloseSubSubs DEF CloseSub
  <2>2. \A t \in Sessions : permits'[t] = IF t = s THEN permits[t] \ {x} ELSE permits[t]
    BY <1>0, <1>6 DEF CloseSub
  <2> QED
    BY <1>0, <1>2, <2>1, <2>2
<1>7. ASSUME NEW s \in Sessions, Takes(s)
      PROVE  PermitsMatch'
  BY <1>1, <1>7, FanoutSubs DEF Takes
<1>8. ASSUME NEW s \in Sessions,
             \/ Connect(s) \/ Publish(s) \/ \E events \in Operations : Store(s, events)
             \/ \E x \in SubIds, f \in (SUBSET Topics) \ {{}}, complete \in BOOLEAN :
                  Query(s, x, f, complete)
      PROVE  UNCHANGED <<subs, permits>>
  BY <1>8 DEF Connect, Publish, Store, Query
<1>9. ASSUME NEW s \in Sessions, Answers(s), ~Subscribes(req[s])
      PROVE  UNCHANGED <<subs, permits>>
  BY <1>9 DEF Answers
<1>10. CASE Quiet
  BY <1>3, <1>10 DEF Quiet
<1> QED
  BY <1>3, <1>4, <1>5, <1>6, <1>7, <1>8, <1>9, <1>10, Shapes

\* A session holds a permit of the host for exactly its open subscriptions and the
\* host's total is kept: no order of REQ, CLOSE, replacement and end leaks or
\* invents one.
THEOREM PermitsExact == Spec => []PermitsMatch
<1>1. Init => PermitsMatch
  <2> SUFFICES ASSUME Init PROVE PermitsMatch
    OBVIOUS
  <2>1. HostSubs = {} /\ \A s \in Sessions : permits[s] = Active(s)
    BY DEF Init, HostSubs, Active, NoSubs, NoSub
  <2> QED
    BY <2>1, FS_EmptySet, LiveAssumption DEF PermitsMatch
<1> QED
  BY InitTypeInv, NextTypeInv, <1>1, PermitsStep, PTL DEF Spec

-----------------------------------------------------------------------------
(* No gap *)

\* What a REQ found is complete also while it is being answered.
ReqNoGap ==
  \A s \in Sessions : phase[s] = "subscribing" /\ ~req[s].denied =>
    Matching(req[s].filter) \subseteq req[s].hits \cup Coming(s) \cup lost

\* What is stored stays, and what is new is still to come for every session, or lost.
Progress ==
  /\ DOMAIN log \subseteq DOMAIN log' /\ \A i \in DOMAIN log : log'[i] = log[i]
  /\ lost \subseteq lost'
  /\ \A t \in Sessions : next'[t] = next[t] =>
       Coming(t) \cup (DOMAIN log' \ DOMAIN log) \subseteq Coming(t)' \cup lost'

\* A session that takes nothing has no gap after progress.
LEMMA GapKept ==
  ASSUME Progress, NEW t \in Sessions, next'[t] = next[t], NEW f, NEW S,
         {o \in DOMAIN log : log[o].topic \in f} \subseteq S \cup Coming(t) \cup lost
  PROVE  {o \in DOMAIN log' : log'[o].topic \in f} \subseteq S \cup Coming(t)' \cup lost'
<1>1. {o \in DOMAIN log' : log'[o].topic \in f} \subseteq
        {o \in DOMAIN log : log[o].topic \in f} \cup (DOMAIN log' \ DOMAIN log)
  BY DEF Progress
<1>2. Coming(t) \cup (DOMAIN log' \ DOMAIN log) \subseteq Coming(t)' \cup lost' /\ lost \subseteq lost'
  BY DEF Progress
<1> QED
  BY <1>1, <1>2

\* What a session that takes nothing is offered when nothing is published.
LEMMA SameComing ==
  ASSUME TypeInv, NEW t \in Sessions, next'[t] = next[t], UNCHANGED <<bus, toPublish>>,
         DOMAIN log \subseteq DOMAIN log'
  PROVE  Coming(t) \subseteq Coming(t)'
BY DEF Coming

\* Nothing is stored, or an event that is lost.
LEMMA LogStepProgress ==
  ASSUME TypeInv, LogStep, UNCHANGED toPublish
  PROVE  Progress
<1>1. CASE UNCHANGED <<log, lost, members, bus>>
  <2>1. \A t \in Sessions : next'[t] = next[t] => Coming(t) \subseteq Coming(t)'
    BY <1>1, SameComing
  <2> QED
    BY <1>1, <2>1 DEF Progress
<1>2. ASSUME NEW e \in Topics, Failed(e) PROVE Progress
  <2>1. log \in Seq(LogEvents) /\ Note(e) \in LogEvents
    BY DEF TypeInv, TypeOK, Note, LogEvents, Changes
  <2>2. /\ DOMAIN log = 1..Len(log) /\ DOMAIN log' = 1..(Len(log) + 1) /\ Len(log) \in Nat
        /\ \A i \in DOMAIN log : log'[i] = log[i]
    BY <1>2, <2>1 DEF Failed
  <2>3. DOMAIN log \subseteq DOMAIN log' /\ DOMAIN log' \ DOMAIN log = {Len(log) + 1}
    BY <2>2
  <2>4. \A t \in Sessions : next'[t] = next[t] => Coming(t) \subseteq Coming(t)'
    BY <1>2, <2>3, SameComing DEF Failed
  <2> QED
    BY <1>2, <2>2, <2>3, <2>4 DEF Failed, Progress
<1> QED
  BY <1>1, <1>2 DEF LogStep

\* What is stored waits to be published.
LEMMA StoreProgress ==
  ASSUME TypeInv, NEW s \in Sessions, NEW events \in Operations, Store(s, events)
  PROVE  Progress
<1> DEFINE new == [i \in 1..Len(events) |-> Len(log) + i]
<1>1. /\ DOMAIN log' = 1..(Len(log) + Len(events)) /\ DOMAIN log = 1..Len(log)
      /\ \A i \in DOMAIN log : log'[i] = log[i]
      /\ Len(events) \in 1..2 /\ Len(log) \in Nat
  BY StoreLog
<1>2. DOMAIN log \subseteq DOMAIN log'
  BY <1>1
<1>3. /\ toPublish[s] = <<>> /\ UNCHANGED <<bus, lost, next>>
      /\ \A t \in Sessions : toPublish'[t] = IF t = s THEN new ELSE toPublish[t]
  BY DEF Store, TypeInv, TypeOK, TasksInPhase
<1>4. ASSUME NEW t \in Sessions, NEW o \in Coming(t) PROVE o \in Coming(t)'
  <2>1. CASE \E i \in next[t]..Len(bus) : bus[i] = o
    BY <1>3, <2>1 DEF Coming
  <2>2. CASE o \in DOMAIN log /\ \E u \in Sessions : \E i \in DOMAIN toPublish[u] : toPublish[u][i] = o
    <3>1. PICK u \in Sessions : \E i \in DOMAIN toPublish[u] : toPublish[u][i] = o
      BY <2>2
    <3>2. u # s
      BY <1>3, <3>1
    <3>3. toPublish'[u] = toPublish[u]
      BY <1>3, <3>2
    <3>4. \E i \in DOMAIN toPublish'[u] : toPublish'[u][i] = o
      BY <3>1, <3>3
    <3> QED
      BY <1>2, <2>2, <3>4 DEF Coming
  <2> QED
    BY <1>4, <2>1, <2>2 DEF Coming
<1>5. ASSUME NEW t \in Sessions, NEW o \in DOMAIN log' \ DOMAIN log PROVE o \in Coming(t)'
  <2>1. o - Len(log) \in 1..Len(events) /\ Len(log) + (o - Len(log)) = o
    BY <1>1
  <2>2. toPublish'[s] = new /\ o - Len(log) \in DOMAIN new /\ new[o - Len(log)] = o
    BY <1>3, <2>1
  <2>3. \E i \in DOMAIN toPublish'[s] : toPublish'[s][i] = o
    BY <2>2
  <2> QED
    BY <2>3 DEF Coming
<1> QED
  BY <1>1, <1>2, <1>3, <1>4, <1>5 DEF Progress

\* Where a receiver may be.
LEMMA ReceiverPlace ==
  ASSUME TypeInv, NEW t \in Sessions
  PROVE  next[t] \in Nat \ {0} /\ next[t] <= Len(bus) + 1 /\ Len(bus) \in Nat
<1>1. next[t] \in 1..(MaxEvents + 1) /\ MaxEvents \in Nat
  BY LiveAssumption DEF TypeInv, TypeOK
<1>2. next[t] <= Len(bus) + 1 /\ Len(bus) \in Nat
  BY BusFits DEF TypeInv, ReceiverInBus
<1> QED
  BY <1>1, <1>2

\* What is published is in the bus of every receiver.
LEMMA PublishProgress ==
  ASSUME TypeInv, NEW s \in Sessions, Publish(s)
  PROVE  Progress
<1> DEFINE q == toPublish[s]
<1>1. /\ DOMAIN q = 1..Len(q) /\ Len(q) \in Nat \ {0} /\ Head(q) = q[1] /\ Head(q) \in DOMAIN log
      /\ DOMAIN Tail(q) = 1..(Len(q) - 1)
      /\ \A i \in 1..(Len(q) - 1) : Tail(q)[i] = q[i + 1]
  BY HeadAndTail DEF Publish
<1>2. /\ UNCHANGED <<log, lost, next>> /\ bus' = Append(bus, Head(q))
      /\ \A t \in Sessions : toPublish'[t] = IF t = s THEN Tail(q) ELSE toPublish[t]
  BY DEF Publish, TypeInv, TypeOK
<1>3. /\ Len(bus) \in Nat /\ Len(bus') = Len(bus) + 1
      /\ \A i \in 1..Len(bus) : bus'[i] = bus[i]
      /\ bus'[Len(bus) + 1] = q[1]
  <2>1. bus \in Seq(DOMAIN log)
    BY DEF TypeInv, TypeOK
  <2> QED
    BY <1>1, <1>2, <2>1, AppendProperties, LenProperties
<1>4. \A t \in Sessions : next[t] \in Nat \ {0} /\ next[t] <= Len(bus) + 1
  BY ReceiverPlace
<1> HIDE DEF q
<1>5. ASSUME NEW t \in Sessions, NEW o \in Coming(t) PROVE o \in Coming(t)'
  <2>1. CASE \E i \in next[t]..Len(bus) : bus[i] = o
    <3>1. PICK i \in next[t]..Len(bus) : bus[i] = o
      BY <2>1
    <3>2. i \in next[t]..Len(bus') /\ bus'[i] = o
      BY <1>3, <1>4, <3>1
    <3> QED
      BY <1>2, <3>2 DEF Coming
  <2>2. CASE o \in DOMAIN log /\ \E u \in Sessions : \E i \in DOMAIN toPublish[u] : toPublish[u][i] = o
    <3>1. PICK u \in Sessions : \E i \in DOMAIN toPublish[u] : toPublish[u][i] = o
      BY <2>2
    <3>2. PICK i \in DOMAIN toPublish[u] : toPublish[u][i] = o
      BY <3>1
    <3>3. CASE u # s
      BY <1>2, <2>2, <3>2, <3>3 DEF Coming
    <3>4. CASE u = s /\ i = 1
      <4>1. Len(bus) + 1 \in next[t]..Len(bus') /\ bus'[Len(bus) + 1] = o
        BY <1>3, <1>4, <3>2, <3>4 DEF q
      <4> QED
        BY <1>2, <4>1 DEF Coming
    <3>5. CASE u = s /\ i # 1
      <4>1. i \in 1..Len(q) /\ q[i] = o
        BY <1>1, <3>2, <3>5 DEF q
      <4>2. i - 1 \in 1..(Len(q) - 1) /\ (i - 1) + 1 = i
        BY <1>1, <3>5, <4>1
      <4>3. i - 1 \in DOMAIN toPublish'[s] /\ toPublish'[s][i - 1] = o
        BY <1>1, <1>2, <4>1, <4>2
      <4> QED
        BY <1>2, <2>2, <4>3 DEF Coming
    <3> QED BY <3>3, <3>4, <3>5
  <2> QED
    BY <1>5, <2>1, <2>2 DEF Coming
<1> QED
  BY <1>2, <1>5 DEF Progress

\* The subscriptions and the REQ of a session that are left alone stay without a gap.
LEMMA GapFrame ==
  ASSUME NoGap, ReqNoGap, Progress, NEW t \in Sessions, next'[t] = next[t]
  PROVE  /\ \A x \in SubIds : x \in Active(t) /\ subs'[t][x] = subs[t][x] =>
              Matching(subs[t][x].filter)' \subseteq
                subs'[t][x].seen \cup subs'[t][x].withheld \cup Coming(t)' \cup lost'
         /\ phase[t] = "subscribing" /\ ~req[t].denied /\ req'[t] = req[t] =>
              Matching(req[t].filter)' \subseteq req'[t].hits \cup Coming(t)' \cup lost'
<1>1. ASSUME NEW x \in SubIds, x \in Active(t), subs'[t][x] = subs[t][x]
      PROVE  Matching(subs[t][x].filter)' \subseteq
               subs'[t][x].seen \cup subs'[t][x].withheld \cup Coming(t)' \cup lost'
  <2> DEFINE f == subs[t][x].filter
  <2> DEFINE S == subs[t][x].seen \cup subs[t][x].withheld
  <2>1. {o \in DOMAIN log : log[o].topic \in f} \subseteq S \cup Coming(t) \cup lost
    BY <1>1 DEF NoGap, Matching
  <2> HIDE DEF f, S
  <2>2. {o \in DOMAIN log' : log'[o].topic \in f} \subseteq S \cup Coming(t)' \cup lost'
    BY <2>1, GapKept
  <2> QED
    BY <1>1, <2>2 DEF f, S, Matching
<1>2. ASSUME phase[t] = "subscribing", ~req[t].denied, req'[t] = req[t]
      PROVE  Matching(req[t].filter)' \subseteq req'[t].hits \cup Coming(t)' \cup lost'
  <2> DEFINE f == req[t].filter
  <2> DEFINE S == req[t].hits
  <2>1. {o \in DOMAIN log : log[o].topic \in f} \subseteq S \cup Coming(t) \cup lost
    BY <1>2 DEF ReqNoGap, Matching
  <2> HIDE DEF f, S
  <2>2. {o \in DOMAIN log' : log'[o].topic \in f} \subseteq S \cup Coming(t)' \cup lost'
    BY <2>1, GapKept
  <2> QED
    BY <1>2, <2>2 DEF f, S, Matching
<1> QED
  BY <1>1, <1>2

\* A session takes an offset: it was sent or withheld wherever it matches.
LEMMA TakesGap ==
  ASSUME TypeInv, NoGap, NEW s \in Sessions, Takes(s), NEW x \in Active(s)
  PROVE  Matching(subs[s][x].filter)' \subseteq
           subs'[s][x].seen \cup subs'[s][x].withheld \cup Coming(s)' \cup lost'
<1> DEFINE o == bus[next[s]]
<1>1. x \in SubIds /\ UNCHANGED relay /\ UNCHANGED toPublish
  BY DEF Active, Takes
<1>2. /\ next[s] \in DOMAIN bus /\ o \in DOMAIN log
      /\ subs'[s][x].filter = subs[s][x].filter
      /\ x \in Sent(s, o) => /\ subs'[s][x].seen = subs[s][x].seen \cup {o}
                             /\ subs'[s][x].withheld = subs[s][x].withheld
      /\ x \in Hit(s, o) \ Sent(s, o) =>
           /\ subs'[s][x].seen = subs[s][x].seen
           /\ subs'[s][x].withheld = subs[s][x].withheld \cup {o}
      /\ x \notin Hit(s, o) => subs'[s][x] = subs[s][x]
  <2>1. HasNext(s) /\ subs' = [subs EXCEPT ![s] = FannedOut(s, bus[next[s]])]
    BY DEF Takes
  <2>2. /\ next[s] \in DOMAIN bus /\ bus[next[s]] \in DOMAIN log
        /\ \A t \in Sessions, y \in SubIds :
              /\ subs'[t][y].filter = subs[t][y].filter
              /\ t = s /\ y \in Sent(s, bus[next[s]]) =>
                   /\ subs'[t][y].seen = subs[t][y].seen \cup {bus[next[s]]}
                   /\ subs'[t][y].withheld = subs[t][y].withheld
              /\ t = s /\ y \in Hit(s, bus[next[s]]) \ Sent(s, bus[next[s]]) =>
                   /\ subs'[t][y].seen = subs[t][y].seen
                   /\ subs'[t][y].withheld = subs[t][y].withheld \cup {bus[next[s]]}
              /\ t # s \/ y \notin Hit(s, bus[next[s]]) => subs'[t][y] = subs[t][y]
    BY <2>1, FanoutSubs
  <2> QED
    BY <1>1, <2>2
<1>3. next'[s] = next[s] + 1 /\ next[s] \in Nat /\ Len(bus) \in Nat
  BY ReceiverPlace DEF Takes, TypeInv, TypeOK
<1> HIDE DEF o
<1>4. Coming(s) \subseteq Coming(s)' \cup {o}
  <2>1. ASSUME NEW i \in next[s]..Len(bus), i # next[s] PROVE i \in next'[s]..Len(bus)
    BY <1>3, <2>1
  <2> QED
    BY <1>1, <2>1 DEF Coming, relay, o
<1>5. Matching(subs[s][x].filter)' = Matching(subs[s][x].filter)
  BY <1>1, <1>2 DEF Matching, relay
<1>6. Matching(subs[s][x].filter) \subseteq
        subs[s][x].seen \cup subs[s][x].withheld \cup Coming(s)' \cup {o} \cup lost
  BY <1>4 DEF NoGap
<1>7. o \in Matching(subs[s][x].filter) => x \in Hit(s, o)
  BY DEF Matching, Hit
<1>8. lost' = lost
  BY <1>1 DEF relay
<1>9. CASE x \notin Hit(s, o)
  BY <1>2, <1>5, <1>6, <1>7, <1>8, <1>9
<1>10. CASE x \in Sent(s, o)
  BY <1>2, <1>5, <1>6, <1>8, <1>10
<1>11. CASE x \in Hit(s, o) \ Sent(s, o)
  BY <1>2, <1>5, <1>6, <1>8, <1>11
<1> QED
  BY <1>9, <1>10, <1>11

GapInv == TypeInv /\ NoGap /\ ReqNoGap

\* Every step keeps subscriptions and REQs without a gap.
LEMMA GapStep == GapInv /\ [Next]_vars => GapInv'
<1> SUFFICES ASSUME GapInv, [Next]_vars PROVE NoGap' /\ ReqNoGap'
  BY NextTypeInv DEF GapInv
<1>0. TypeInv /\ NoGap /\ ReqNoGap
  BY DEF GapInv
<1> DEFINE Open(t) == \A x \in Active(t)' :
                        Matching(subs[t][x].filter)' \subseteq
                          subs'[t][x].seen \cup subs'[t][x].withheld \cup Coming(t)' \cup lost'
<1> DEFINE Asked(t) == phase'[t] = "subscribing" /\ ~req'[t].denied =>
                         Matching(req[t].filter)' \subseteq req'[t].hits \cup Coming(t)' \cup lost'
<1>1. SUFFICES \A t \in Sessions : Open(t) /\ Asked(t)
  BY DEF NoGap, ReqNoGap
<1>2. ASSUME NEW t \in Sessions, Progress, next'[t] = next[t], subs'[t] = subs[t]
      PROVE  Open(t)
  BY <1>0, <1>2, GapFrame DEF Active
<1>3. ASSUME NEW t \in Sessions, Progress, next'[t] = next[t],
             phase'[t] = "subscribing" => phase[t] = "subscribing" /\ req'[t] = req[t]
      PROVE  Asked(t)
  BY <1>0, <1>3, GapFrame
<1> HIDE DEF Open, Asked
<1>4. CASE Quiet
  <2>1. Progress /\ UNCHANGED <<next, subs>>
    BY <1>0, <1>4, LogStepProgress DEF Quiet
  <2> QED
    BY <1>2, <1>3, <1>4, <2>1 DEF Quiet
<1>5. ASSUME NEW s \in Sessions, Ends(s)
      PROVE  \A t \in Sessions : Open(t) /\ Asked(t)
  <2>1. Progress
    BY <1>0, <1>5, LogStepProgress DEF Ends, End
  <2>2. /\ Active(s)' = {} /\ phase'[s] = "none"
        /\ \A t \in Sessions : t # s => /\ subs'[t] = subs[t] /\ next'[t] = next[t]
                                        /\ phase'[t] = phase[t] /\ req'[t] = req[t]
    BY <1>0, <1>5, EndSubs DEF Ends
  <2>3. Open(s) /\ Asked(s)
    BY <2>2 DEF Open, Asked
  <2> QED
    BY <1>2, <1>3, <2>1, <2>2, <2>3
<1>6. ASSUME NEW s \in Sessions, Connect(s)
      PROVE  \A t \in Sessions : Open(t) /\ Asked(t)
  <2>1. Progress
    BY <1>0, <1>6, LogStepProgress DEF Connect, relay, LogStep
  <2>2. /\ Active(s)' = {} /\ phase'[s] = "ready" /\ UNCHANGED <<subs, req>>
        /\ \A t \in Sessions : t # s => next'[t] = next[t] /\ phase'[t] = phase[t]
    BY <1>0, <1>6 DEF Connect, Active, TypeInv, TypeOK, TasksInPhase
  <2>3. Open(s) /\ Asked(s)
    BY <2>2 DEF Open, Asked
  <2> QED
    BY <1>2, <1>3, <2>1, <2>2, <2>3
<1>7. ASSUME NEW s \in Sessions, Publish(s) \/ \E events \in Operations : Store(s, events)
      PROVE  \A t \in Sessions : Open(t) /\ Asked(t)
  <2>1. Progress
    BY <1>0, <1>7, StoreProgress, PublishProgress
  <2>2. /\ UNCHANGED <<next, subs, req>>
        /\ \A t \in Sessions : phase'[t] = "subscribing" => phase[t] = "subscribing"
    BY <1>0, <1>7 DEF Publish, Store, TypeInv, TypeOK
  <2> QED
    BY <1>2, <1>3, <2>1, <2>2
<1>8. ASSUME NEW s \in Sessions, Answers(s)
      PROVE  \A t \in Sessions : Open(t) /\ Asked(t)
  <2>1. /\ Progress /\ UNCHANGED <<next, log, lost>> /\ UNCHANGED relay
        /\ \A t \in Sessions : Coming(t)' = Coming(t)
    BY <1>0, <1>8, LogStepProgress DEF Answers, relay, LogStep, Coming
  <2>2. /\ phase'[s] = "ready"
        /\ \A t \in Sessions : t # s => phase'[t] = phase[t] /\ req'[t] = req[t]
    BY <1>0, <1>8 DEF Answers, TypeInv, TypeOK
  <2>3. \A t \in Sessions : Asked(t)
    <3>1. Asked(s)
      BY <2>2 DEF Asked
    <3> QED
      BY <1>3, <2>1, <2>2, <3>1
  <2>4. CASE ~Subscribes(req[s])
    BY <1>2, <1>8, <2>1, <2>3, <2>4 DEF Answers
  <2>5. CASE Subscribes(req[s])
    <3> DEFINE new == [filter |-> req[s].filter, seen |-> req[s].hits, withheld |-> {}]
    <3>1. /\ \A t \in Sessions, x \in SubIds :
               subs'[t][x] = IF t = s /\ x = req[s].sub THEN new ELSE subs[t][x]
          /\ \A t \in Sessions : Active(t)' = IF t = s THEN Active(s) \cup {req[s].sub} ELSE Active(t)
          /\ req[s].sub \in SubIds
      BY <1>0, <1>8, <2>5, SubscribeSubs DEF Answers
    <3>2. Matching(req[s].filter) \subseteq req[s].hits \cup Coming(s) \cup lost
      BY <1>0, <1>8, <2>5 DEF Answers, Subscribes, ReqNoGap
    <3>3. ASSUME NEW t \in Sessions, NEW x \in Active(t)', ~(t = s /\ x = req[s].sub)
          PROVE  Matching(subs[t][x].filter)' \subseteq
                   subs'[t][x].seen \cup subs'[t][x].withheld \cup Coming(t)' \cup lost'
      <4>1. x \in SubIds /\ x \in Active(t) /\ subs'[t][x] = subs[t][x]
        BY <3>1, <3>3 DEF Active
      <4> QED
        BY <1>0, <2>1, <4>1, GapFrame
    <3>4. ASSUME NEW x \in SubIds, x = req[s].sub
          PROVE  Matching(subs[s][x].filter)' \subseteq
                   subs'[s][x].seen \cup subs'[s][x].withheld \cup Coming(s)' \cup lost'
      <4>1. subs'[s][x].filter = req[s].filter /\ subs'[s][x].seen = req[s].hits
        BY <3>1, <3>4
      <4> HIDE DEF new
      <4>2. {o \in DOMAIN log : log[o].topic \in subs'[s][x].filter} \subseteq
              req[s].hits \cup Coming(s) \cup lost
        BY <3>2, <4>1 DEF Matching
      <4>3. {o \in DOMAIN log' : log'[o].topic \in subs'[s][x].filter} \subseteq
              subs'[s][x].seen \cup Coming(s)' \cup lost'
        BY <2>1, <4>1, <4>2
      <4> QED
        BY <4>3 DEF Matching
    <3>5. \A t \in Sessions : Open(t)
      BY <3>1, <3>3, <3>4 DEF Open
    <3> QED
      BY <2>3, <3>5
  <2> QED BY <2>4, <2>5
<1>9. ASSUME NEW s \in Sessions, Takes(s)
      PROVE  \A t \in Sessions : Open(t) /\ Asked(t)
  <2>1. Progress
    BY <1>0, <1>9, LogStepProgress DEF Takes, relay, LogStep
  <2>2. /\ phase[s] = "ready" /\ UNCHANGED <<phase, req>>
        /\ \A t \in Sessions : t # s => next'[t] = next[t] /\ subs'[t] = subs[t]
    BY <1>0, <1>9 DEF Takes, HasNext, TypeInv, TypeOK
  <2>3. Active(s)' = Active(s)
    BY <1>0, <1>9, FanoutSubs DEF Takes
  <2>4. Open(s) /\ Asked(s)
    BY <1>0, <1>9, <2>2, <2>3, TakesGap DEF Open, Asked
  <2> QED
    BY <1>2, <1>3, <2>1, <2>2, <2>4
<1>10. ASSUME NEW s \in Sessions, NEW x \in SubIds, CloseSub(s, x)
       PROVE  \A t \in Sessions : Open(t) /\ Asked(t)
  <2>1. Progress /\ UNCHANGED <<next, phase, req>>
    BY <1>0, <1>10, LogStepProgress DEF CloseSub, tasks, relay, LogStep
  <2>2. /\ \A t \in Sessions, y \in SubIds :
             subs'[t][y] = IF t = s /\ y = x THEN NoSub ELSE subs[t][y]
        /\ \A t \in Sessions : Active(t)' = IF t = s THEN Active(s) \ {x} ELSE Active(t)
    BY <1>0, <1>10, CloseSubSubs DEF CloseSub
  <2>3. ASSUME NEW t \in Sessions, NEW y \in Active(t)'
        PROVE  Matching(subs[t][y].filter)' \subseteq
                 subs'[t][y].seen \cup subs'[t][y].withheld \cup Coming(t)' \cup lost'
    <3>1. y \in SubIds /\ y \in Active(t) /\ subs'[t][y] = subs[t][y]
      BY <2>2, <2>3 DEF Active
    <3> QED
      BY <1>0, <2>1, <3>1, GapFrame
  <2>4. \A t \in Sessions : Open(t)
    BY <2>3 DEF Open
  <2> QED
    BY <1>3, <2>1, <2>4
<1>11. ASSUME NEW s \in Sessions, NEW x \in SubIds, NEW f \in (SUBSET Topics) \ {{}},
              NEW complete \in BOOLEAN, Query(s, x, f, complete)
       PROVE  \A t \in Sessions : Open(t) /\ Asked(t)
  <2>1. Progress /\ UNCHANGED <<next, subs, log>>
    BY <1>0, <1>11, LogStepProgress DEF Query, relay, LogStep
  <2>2. /\ \A t \in Sessions : t # s => phase'[t] = phase[t] /\ req'[t] = req[t]
        /\ req'[s] = [sub |-> x, filter |-> f, complete |-> complete,
                      hits |-> {o \in Matching(f) : Readable(s, o)},
                      denied |-> \E o \in Matching(f) : ~Readable(s, o)]
    BY <1>0, <1>11 DEF Query, TypeInv, TypeOK
  <2>3. Asked(s)
    <3>1. /\ req'[s].filter = f /\ req'[s].hits = {o \in Matching(f) : Readable(s, o)}
          /\ req'[s].denied = (\E o \in Matching(f) : ~Readable(s, o))
      BY <2>2
    <3>2. ~req'[s].denied => req'[s].hits = Matching(f)
      BY <3>1
    <3>3. Matching(req[s].filter)' = Matching(f)
      BY <2>1, <3>1 DEF Matching
    <3> QED
      BY <3>2, <3>3 DEF Asked
  <2> QED
    BY <1>2, <1>3, <2>1, <2>2, <2>3
<1> QED
  BY <1>0, <1>4, <1>5, <1>6, <1>7, <1>8, <1>9, <1>10, <1>11, Shapes

\* Whatever is stored and published while a REQ is handled, and however far behind a
\* receiver is: an event that matches an open subscription was sent under it, was
\* withheld by the read gate, is still to come or was lost with the operation that
\* stored it.
THEOREM NoGapEver == Spec => []NoGap
<1>1. Init => NoGap /\ ReqNoGap
  BY DEF Init, NoGap, ReqNoGap, Active, NoSubs, NoSub
<1>2. Init => GapInv
  BY <1>1, InitTypeInv DEF GapInv
<1>3. GapInv => NoGap
  BY DEF GapInv
<1> QED
  BY <1>2, <1>3, GapStep, PTL DEF Spec

-----------------------------------------------------------------------------
(* Only readers *)

\* MemberAt, for any log.
MemberIn(L, s, i) ==
  \E j \in 1..i : /\ L[j].change = "put" /\ s \in L[j].who
                  /\ \A k \in (j + 1)..i : ~(L[k].change = "remove" /\ s \in L[k].who)

\* Event o may be told to session s: it is public, or s authenticated and was a member
\* at some time since it was stored.
MayHear(s, o) ==
  log[o].topic = "group" => s \in authed /\ \E i \in o..Len(log) : MemberAt(s, i)

\* The members are those the log says.
MembersLogged == \A s \in members : MemberAt(s, Len(log))

\* What a REQ found is readable also while it is being answered.
ReqReaders ==
  \A s \in Sessions : phase[s] = "subscribing" => \A o \in req[s].hits : MayHear(s, o)

ReadInv == TypeInv /\ MembersLogged /\ ReqReaders /\ OnlyReaders

\* Membership at an event does not change when the log grows.
LEMMA MemberStable ==
  ASSUME NEW L, NEW M, NEW n \in Nat, \A i \in 1..n : M[i] = L[i],
         NEW s, NEW i \in 0..n, MemberIn(L, s, i)
  PROVE  MemberIn(M, s, i)
<1>1. PICK j \in 1..i : /\ L[j].change = "put" /\ s \in L[j].who
                        /\ \A k \in (j + 1)..i : ~(L[k].change = "remove" /\ s \in L[k].who)
  BY DEF MemberIn
<1>2. M[j] = L[j] /\ \A k \in (j + 1)..i : M[k] = L[k]
  OBVIOUS
<1> QED
  BY <1>1, <1>2 DEF MemberIn

\* An event that does not remove a member keeps it.
LEMMA MemberNext ==
  ASSUME NEW L, NEW s, NEW i \in Nat, MemberIn(L, s, i),
         ~(L[i + 1].change = "remove" /\ s \in L[i + 1].who)
  PROVE  MemberIn(L, s, i + 1)
<1>1. PICK j \in 1..i : /\ L[j].change = "put" /\ s \in L[j].who
                        /\ \A k \in (j + 1)..i : ~(L[k].change = "remove" /\ s \in L[k].who)
  BY DEF MemberIn
<1>2. j \in 1..(i + 1) /\ \A k \in (j + 1)..(i + 1) : k \in (j + 1)..i \/ k = i + 1
  OBVIOUS
<1> QED
  BY <1>1, <1>2 DEF MemberIn

\* An event that puts a member makes it one.
LEMMA MemberPut ==
  ASSUME NEW L, NEW s, NEW i \in Nat \ {0}, L[i].change = "put", s \in L[i].who
  PROVE  MemberIn(L, s, i)
<1>1. i \in 1..i /\ (i + 1)..i = {}
  OBVIOUS
<1> QED
  BY <1>1 DEF MemberIn

\* What may be told may be told later.
LEMMA HearStable ==
  ASSUME TypeInv, NEW s, NEW o \in DOMAIN log, MayHear(s, o), s \in authed => s \in authed',
         DOMAIN log \subseteq DOMAIN log', \A i \in DOMAIN log : log'[i] = log[i],
         Len(log) <= Len(log'), Len(log') \in Nat
  PROVE  MayHear(s, o)'
<1>1. o \in 1..Len(log) /\ Len(log) \in Nat /\ DOMAIN log = 1..Len(log)
  BY DEF TypeInv, TypeOK
<1>2. SUFFICES ASSUME log'[o].topic = "group"
               PROVE  s \in authed' /\ \E i \in o..Len(log') : MemberAt(s, i)'
  BY DEF MayHear
<1>3. s \in authed' /\ \E i \in o..Len(log) : MemberIn(log, s, i)
  BY <1>2 DEF MayHear, MemberAt, MemberIn
<1>4. PICK i \in o..Len(log) : MemberIn(log, s, i)
  BY <1>3
<1>5. i \in 0..Len(log) /\ i \in o..Len(log')
  BY <1>1
<1>6. MemberIn(log', s, i)
  BY <1>1, <1>4, <1>5, MemberStable
<1>7. MemberAt(s, i)'
  BY <1>6 DEF MemberAt, MemberIn
<1> QED
  BY <1>3, <1>5, <1>7

\* The log is only added to.
LogKept ==
  /\ DOMAIN log \subseteq DOMAIN log' /\ \A i \in DOMAIN log : log'[i] = log[i]
  /\ Len(log) <= Len(log') /\ Len(log') \in Nat

\* Of the events of an operation only the last changes members.
LEMMA OperationChanges ==
  ASSUME NEW events \in Operations
  PROVE  Len(events) = 2 => events[1].change = "none"
BY DEF Operations, MemberChanges, Note, Change

\* Members are those the log says, also after a failed operation ...
LEMMA LogStepMembers ==
  ASSUME TypeInv, MembersLogged, LogStep
  PROVE  LogKept /\ MembersLogged'
<1>1. CASE UNCHANGED <<log, lost, members, bus>>
  <2>1. Len(log) \in Nat
    BY DEF TypeInv, TypeOK
  <2> QED
    BY <1>1, <2>1 DEF LogKept, MembersLogged, MemberAt
<1>2. ASSUME NEW e \in Topics, Failed(e) PROVE LogKept /\ MembersLogged'
  <2>1. log \in Seq(LogEvents) /\ Note(e) \in LogEvents
    BY DEF TypeInv, TypeOK, Note, LogEvents, Changes
  <2>2. /\ DOMAIN log = 1..Len(log) /\ DOMAIN log' = 1..(Len(log) + 1) /\ Len(log) \in Nat
        /\ \A i \in DOMAIN log : log'[i] = log[i]
        /\ Len(log') = Len(log) + 1 /\ log'[Len(log) + 1] = Note(e) /\ members' = members
    BY <1>2, <2>1 DEF Failed
  <2>3. LogKept
    BY <2>2 DEF LogKept
  <2>4. ASSUME NEW s \in members PROVE MemberAt(s, Len(log))'
    <3>1. MemberIn(log, s, Len(log))
      BY DEF MembersLogged, MemberAt, MemberIn
    <3>2. MemberIn(log', s, Len(log))
      <4>1. Len(log) \in Nat /\ Len(log) \in 0..Len(log) /\ \A i \in 1..Len(log) : log'[i] = log[i]
        BY <2>2
      <4> QED BY <3>1, <4>1, MemberStable
    <3>3. log'[Len(log) + 1].change = "none"
      BY <2>2 DEF Note
    <3>4. MemberIn(log', s, Len(log) + 1)
      BY <2>2, <3>2, <3>3, MemberNext
    <3> QED
      BY <2>2, <3>4 DEF MemberAt, MemberIn
  <2> QED
    BY <2>2, <2>3, <2>4 DEF MembersLogged
<1> QED
  BY <1>1, <1>2 DEF LogStep

\* ... and after one that changes them.
LEMMA StoreMembers ==
  ASSUME TypeInv, MembersLogged, NEW u \in Sessions, NEW events \in Operations, Store(u, events)
  PROVE  LogKept /\ MembersLogged'
<1> DEFINE n == Len(log)
<1> DEFINE m == Len(events)
<1>1. /\ Len(log') = n + m /\ DOMAIN log' = 1..(n + m) /\ DOMAIN log = 1..n
      /\ \A i \in DOMAIN log : log'[i] = log[i]
      /\ \A i \in 1..m : log'[n + i] = events[i]
      /\ m \in 1..2 /\ n \in Nat
  BY StoreLog
<1>2. LogKept
  BY <1>1 DEF LogKept
<1>3. ASSUME NEW s \in members PROVE MemberIn(log', s, n + m - 1)
  <2>1. MemberIn(log, s, n)
    BY DEF MembersLogged, MemberAt, MemberIn
  <2>2. MemberIn(log', s, n)
    <3>1. n \in Nat /\ n \in 0..n /\ \A i \in 1..n : log'[i] = log[i]
      BY <1>1
    <3> HIDE DEF n, m
    <3> QED
      BY <2>1, <3>1, MemberStable
  <2>3. CASE m = 1
    BY <1>1, <2>2, <2>3
  <2>4. CASE m = 2
    <3>1. log'[n + 1].change = "none"
      BY <1>1, <2>4, OperationChanges
    <3>2. MemberIn(log', s, n + 1)
      BY <1>1, <2>2, <3>1, MemberNext
    <3> QED
      BY <1>1, <2>4, <3>2
  <2> QED BY <1>1, <2>3, <2>4
<1>4. ASSUME NEW s \in members' PROVE MemberIn(log', s, n + m)
  <2> DEFINE c == events[m]
  <2>1. log'[n + m] = c /\ n + m \in Nat \ {0} /\ n + m - 1 \in Nat /\ (n + m - 1) + 1 = n + m
    BY <1>1
  <2>2. members' = CASE c.change = "put" -> members \cup c.who
                     [] c.change = "remove" -> members \ c.who
                     [] OTHER -> members
    BY DEF Store
  <2>3. \/ c.change = "put" /\ s \in c.who
        \/ s \in members /\ ~(c.change = "remove" /\ s \in c.who)
    BY <1>4, <2>2
  <2> HIDE DEF c, n, m
  <2>4. CASE c.change = "put" /\ s \in c.who
    BY <2>1, <2>4, MemberPut
  <2>5. CASE s \in members /\ ~(c.change = "remove" /\ s \in c.who)
    <3>1. MemberIn(log', s, n + m - 1)
      BY <1>3, <2>5
    <3>2. MemberIn(log', s, (n + m - 1) + 1)
      BY <2>1, <2>5, <3>1, MemberNext
    <3> QED
      BY <2>1, <3>2
  <2> QED BY <2>3, <2>4, <2>5
<1>5. MembersLogged'
  BY <1>1, <1>4 DEF MembersLogged, MemberAt, MemberIn
<1> QED
  BY <1>2, <1>5

\* What is read now may be heard.
LEMMA ReadableMayHear ==
  ASSUME TypeInv, MembersLogged, NEW s \in Sessions, NEW o \in DOMAIN log, Readable(s, o)
  PROVE  MayHear(s, o)
<1>1. o \in 1..Len(log) /\ Len(log) \in Nat
  BY DEF TypeInv, TypeOK
<1>2. log[o].topic = "group" => s \in authed /\ s \in members
  BY DEF Readable
<1>3. Len(log) \in o..Len(log)
  BY <1>1
<1> QED
  BY <1>2, <1>3 DEF MayHear, MembersLogged

\* Every step tells events only to those who may hear them.
LEMMA ReadStep == ReadInv /\ [Next]_vars => ReadInv'
<1> SUFFICES ASSUME ReadInv, [Next]_vars PROVE ReadInv'
  OBVIOUS
<1>0. TypeInv /\ TypeInv' /\ MembersLogged /\ ReqReaders
  BY NextTypeInv DEF ReadInv
<1> DEFINE Told(t) == \A x \in SubIds : \A o \in subs'[t][x].seen : MayHear(t, o)'
<1> DEFINE Found(t) == phase'[t] = "subscribing" => \A o \in req'[t].hits : MayHear(t, o)'
<1>1. SUFFICES MembersLogged' /\ \A t \in Sessions : Told(t) /\ Found(t)
  BY <1>0 DEF ReadInv, ReqReaders, OnlyReaders, MayHear
<1>2. \A t \in Sessions : \A x \in SubIds : \A o \in subs[t][x].seen : MayHear(t, o) /\ o \in DOMAIN log
  BY <1>0 DEF ReadInv, OnlyReaders, MayHear, TypeInv, TypeOK
<1>3. \A t \in Sessions : phase[t] = "subscribing" =>
        \A o \in req[t].hits : MayHear(t, o) /\ o \in DOMAIN log
  BY <1>0 DEF ReqReaders, TypeInv, TypeOK
<1>4. ASSUME NEW t \in Sessions, LogKept, t \in authed => t \in authed', NEW o \in DOMAIN log,
             MayHear(t, o)
      PROVE  MayHear(t, o)'
  BY <1>0, <1>4, HearStable DEF LogKept
<1>5. ASSUME NEW t \in Sessions, LogKept, t \in authed => t \in authed', subs'[t] = subs[t]
      PROVE  Told(t)
  BY <1>2, <1>4, <1>5
<1>6. ASSUME NEW t \in Sessions, LogKept, t \in authed => t \in authed',
             phase'[t] = "subscribing" => phase[t] = "subscribing" /\ req'[t] = req[t]
      PROVE  Found(t)
  BY <1>3, <1>4, <1>6
<1> HIDE DEF Told, Found
<1>7. ASSUME UNCHANGED relay PROVE LogKept /\ MembersLogged'
  BY <1>0, <1>7, LogStepMembers DEF relay, LogStep
<1>8. CASE Quiet
  <2>1. LogKept /\ MembersLogged'
    BY <1>0, <1>8, LogStepMembers DEF Quiet
  <2> QED
    BY <1>5, <1>6, <1>8, <2>1 DEF Quiet
<1>9. ASSUME NEW s \in Sessions, Ends(s)
      PROVE  MembersLogged' /\ \A t \in Sessions : Told(t) /\ Found(t)
  <2>1. LogKept /\ MembersLogged' /\ authed' = authed \ {s}
    BY <1>0, <1>9, LogStepMembers DEF Ends, End
  <2>2. /\ phase'[s] = "none" /\ \A x \in SubIds : subs'[s][x] = NoSub
        /\ \A t \in Sessions : t # s => /\ subs'[t] = subs[t] /\ phase'[t] = phase[t]
                                        /\ req'[t] = req[t]
    BY <1>0, <1>9, EndSubs DEF Ends
  <2>3. Told(s) /\ Found(s)
    BY <2>2 DEF Told, Found, NoSub
  <2> QED
    BY <1>5, <1>6, <2>1, <2>2, <2>3
<1>10. ASSUME NEW s \in Sessions, Connect(s) \/ Publish(s)
       PROVE  MembersLogged' /\ \A t \in Sessions : Told(t) /\ Found(t)
  <2>1. UNCHANGED <<log, members, authed, subs, req>>
    BY <1>10 DEF Connect, Publish, relay
  <2>2. LogKept /\ MembersLogged'
    <3>1. Len(log) \in Nat
      BY <1>0 DEF TypeInv, TypeOK
    <3> QED
      BY <1>0, <2>1, <3>1 DEF LogKept, MembersLogged, MemberAt
  <2>3. \A t \in Sessions : phase'[t] = "subscribing" => phase[t] = "subscribing"
    BY <1>0, <1>10 DEF Connect, Publish, TypeInv, TypeOK
  <2> QED
    BY <1>5, <1>6, <2>1, <2>2, <2>3
<1>11. ASSUME NEW s \in Sessions, NEW events \in Operations, Store(s, events)
       PROVE  MembersLogged' /\ \A t \in Sessions : Told(t) /\ Found(t)
  <2>1. LogKept /\ MembersLogged'
    BY <1>0, <1>11, StoreMembers
  <2>2. UNCHANGED <<authed, subs, req>> /\ \A t \in Sessions :
          phase'[t] = "subscribing" => phase[t] = "subscribing"
    BY <1>0, <1>11 DEF Store, TypeInv, TypeOK
  <2> QED
    BY <1>5, <1>6, <2>1, <2>2
<1>12. ASSUME NEW s \in Sessions, Answers(s)
       PROVE  MembersLogged' /\ \A t \in Sessions : Told(t) /\ Found(t)
  <2>1. LogKept /\ MembersLogged' /\ authed' = authed /\ phase[s] = "subscribing"
    BY <1>7, <1>12 DEF Answers
  <2>2. /\ phase'[s] = "ready"
        /\ \A t \in Sessions : t # s => phase'[t] = phase[t] /\ req'[t] = req[t]
    BY <1>0, <1>12 DEF Answers, TypeInv, TypeOK
  <2>3. \A t \in Sessions : Found(t)
    <3>1. Found(s)
      BY <2>2 DEF Found
    <3> QED
      BY <1>6, <2>1, <2>2, <3>1
  <2>4. CASE ~Subscribes(req[s])
    BY <1>5, <1>12, <2>1, <2>3, <2>4 DEF Answers
  <2>5. CASE Subscribes(req[s])
    <3> DEFINE new == [filter |-> req[s].filter, seen |-> req[s].hits, withheld |-> {}]
    <3>1. \A t \in Sessions, x \in SubIds :
            subs'[t][x] = IF t = s /\ x = req[s].sub THEN new ELSE subs[t][x]
      BY <1>0, <1>12, <2>5, SubscribeSubs DEF Answers
    <3>2. ASSUME NEW t \in Sessions, NEW x \in SubIds, NEW o \in subs'[t][x].seen
          PROVE  MayHear(t, o)'
      <4>1. MayHear(t, o) /\ o \in DOMAIN log
        <5>1. CASE t = s /\ x = req[s].sub
          BY <1>3, <2>1, <3>1, <3>2, <5>1
        <5>2. CASE ~(t = s /\ x = req[s].sub)
          BY <1>2, <3>1, <3>2, <5>2
        <5> QED BY <5>1, <5>2
      <4> QED
        BY <1>4, <2>1, <4>1
    <3> QED
      BY <2>1, <2>3, <3>2 DEF Told
  <2> QED BY <2>4, <2>5
<1>13. ASSUME NEW s \in Sessions, Takes(s)
       PROVE  MembersLogged' /\ \A t \in Sessions : Told(t) /\ Found(t)
  <2>1. LogKept /\ MembersLogged' /\ authed' = authed /\ UNCHANGED <<phase, req>>
    BY <1>7, <1>13 DEF Takes
  <2>2. /\ bus[next[s]] \in DOMAIN log
        /\ \A t \in Sessions, x \in SubIds :
              /\ t = s /\ x \in Sent(s, bus[next[s]]) =>
                   subs'[t][x].seen = subs[t][x].seen \cup {bus[next[s]]}
              /\ t = s /\ x \in Hit(s, bus[next[s]]) \ Sent(s, bus[next[s]]) =>
                   subs'[t][x].seen = subs[t][x].seen
              /\ t # s \/ x \notin Hit(s, bus[next[s]]) => subs'[t][x] = subs[t][x]
    <3>1. HasNext(s) /\ subs' = [subs EXCEPT ![s] = FannedOut(s, bus[next[s]])]
      BY <1>13 DEF Takes
    <3>2. /\ next[s] \in DOMAIN bus /\ bus[next[s]] \in DOMAIN log
          /\ \A t \in Sessions, y \in SubIds :
              /\ subs'[t][y].filter = subs[t][y].filter
              /\ t = s /\ y \in Sent(s, bus[next[s]]) =>
                   /\ subs'[t][y].seen = subs[t][y].seen \cup {bus[next[s]]}
                   /\ subs'[t][y].withheld = subs[t][y].withheld
              /\ t = s /\ y \in Hit(s, bus[next[s]]) \ Sent(s, bus[next[s]]) =>
                   /\ subs'[t][y].seen = subs[t][y].seen
                   /\ subs'[t][y].withheld = subs[t][y].withheld \cup {bus[next[s]]}
              /\ t # s \/ y \notin Hit(s, bus[next[s]]) => subs'[t][y] = subs[t][y]
      BY <1>0, <3>1, FanoutSubs
    <3> QED
      BY <3>2
  <2>3. ASSUME NEW t \in Sessions, NEW x \in SubIds, NEW o \in subs'[t][x].seen
        PROVE  MayHear(t, o)'
    <3>1. \/ o \in subs[t][x].seen
          \/ t = s /\ o = bus[next[s]] /\ x \in Sent(s, o)
      BY <2>2, <2>3
    <3>2. CASE o \in subs[t][x].seen
      BY <1>2, <1>4, <2>1, <3>2
    <3>3. CASE t = s /\ o = bus[next[s]] /\ x \in Sent(s, o)
      <4>1. Readable(s, o) /\ o \in DOMAIN log
        BY <2>2, <3>3 DEF Sent
      <4>2. MayHear(t, o)
        BY <1>0, <3>3, <4>1, ReadableMayHear
      <4> QED
        BY <1>4, <2>1, <4>1, <4>2
    <3> QED BY <3>1, <3>2, <3>3
  <2>4. \A t \in Sessions : Told(t)
    BY <2>3 DEF Told
  <2> QED
    BY <1>6, <2>1, <2>4
<1>14. ASSUME NEW s \in Sessions, NEW x \in SubIds, CloseSub(s, x)
       PROVE  MembersLogged' /\ \A t \in Sessions : Told(t) /\ Found(t)
  <2>1. LogKept /\ MembersLogged' /\ UNCHANGED <<authed, phase, req>>
    BY <1>7, <1>14 DEF CloseSub, tasks
  <2>2. \A t \in Sessions, y \in SubIds :
          subs'[t][y] = IF t = s /\ y = x THEN NoSub ELSE subs[t][y]
    BY <1>0, <1>14, CloseSubSubs DEF CloseSub
  <2>3. ASSUME NEW t \in Sessions, NEW y \in SubIds, NEW o \in subs'[t][y].seen
        PROVE  MayHear(t, o)'
    <3>1. o \in subs[t][y].seen
      BY <2>2, <2>3 DEF NoSub
    <3> QED
      BY <1>2, <1>4, <2>1, <3>1
  <2>4. \A t \in Sessions : Told(t)
    BY <2>3 DEF Told
  <2> QED
    BY <1>6, <2>1, <2>4
<1>15. ASSUME NEW s \in Sessions, NEW x \in SubIds, NEW f \in (SUBSET Topics) \ {{}},
              NEW complete \in BOOLEAN, Query(s, x, f, complete)
       PROVE  MembersLogged' /\ \A t \in Sessions : Told(t) /\ Found(t)
  <2>1. LogKept /\ MembersLogged' /\ UNCHANGED <<authed, subs>>
    BY <1>7, <1>15 DEF Query
  <2>2. /\ \A t \in Sessions : t # s => phase'[t] = phase[t] /\ req'[t] = req[t]
        /\ req'[s] = [sub |-> x, filter |-> f, complete |-> complete,
                      hits |-> {o \in Matching(f) : Readable(s, o)},
                      denied |-> \E o \in Matching(f) : ~Readable(s, o)]
    BY <1>0, <1>15 DEF Query, TypeInv, TypeOK
  <2>3. ASSUME NEW o \in req'[s].hits PROVE MayHear(s, o)'
    <3>1. o \in DOMAIN log /\ Readable(s, o)
      BY <2>2, <2>3 DEF Matching
    <3>2. MayHear(s, o)
      BY <1>0, <3>1, ReadableMayHear
    <3> QED
      BY <1>4, <2>1, <3>1, <3>2
  <2>4. Found(s)
    BY <2>3 DEF Found
  <2> QED
    BY <1>5, <1>6, <2>1, <2>2, <2>4
<1> QED
  BY <1>0, <1>8, <1>9, <1>10, <1>11, <1>12, <1>13, <1>14, <1>15, Shapes

\* An event of the private group reaches only sessions that authenticated and were
\* members at some time since it was stored: neither a receiver that is late nor a
\* REQ that is answered later tells a member removed before.
THEOREM OnlyReadersHear == Spec => []OnlyReaders
<1>1. Init => MembersLogged /\ ReqReaders /\ OnlyReaders
  BY DEF Init, MembersLogged, ReqReaders, OnlyReaders, NoSubs, NoSub
<1>2. Init => ReadInv
  BY <1>1, InitTypeInv DEF ReadInv
<1>3. ReadInv => OnlyReaders
  BY DEF ReadInv
<1> QED
  BY <1>2, <1>3, ReadStep, PTL DEF Spec
=============================================================================
