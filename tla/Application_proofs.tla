------------------------- MODULE Application_proofs --------------------------
(***************************************************************************)
(* Proofs about the application.  The Bluetooth server: for any clients    *)
(* and values, what a client wrote last is in force once it was handled;   *)
(* and a subscriber with the server for itself knows the level.            *)
(***************************************************************************)
EXTENDS MCApplication, QueueLemmas, TLAPS

-----------------------------------------------------------------------------
(* The queue of the stack's task.                                          *)

\* Appending moves nothing.
LEMMA AppendAt ==
  ASSUME NEW S, NEW q \in Seq(S), NEW e \in S
  PROVE  /\ Append(q, e) \in Seq(S)
         /\ Len(q) \in Nat /\ DOMAIN q = 1..Len(q) /\ DOMAIN Append(q, e) = 1..(Len(q) + 1)
         /\ Append(q, e)[Len(q) + 1] = e
         /\ \A n \in DOMAIN q : Append(q, e)[n] = q[n]
  BY AppendProperties, LenProperties

\* The event at place n + 1 comes to place n.
LEMMA TailAt ==
  ASSUME NEW S, NEW q \in Seq(S), q # <<>>
  PROVE  /\ Tail(q) \in Seq(S) /\ Head(q) \in S /\ Head(q) = q[1]
         /\ Len(q) \in Nat \ {0} /\ DOMAIN q = 1..Len(q) /\ DOMAIN Tail(q) = 1..(Len(q) - 1)
         /\ \A n \in DOMAIN Tail(q) : Tail(q)[n] = q[n + 1]
  <1>1. /\ Head(q) \in S /\ Head(q) = q[1]
        /\ Tail(q) \in Seq(S) /\ Len(Tail(q)) = Len(q) - 1
        /\ \A n \in 1..Len(Tail(q)) : Tail(q)[n] = q[n + 1]
    BY HeadTailProperties
  <1>2. Len(q) \in Nat \ {0} /\ DOMAIN q = 1..Len(q)
    BY EmptySeq, LenProperties
  <1>3. DOMAIN Tail(q) = 1..Len(Tail(q))
    BY <1>1, LenProperties
  <1> QED
    BY <1>1, <1>2, <1>3

\* An event behind the others settles the subscription of the service that it is a
\* write for, and leaves the others.
LEMMA WillBeAppend ==
  ASSUME TypeOK, NEW e \in Events, events' = Append(events, e), notify' = notify,
         NEW s \in Subscribable, NEW v
  PROVE  /\ Changes(e, s) => (WillBe(s, v)' <=> v = e.value)
         /\ ~Changes(e, s) => Pending(s)' = Pending(s) /\ (WillBe(s, v)' <=> WillBe(s, v))
         /\ \A n \in Pending(s)' : events'[n] = e \/ (n \in Pending(s) /\ events'[n] = events[n])
  <1> DEFINE last == Len(events) + 1
  <1>1. /\ Len(events) \in Nat /\ DOMAIN events = 1..Len(events)
        /\ DOMAIN events' = 1..last /\ events'[last] = e
        /\ \A n \in DOMAIN events : events'[n] = events[n]
    BY AppendAt DEF TypeOK
  <1>2. Pending(s)' = Pending(s) \cup (IF Changes(e, s) THEN {last} ELSE {})
    BY <1>1 DEF Pending, Changes
  <1>3. \A n \in Pending(s) : n \in Nat /\ n < last /\ events'[n] = events[n]
    BY <1>1 DEF Pending
  <1>4. ASSUME Changes(e, s) PROVE WillBe(s, v)' <=> v = e.value
    <2>1. last \in Pending(s)' /\ \A m \in Pending(s)' : m <= last
      BY <1>1, <1>2, <1>3, <1>4
    <2>2. \A n \in Pending(s)' : (\A m \in Pending(s)' : m <= n) => n = last
      BY <1>1, <1>2, <1>3, <1>4
    <2> QED
      BY <1>1, <2>1, <2>2 DEF WillBe
  <1>5. ASSUME ~Changes(e, s) PROVE Pending(s)' = Pending(s) /\ (WillBe(s, v)' <=> WillBe(s, v))
    <2>1. Pending(s)' = Pending(s)
      BY <1>2, <1>5
    <2>2. notify'[s] = notify[s] /\ \A n \in Pending(s) : events'[n].value = events[n].value
      BY <1>3
    <2> QED
      BY <2>1, <2>2 DEF WillBe
  <1>6. \A n \in Pending(s)' : events'[n] = e \/ (n \in Pending(s) /\ events'[n] = events[n])
    BY <1>1, <1>2, <1>3
  <1> QED
    BY <1>4, <1>5, <1>6

\* Handling the first event, as OnWrite does or without effect, changes nothing that
\* was to come.
LEMMA WillBeTail ==
  ASSUME TypeOK, events # <<>>, events' = Tail(events), NEW s \in Subscribable, NEW v,
         notify'[s] = IF Changes(Head(events), s) THEN Head(events).value ELSE notify[s]
  PROVE  /\ WillBe(s, v) => WillBe(s, v)'
         /\ \A n \in Pending(s)' : n + 1 \in Pending(s) /\ events'[n] = events[n + 1]
         /\ Changes(Head(events), s) => 1 \in Pending(s) /\ events[1] = Head(events)
  <1>1. /\ Head(events) = events[1] /\ Len(events) \in Nat \ {0} /\ DOMAIN events = 1..Len(events)
        /\ DOMAIN events' = 1..(Len(events) - 1)
        /\ \A n \in DOMAIN events' : events'[n] = events[n + 1]
    BY TailAt DEF TypeOK
  <1>2. \A n \in Nat : n \in Pending(s)' <=> n + 1 \in Pending(s) /\ n # 0
    BY <1>1 DEF Pending, Changes
  <1>3. Changes(Head(events), s) <=> 1 \in Pending(s)
    BY <1>1 DEF Pending
  <1>4. Pending(s) \subseteq Nat \ {0} /\ Pending(s)' \subseteq Nat \ {0}
    BY <1>1 DEF Pending
  <1>5. ASSUME WillBe(s, v) PROVE WillBe(s, v)'
    <2>1. CASE Pending(s) = {} /\ notify[s] = v
      BY <1>2, <1>3, <1>4, <2>1 DEF WillBe
    <2>2. ASSUME NEW n \in Pending(s), events[n].value = v, \A m \in Pending(s) : m <= n
          PROVE  WillBe(s, v)'
      <3>1. CASE n = 1
        <4>1. Pending(s)' = {}
          BY <1>2, <1>4, <2>2, <3>1
        <4>2. notify'[s] = v
          BY <1>1, <1>3, <2>2, <3>1
        <4> QED
          BY <4>1, <4>2 DEF WillBe
      <3>2. CASE n # 1
        <4>1. n - 1 \in Pending(s)' /\ n - 1 \in Nat /\ n - 1 + 1 = n
          BY <1>2, <1>4, <2>2, <3>2
        <4>2. events'[n - 1].value = v
          BY <1>1, <2>2, <4>1 DEF Pending
        <4>3. \A m \in Pending(s)' : m <= n - 1
          BY <1>2, <1>4, <2>2, <4>1
        <4> QED
          BY <4>1, <4>2, <4>3 DEF WillBe
      <3> QED
        BY <3>1, <3>2
    <2> QED
      BY <1>5, <2>1, <2>2 DEF WillBe
  <1>6. \A n \in Pending(s)' : n + 1 \in Pending(s) /\ events'[n] = events[n + 1]
    BY <1>1, <1>2, <1>4 DEF Pending
  <1> QED
    BY <1>1, <1>3, <1>5, <1>6

-----------------------------------------------------------------------------
(* Types.                                                                  *)

LEMMA EventFields ==
  ASSUME NEW e \in Events
  PROVE  /\ e.type = "reg" => e.app \in Services /\ e.if \in Services \cup {"invalid"}
         /\ e.type = "tab" => e.if \in Services
         /\ e.type = "connect" => e.if = "batt" /\ e.conn \in ConnIds
         /\ e.type = "disconnect" => e.if = "app"
         /\ e.type = "write" => /\ e.if \in Subscribable /\ e.handle \in Subscribable
                                /\ e.value \in Values /\ e.prep \in BOOLEAN
  BY DEF Events

\* What the stack and the handlers put into the queue are events.
LEMMA EventsMade ==
  /\ \A a \in Services, i \in Services \cup {"invalid"} : [type |-> "reg", app |-> a, if |-> i] \in Events
  /\ \A a \in Services, n \in Nat : [type |-> "tab", if |-> a, num |-> n] \in Events
  /\ [type |-> "gap"] \in Events
  /\ \A k \in ConnIds : [type |-> "connect", if |-> "batt", conn |-> k] \in Events
  /\ [type |-> "disconnect", if |-> "app"] \in Events
  /\ \A s \in Subscribable, v \in Values, p \in BOOLEAN :
       [type |-> "write", if |-> s, handle |-> s, value |-> v, prep |-> p] \in Events
  BY DEF Events

\* What a step does to the queue: nothing, an event behind, or the first one taken.
LEMMA QueueSteps ==
  ASSUME TypeOK, NEW e \in Events
  PROVE  /\ Append(events, e) \in Seq(Events)
         /\ events # <<>> => Tail(events) \in Seq(Events) /\ Head(events) \in Events
  BY AppendAt, TailAt DEF TypeOK

LEMMA TypeStep == TypeOK /\ [Next]_vars => TypeOK'
  <1> SUFFICES ASSUME TypeOK, [Next]_vars PROVE TypeOK'
    OBVIOUS
  <1> USE DEF serverVars, tableVars, stackVars, advVars, clientVars, consoleVars
  <1>1. ASSUME NEW a \in Services, BeginRegister(a) PROVE TypeOK'
    <2>1. events' \in Seq(Events)
      <3>1. CASE UNCHANGED events
        BY <3>1 DEF TypeOK
      <3>2. ASSUME NEW i \in {a, "invalid"},
                   events' = Append(events, [type |-> "reg", app |-> a, if |-> i])
            PROVE  events' \in Seq(Events)
        <4>1. [type |-> "reg", app |-> a, if |-> i] \in Events
          BY EventsMade
        <4> QED
          BY <3>2, <4>1, QueueSteps
      <3> QED
        BY <1>1, <3>1, <3>2 DEF BeginRegister
    <2>2. beginPc' \in Services \cup {"command", "done", "stopped"}
      BY <1>1 DEF BeginRegister, Services
    <2> QED
      BY <1>1, <2>1, <2>2 DEF BeginRegister, TypeOK
  <1>2. CASE BeginCommand
    BY <1>2 DEF BeginCommand, TypeOK
  <1>3. ASSUME OnEvent PROVE TypeOK'
    <2>1. events # <<>> /\ Head(events) \in Events /\ events' \in Seq(Events)
      <3>1. events # <<>> /\ events' = Tail(events)
        BY <1>3
           DEF OnEvent, OnRegister, OnTable, OnAdvConfig, OnConnect, OnDisconnect, OnWrite, Event
      <3>2. [type |-> "gap"] \in Events
        BY EventsMade
      <3> QED
        BY <3>1, <3>2, QueueSteps
    <2>2. CASE OnRegister
      <3>1. Taken.app \in Services /\ Taken.if \in Services \cup {"invalid"}
        BY <2>1, <2>2, EventFields DEF OnRegister, Event, Taken
      <3>2. IndexOf(Taken.app) \in Services
        BY <3>1 DEF IndexOf
      <3>3. iface' \in [Services -> Services \cup {"none"}]
        BY <2>2, <3>1, <3>2 DEF OnRegister, TypeOK
      <3>4. commands' \subseteq {"bt", "battery"}
        BY <2>2 DEF OnRegister, TypeOK
      <3>5. tables' \in [Services -> {"none", "asked", "made", "failed"}]
        BY <2>2 DEF OnRegister, TypeOK
      <3> QED
        BY <2>1, <2>2, <3>3, <3>4, <3>5 DEF OnRegister, TypeOK
    <2>3. CASE OnTable
      <3>1. Taken.if \in Services
        BY <2>1, <2>3, EventFields DEF OnTable, Event, Taken
      <3> QED
        BY <2>1, <2>3, <3>1 DEF OnTable, TypeOK
    <2>4. CASE OnAdvConfig
      BY <2>1, <2>4 DEF OnAdvConfig, TypeOK
    <2>5. CASE OnConnect
      <3>1. Taken.conn \in ConnIds
        BY <2>1, <2>5, EventFields DEF OnConnect, Event, Taken
      <3> QED
        BY <2>1, <2>5, <3>1 DEF OnConnect, TypeOK
    <2>6. CASE OnDisconnect
      BY <2>1, <2>6 DEF OnDisconnect, TypeOK
    <2>7. CASE OnWrite
      BY <2>1, <2>7 DEF OnWrite, TypeOK, Subscription
    <2> QED
      BY <1>3, <2>2, <2>3, <2>4, <2>5, <2>6, <2>7 DEF OnEvent
  <1>4. ASSUME NEW svc \in Subscribable, NEW n \in 0..100, Type(svc, n) PROVE TypeOK'
    <2>1. con' \in Commands
      BY <1>4 DEF Type, TypeOK, Commands, Subscribable, Services
    <2>2. told' \in ConnIds \cup {0}
      BY <1>4 DEF Type, Tells, TypeOK
    <2> QED
      BY <1>4, <2>1, <2>2 DEF Type, TypeOK
  <1>5. CASE SetLevel \/ SetAttr
    <2>1. con \in Commands /\ con.level \in 0..100
      BY DEF TypeOK, Commands
    <2>2. con' \in Commands
      BY <1>5, <2>1 DEF SetLevel, SetAttr, Step, Commands
    <2>3. level' \in 0..100 /\ attr' \in 0..100 /\ missed' \in BOOLEAN
      BY <1>5, <2>1 DEF SetLevel, SetAttr, TypeOK
    <2>4. UNCHANGED <<beginPc, events, serverVars, commands, stackVars, clientVars, known, told>>
      BY <1>5 DEF SetLevel, SetAttr
    <2> QED
      BY <2>2, <2>3, <2>4 DEF TypeOK, serverVars, tableVars, stackVars, clientVars
  <1>6. CASE Notify
    BY <1>6 DEF Notify, TypeOK, Commands, Idle, Subscribable, Services
  <1>7. ASSUME NEW a \in Services, StackMakesTable(a) PROVE TypeOK'
    <2>1. Size[a] \in Nat
      BY DEF Size, Services
    <2>2. events' \in Seq(Events)
      BY <1>7, <2>1, EventsMade, QueueSteps DEF StackMakesTable
    <2> QED
      BY <1>7, <2>2 DEF StackMakesTable, TypeOK
  <1>8. ASSUME NEW d \in {"adv", "rsp"}, StackSetsAdvConfig(d) PROVE TypeOK'
    BY <1>8, EventsMade, QueueSteps DEF StackSetsAdvConfig, TypeOK
  <1>9. ASSUME NEW k \in ConnIds, Connect(k) PROVE TypeOK'
    <2>1. events' \in Seq(Events)
      BY <1>9, EventsMade, QueueSteps DEF Connect, TypeOK
    <2> QED
      BY <1>9, <2>1 DEF Connect, TypeOK
  <1>10. ASSUME NEW k \in ConnIds, Disconnect(k) PROVE TypeOK'
    <2>1. events' \in Seq(Events)
      BY <1>10, EventsMade, QueueSteps DEF Disconnect, TypeOK
    <2> QED
      BY <1>10, <2>1 DEF Disconnect, TypeOK
  <1>11. ASSUME NEW k \in ConnIds, Write(k) PROVE TypeOK'
    <2>1. events' \in Seq(Events)
      BY <1>11, EventsMade, QueueSteps DEF Write
    <2>2. asked' \subseteq connected \X Subscribable
      BY <1>11 DEF Write, TypeOK
    <2> QED
      BY <1>11, <2>1, <2>2 DEF Write, TypeOK
  <1>12. ASSUME NEW k \in ConnIds, Read(k) PROVE TypeOK'
    BY <1>12 DEF Read, TypeOK
  <1>13. CASE UNCHANGED vars
    BY <1>13 DEF vars, TypeOK
  <1>14. CASE TypeSend \/ TypeBattery
    BY <1>4, <1>14 DEF TypeSend, TypeBattery, Subscribable
  <1> QED
    BY <1>1, <1>2, <1>3, <1>5, <1>6, <1>7, <1>8, <1>9, <1>10, <1>11, <1>12, <1>13, <1>14
       DEF Next, Begin, Command, Stack, Client

-----------------------------------------------------------------------------
(* The subscriptions.                                                      *)

LEMMA InitSubscriptions == Init => SubscriptionInv
  <1> SUFFICES ASSUME Init PROVE SubscriptionInv
    OBVIOUS
  <1>1. con \in Commands /\ events \in Seq(Events) /\ DOMAIN events = {}
    BY DEF Init, Idle, Commands, Subscribable
  <1>2. TypeOK
    <2>1. level = 0 /\ attr = 0 /\ missed \in BOOLEAN
      BY DEF Init
    <2>5. /\ known \in [ConnIds -> (0..100) \cup {Unread}]
          /\ conn_id \in [Subscribable -> ConnIds \cup {0}]
      BY DEF Init
    <2>2. beginPc \in Services \cup {"command", "done", "stopped"}
      BY DEF Init, Services
    <2>3. /\ iface \in [Services -> Services \cup {"none"}]
          /\ handles \in [Services -> Services \cup {"zero"}]
          /\ tables \in [Services -> {"none", "asked", "made", "failed"}]
          /\ notify \in [Subscribable -> {"NONE", "NOTIFY", "INDICATE"}]
          /\ wish \in [Subscribable -> Values \cup {"unset"}]
      BY DEF Init
    <2>4. /\ commands \subseteq {"bt", "battery"} /\ asked \subseteq connected \X Subscribable
          /\ started \subseteq Services /\ refused \subseteq Services /\ connected \subseteq ConnIds
          /\ crowded \subseteq connected /\ told \in ConnIds \cup {0}
      BY DEF Init
    <2> QED
      BY <1>1, <2>1, <2>2, <2>3, <2>4, <2>5 DEF TypeOK
  <1>3. OwnNames
    BY <1>1 DEF Init, OwnNames
  <1>4. \A s \in Subscribable : wish[s] = "unset"
    BY DEF Init
  <1> QED
    BY <1>2, <1>3, <1>4 DEF SubscriptionInv

\* A step that leaves the queue and the services alone.
LEMMA QuietStep ==
  ASSUME SubscriptionInv, TypeOK', UNCHANGED <<events, iface, handles, started, notify, wish>>
  PROVE  SubscriptionInv'
  <1>1. OwnNames'
    BY DEF SubscriptionInv, OwnNames
  <1>2. \A s \in Subscribable : \A v : WillBe(s, v)' <=> WillBe(s, v)
    BY DEF WillBe, Pending, Changes
  <1> QED
    BY <1>1, <1>2 DEF SubscriptionInv

LEMMA OwnNamesAppend ==
  ASSUME SubscriptionInv, NEW e \in Events, events' = Append(events, e),
         UNCHANGED <<iface, handles, started>>,
         e.type = "reg" => e.if \in {e.app, "invalid"},
         e.type = "write" => e.handle = e.if /\ e.if \in started
  PROVE  OwnNames'
  <1>1. /\ DOMAIN events' = DOMAIN events \cup {Len(events) + 1} /\ events'[Len(events) + 1] = e
        /\ \A n \in DOMAIN events : events'[n] = events[n]
    BY AppendAt DEF SubscriptionInv, TypeOK
  <1> QED
    BY <1>1 DEF SubscriptionInv, OwnNames

\* The stack puts an event behind that is not a write.
LEMMA AppendStep ==
  ASSUME SubscriptionInv, TypeOK', NEW e \in Events, events' = Append(events, e), e.type # "write",
         e.type = "reg" => e.if \in {e.app, "invalid"},
         UNCHANGED <<iface, handles, started, notify>>,
         \A s \in Subscribable : wish'[s] \in {wish[s], "unset"}
  PROVE  SubscriptionInv'
  <1>1. OwnNames'
    BY OwnNamesAppend
  <1>2. ASSUME NEW s \in Subscribable, wish'[s] # "unset" PROVE WillBe(s, wish[s])' /\ wish'[s] = wish[s]
    <2>1. ~Changes(e, s)
      BY DEF Changes
    <2>2. wish'[s] = wish[s] /\ WillBe(s, wish[s])
      BY <1>2 DEF SubscriptionInv
    <2>3. Pending(s)' = Pending(s) /\ \A n \in Pending(s) : events'[n] = events[n] /\ n \in DOMAIN events
      BY <2>1, WillBeAppend, AppendAt DEF SubscriptionInv, TypeOK, Pending
    <2> QED
      BY <2>2, <2>3 DEF WillBe
  <1> QED
    BY <1>1, <1>2 DEF SubscriptionInv, WillBe

\* A handler takes an event that is not a write, or a write that it acts on.
LEMMA HandlerStep ==
  ASSUME SubscriptionInv, TypeOK', events # <<>>, events' = Tail(events), wish' = wish,
         started \subseteq started', started' \subseteq Services,
         \A s \in Services : iface'[s] \in {s, "none"} /\ handles'[s] \in {s, "zero"},
         \A s \in started' : iface'[s] = s /\ handles'[s] = s,
         \A s \in Subscribable :
           notify'[s] = IF Changes(Head(events), s) THEN Head(events).value ELSE notify[s]
  PROVE  SubscriptionInv'
  <1>1. OwnNames'
    <2>1. \A n \in DOMAIN events' : n + 1 \in DOMAIN events /\ events'[n] = events[n + 1]
      BY TailAt DEF SubscriptionInv, TypeOK
    <2> QED
      BY <2>1 DEF SubscriptionInv, OwnNames
  <1>2. \A s \in Subscribable : \A v : WillBe(s, v) => WillBe(s, v)'
    BY WillBeTail DEF SubscriptionInv
  <1>3. ASSUME NEW s \in Subscribable, wish'[s] # "unset" PROVE WillBe(s, wish[s])'
    <2>1. PICK v : v = wish[s]
      OBVIOUS
    <2>2. WillBe(s, v)'
      BY <1>2, <1>3, <2>1 DEF SubscriptionInv
    <2> QED
      BY <2>1, <2>2 DEF WillBe
  <1> QED
    BY <1>1, <1>3 DEF SubscriptionInv

\* The first event, and who gets it.
LEMMA TakenEvent ==
  ASSUME SubscriptionInv, OnEvent
  PROVE  /\ events # <<>> /\ events' = Tail(events) /\ Taken \in Events
         /\ 1 \in DOMAIN events /\ Taken = events[1] /\ Taken = Head(events)
         /\ \A t \in Services : Taken.if \in Services =>
              (t \in Recipients(iface, Taken) <=> t = Taken.if /\ iface[t] = t)
  <1>1. /\ events # <<>> /\ events' = Tail(events) /\ Taken \in Events
        /\ 1 \in DOMAIN events /\ Taken = events[1]
    BY TailAt DEF SubscriptionInv, TypeOK, OnEvent, OnRegister, OnTable, OnAdvConfig, OnConnect,
                  OnDisconnect, OnWrite, Event, Taken
  <1> QED
    BY <1>1 DEF SubscriptionInv, OwnNames, Recipients, Services, Taken

\* A handler changes a subscription as the write says that it takes, if it is one.
LEMMA NotifyRule ==
  ASSUME SubscriptionInv, OnEvent, NEW s \in Subscribable
  PROVE  notify'[s] = IF Changes(Head(events), s) THEN Head(events).value ELSE notify[s]
  <1>0. TypeOK /\ OwnNames
    BY DEF SubscriptionInv
  <1>1. CASE OnWrite
    <2>1. /\ Taken.type = "write" /\ Taken.if \in Subscribable /\ Taken.handle = Taken.if
          /\ Taken.if \in started /\ Taken.value \in Values
      BY <1>0, <1>1, TakenEvent, EventFields DEF OnWrite, Event, OwnNames, Taken
    <2>2. s \in Recipients(iface, Taken) /\ Taken.handle = handles[s] <=> s = Taken.if
      BY <1>0, <2>1, TakenEvent DEF OwnNames, TypeOK, Subscribable, Services
    <2>3. Taken.value \in {"NONE", "NOTIFY", "INDICATE"} <=> Taken.value # "odd"
      BY <2>1, ConstantsAssumption
    <2>4. notify'[s] = IF s \in Recipients(iface, Taken) /\ Taken.handle = handles[s]
                          /\ (s = "batt" => ~Taken.prep)
                       THEN Subscription(Taken.value, notify[s]) ELSE notify[s]
      BY <1>1 DEF OnWrite
    <2> QED
      BY <2>1, <2>2, <2>3, <2>4 DEF Changes, Subscription, Taken
  <1>2. CASE ~OnWrite
    BY <1>2 DEF OnEvent, OnRegister, OnTable, OnAdvConfig, OnConnect, OnDisconnect, Event, Changes,
                serverVars
  <1> QED
    BY <1>1, <1>2

LEMMA HandlersKeepSubscriptions ==
  ASSUME SubscriptionInv, TypeOK', OnEvent PROVE SubscriptionInv'
  <1>1. events # <<>> /\ events' = Tail(events) /\ Taken \in Events /\ 1 \in DOMAIN events /\ Taken = events[1]
    BY TakenEvent
  <1>2. TypeOK /\ OwnNames
    BY DEF SubscriptionInv
  <1>3. \A t \in Services : Taken.if \in Services => (t \in Recipients(iface, Taken) <=> t = Taken.if /\ iface[t] = t)
    BY TakenEvent
  <1>4. CASE OnRegister
    <2>1. Taken.type = "reg" /\ Taken.if \in {Taken.app, "invalid"} /\ Taken.app \in Services
      BY <1>1, <1>2, <1>4, EventFields DEF OnRegister, Event, OwnNames, Taken
    <2>2. \A s \in Services : iface'[s] \in {iface[s], s}
      BY <1>2, <1>4, <2>1 DEF OnRegister, TypeOK, IndexOf
    <2> QED
      BY <1>1, <1>2, <1>4, <2>2, NotifyRule, HandlerStep
         DEF OnRegister, OwnNames, TypeOK, clientVars
  <1>5. CASE OnTable
    <2>1. Taken.type = "tab" /\ Taken.if \in Services
      BY <1>1, <1>5, EventFields DEF OnTable, Event, Taken
    <2> DEFINE to == {s \in Recipients(iface, Taken) : Taken.num = Size[s]}
    <2>3. \A s \in to : s = Taken.if /\ iface[s] = s
      BY <1>3, <2>1 DEF Recipients
    <2>4. /\ handles' = [s \in Services |-> IF s \in to THEN Taken.if ELSE handles[s]]
          /\ started' \in {started, started \cup {Taken.if}} /\ (to = {} => started' = started)
          /\ UNCHANGED <<iface, wish>>
      BY <1>5 DEF OnTable, clientVars
    <2> HIDE DEF to
    <2>5. \A s \in Services : handles'[s] \in {s, "zero"} /\ (handles[s] = s => handles'[s] = s)
      BY <1>2, <2>3, <2>4 DEF OwnNames
    <2>6. \A s \in started' : iface'[s] = s /\ handles'[s] = s
      BY <1>2, <2>1, <2>3, <2>4, <2>5 DEF OwnNames, TypeOK
    <2>7. started \subseteq started' /\ started' \subseteq Services
      BY <1>2, <2>1, <2>4 DEF TypeOK
    <2> QED
      BY <1>1, <1>2, <2>4, <2>5, <2>6, <2>7, NotifyRule, HandlerStep DEF OwnNames
  <1>6. CASE OnAdvConfig \/ OnConnect \/ OnDisconnect
    <2>1. UNCHANGED <<iface, handles, started, wish>>
      BY <1>6 DEF OnAdvConfig, OnConnect, OnDisconnect, serverVars, tableVars, stackVars, clientVars
    <2> QED
      BY <1>1, <1>2, <2>1, NotifyRule, HandlerStep DEF OwnNames, TypeOK
  <1>7. CASE OnWrite
    <2>2. UNCHANGED <<iface, handles, started, wish>>
      BY <1>7 DEF OnWrite, tableVars, stackVars, clientVars
    <2> QED
      BY <1>1, <1>2, <2>2, NotifyRule, HandlerStep DEF OwnNames, TypeOK
  <1> QED
    BY <1>4, <1>5, <1>6, <1>7 DEF OnEvent

LEMMA WriteKeepsSubscriptions ==
  ASSUME SubscriptionInv, TypeOK', NEW k \in ConnIds, Write(k) PROVE SubscriptionInv'
  <1>0. TypeOK /\ OwnNames
    BY DEF SubscriptionInv
  <1>1. PICK s \in Subscribable \cap started, prep \in BOOLEAN, value \in Values :
          /\ events' = Append(events, [type |-> "write", if |-> s, handle |-> s,
                                       value |-> value, prep |-> prep])
          /\ wish' = [wish EXCEPT ![s] = IF prep THEN "unset" ELSE IF value = "odd" THEN @ ELSE value]
    BY DEF Write
  <1> DEFINE e == [type |-> "write", if |-> s, handle |-> s, value |-> value, prep |-> prep]
  <1>2. UNCHANGED <<iface, handles, notify, started>>
    BY DEF Write, serverVars, tableVars, stackVars
  <1>3. /\ e \in Events /\ e.type = "write" /\ e.if = s /\ e.handle = s /\ e.value = value
        /\ e.prep = prep /\ events' = Append(events, e)
    BY <1>1, EventsMade
  <1> HIDE DEF e
  <1>4. OwnNames'
    BY <1>1, <1>2, <1>3, OwnNamesAppend
  <1>5. ASSUME NEW t \in Subscribable, wish'[t] # "unset" PROVE WillBe(t, wish[t])'
    <2>1. PICK v : v = wish'[t]
      OBVIOUS
    <2>2. CASE Changes(e, t)
      <3>1. t = s /\ value # "odd" /\ (s = "batt" => ~prep)
        BY <1>3, <2>2 DEF Changes
      <3>2. v = value
        BY <1>0, <1>1, <1>5, <2>1, <3>1 DEF TypeOK
      <3>3. WillBe(t, v)'
        BY <1>0, <1>2, <1>3, <2>2, <3>2, WillBeAppend
      <3> QED
        BY <2>1, <3>3 DEF WillBe
    <2>3. CASE ~Changes(e, t)
      <3>1. t # s \/ value = "odd" \/ prep
        BY <1>3, <2>3 DEF Changes
      <3>2. v = wish[t]
        BY <1>0, <1>1, <1>5, <2>1, <3>1 DEF TypeOK
      <3>3. WillBe(t, v)
        BY <1>5, <2>1, <3>2 DEF SubscriptionInv
      <3>4. WillBe(t, v)'
        BY <1>0, <1>2, <1>3, <2>3, <3>3, WillBeAppend
      <3> QED
        BY <2>1, <3>4 DEF WillBe
    <2> QED
      BY <2>2, <2>3
  <1> QED
    BY <1>4, <1>5 DEF SubscriptionInv

LEMMA SubscriptionStep == SubscriptionInv /\ [Next]_vars => SubscriptionInv'
  <1> SUFFICES ASSUME SubscriptionInv, [Next]_vars PROVE SubscriptionInv'
    OBVIOUS
  <1>0. TypeOK'
    BY TypeStep DEF SubscriptionInv
  <1> USE DEF serverVars, tableVars, stackVars, advVars, clientVars, consoleVars
  <1>1. ASSUME NEW a \in Services, BeginRegister(a) PROVE SubscriptionInv'
    <2>1. UNCHANGED <<iface, handles, started, notify, wish>>
      BY <1>1 DEF BeginRegister
    <2>2. CASE UNCHANGED events
      BY <1>0, <2>1, <2>2, QuietStep
    <2>3. ASSUME NEW i \in {a, "invalid"},
                 events' = Append(events, [type |-> "reg", app |-> a, if |-> i])
          PROVE  SubscriptionInv'
      <3> DEFINE e == [type |-> "reg", app |-> a, if |-> i]
      <3>1. e \in Events /\ e.type = "reg" /\ e.if \in {e.app, "invalid"}
        BY EventsMade
      <3> QED
        BY <1>0, <2>1, <2>3, <3>1, AppendStep
    <2> QED
      BY <1>1, <2>2, <2>3 DEF BeginRegister
  <1>2. CASE BeginCommand \/ TypeSend \/ TypeBattery \/ Command \/ \E k \in ConnIds : Read(k)
    BY <1>0, <1>2, QuietStep
       DEF BeginCommand, TypeSend, TypeBattery, Type, Command, SetLevel, SetAttr,
                                 Notify, Read
  <1>3. CASE OnEvent
    BY <1>0, <1>3, HandlersKeepSubscriptions
  <1>4. ASSUME NEW a \in Services, StackMakesTable(a) PROVE SubscriptionInv'
    <2>1. PICK n \in {0, Size[a]} : events' = Append(events, [type |-> "tab", if |-> a, num |-> n])
      BY <1>4 DEF StackMakesTable
    <2> DEFINE e == [type |-> "tab", if |-> a, num |-> n]
    <2>2. Size[a] \in Nat
      BY DEF Size, Services
    <2>3. e \in Events /\ e.type = "tab"
      BY <2>2, EventsMade
    <2>4. UNCHANGED <<iface, handles, started, notify, wish>>
      BY <1>4 DEF StackMakesTable
    <2> QED
      BY <1>0, <2>1, <2>3, <2>4, AppendStep
  <1>5. ASSUME NEW d \in {"adv", "rsp"}, StackSetsAdvConfig(d) PROVE SubscriptionInv'
    <2> DEFINE e == [type |-> "gap"]
    <2>1. e \in Events /\ e.type = "gap"
      BY EventsMade
    <2>2. events' = Append(events, e) /\ UNCHANGED <<iface, handles, started, notify, wish>>
      BY <1>5 DEF StackSetsAdvConfig
    <2> QED
      BY <1>0, <2>1, <2>2, AppendStep
  <1>6. ASSUME NEW k \in ConnIds, Connect(k) PROVE SubscriptionInv'
    <2> DEFINE e == [type |-> "connect", if |-> "batt", conn |-> k]
    <2>1. e \in Events /\ e.type = "connect"
      BY EventsMade
    <2>2. /\ events' = events \/ events' = Append(events, e)
          /\ UNCHANGED <<iface, handles, started, notify>> /\ wish' = [s \in Subscribable |-> "unset"]
      BY <1>6 DEF Connect
    <2>3. CASE events' = Append(events, e)
      BY <1>0, <2>1, <2>2, <2>3, AppendStep
    <2>4. CASE events' = events
      BY <1>0, <2>2, <2>4 DEF SubscriptionInv, OwnNames
    <2> QED
      BY <2>2, <2>3, <2>4
  <1>7. ASSUME NEW k \in ConnIds, Disconnect(k) PROVE SubscriptionInv'
    <2> DEFINE e == [type |-> "disconnect", if |-> "app"]
    <2>1. e \in Events /\ e.type = "disconnect"
      BY EventsMade
    <2>2. /\ events' = events \/ events' = Append(events, e)
          /\ UNCHANGED <<iface, handles, started, notify, wish>>
      BY <1>7 DEF Disconnect
    <2> QED
      BY <1>0, <2>1, <2>2, AppendStep, QuietStep
  <1>8. ASSUME NEW k \in ConnIds, Write(k) PROVE SubscriptionInv'
    BY <1>0, <1>8, WriteKeepsSubscriptions
  <1>9. CASE UNCHANGED vars
    BY <1>0, <1>9, QuietStep DEF vars
  <1> QED
    BY <1>1, <1>2, <1>3, <1>4, <1>5, <1>6, <1>7, <1>8, <1>9 DEF Next, Begin, Stack, Client

\* The state SubscriptionInv describes is one in which what was asked is in force.
LEMMA SubscriptionsFollow == SubscriptionInv => SubscriptionInForce
  <1> SUFFICES ASSUME SubscriptionInv, ~WritesPending PROVE
                 \A s \in Subscribable : wish[s] # "unset" => notify[s] = wish[s]
    BY DEF SubscriptionInForce
  <1>1. \A s \in Subscribable : Pending(s) = {}
    BY DEF Pending, Changes, WritesPending
  <1> QED
    BY <1>1 DEF SubscriptionInv, WillBe

\* For any clients at a time, any numbers of connections and any values that they
\* write: once the queue holds no more writes, the subscription of each service is the
\* one that was written last, whatever events, failures of the registration and
\* commands came in between (gatts_event_handler, update_notify_value).
THEOREM LastWriteIsInForce == Spec => []SubscriptionInForce
  BY InitSubscriptions, SubscriptionStep, SubscriptionsFollow, PTL DEF Spec

-----------------------------------------------------------------------------
(* The battery level.                                                      *)

\* A step that leaves alone the level and what clients know, and takes from the queue or
\* adds to it what cannot end a subscription.
LEMMA LevelQueue ==
  ASSUME LevelInv, SubscriptionInv',
         UNCHANGED <<con, level, attr, missed, known, asked, told, crowded, connected>>,
         \A v : WillBe("batt", v) => WillBe("batt", v)',
         \A n \in Pending("batt")' : \E m \in Pending("batt") : events'[n].value = events[m].value,
         \/ notify'["batt"] = notify["batt"]
         \/ \E m \in Pending("batt") : notify'["batt"] = events[m].value
  PROVE  LevelInv'
  <1>1. \A k \in ConnIds \ crowded' : <<k, "batt">> \in asked' =>
          \E v \in {"NOTIFY", "INDICATE"} : WillBe("batt", v)'
    BY DEF LevelInv
  <1>2. \A k \in ConnIds \ crowded' : known'[k] # Unread =>
          /\ notify'["batt"] # "NONE"
          /\ \A n \in Pending("batt")' : events'[n].value # "NONE"
          /\ \/ missed' \/ known'[k] = level' \/ told' # k
             \/ con'.svc = "batt" /\ con'.pc \in {"level", "attr", "notify"}
    BY DEF LevelInv
  <1> QED
    BY <1>1, <1>2 DEF LevelInv

\* An event that is not a write for the battery service is put behind, or none.
LEMMA OtherEvent ==
  ASSUME TypeOK, NEW e \in Events, ~Changes(e, "batt"), events' \in {events, Append(events, e)},
         notify' = notify
  PROVE  /\ Pending("batt")' = Pending("batt") /\ \A v : WillBe("batt", v) => WillBe("batt", v)'
         /\ \A n \in Pending("batt") : events'[n] = events[n]
  <1>1. CASE events' = events
    BY <1>1 DEF Pending, Changes, WillBe
  <1>2. CASE events' = Append(events, e)
    <2>1. Pending("batt")' = Pending("batt") /\ \A v : WillBe("batt", v) => WillBe("batt", v)'
      BY <1>2, WillBeAppend DEF Subscribable
    <2>2. \A n \in Pending("batt") : events'[n] = events[n]
      BY <1>2, AppendAt DEF Pending, TypeOK
    <2> QED
      BY <2>1, <2>2
  <1> QED
    BY <1>1, <1>2

LEMMA LevelAppend ==
  ASSUME LevelInv, SubscriptionInv', UNCHANGED <<con, level, attr, missed, known, asked, notify>>,
         UNCHANGED <<told, crowded, connected>>,
         NEW e \in Events, ~Changes(e, "batt"), events' \in {events, Append(events, e)}
  PROVE  LevelInv'
  <1>1. TypeOK
    BY DEF LevelInv, SubscriptionInv
  <1> QED
    BY <1>1, OtherEvent, LevelQueue

LEMMA LevelQuiet ==
  ASSUME LevelInv, SubscriptionInv', UNCHANGED <<con, level, attr, missed, known, asked, notify>>,
         UNCHANGED <<told, crowded, connected, events>>
  PROVE  LevelInv'
  <1>1. Pending("batt")' = Pending("batt") /\ \A v : WillBe("batt", v) => WillBe("batt", v)'
    BY DEF Pending, Changes, WillBe
  <1> QED
    BY <1>1, LevelQueue

LEMMA LevelHandlers ==
  ASSUME LevelInv, SubscriptionInv', OnEvent PROVE LevelInv'
  <1>0. SubscriptionInv /\ TypeOK /\ "batt" \in Subscribable
    BY DEF LevelInv, SubscriptionInv, Subscribable
  <1>1. UNCHANGED <<con, level, attr, missed, known, asked, told, crowded, connected>>
    BY DEF OnEvent, OnRegister, OnTable, OnAdvConfig, OnConnect, OnDisconnect, OnWrite, clientVars,
           consoleVars
  <1>2. /\ \A v : WillBe("batt", v) => WillBe("batt", v)'
        /\ \A n \in Pending("batt")' : n + 1 \in Pending("batt") /\ events'[n] = events[n + 1]
        /\ Changes(Head(events), "batt") => 1 \in Pending("batt") /\ events[1] = Head(events)
    BY <1>0, TakenEvent, NotifyRule, WillBeTail
  <1>3. notify'["batt"] = IF Changes(Head(events), "batt") THEN Head(events).value ELSE notify["batt"]
    BY <1>0, NotifyRule
  <1> QED
    BY <1>1, <1>2, <1>3, LevelQueue

LEMMA LevelCommands ==
  ASSUME LevelInv, SubscriptionInv',
         TypeSend \/ TypeBattery \/ Command \/ \E k \in ConnIds : Read(k)
  PROVE  LevelInv'
  <1>0. SubscriptionInv /\ TypeOK /\ con \in Commands /\ attr \in 0..100 /\ known \in [ConnIds -> (0..100) \cup {Unread}]
    BY DEF LevelInv, SubscriptionInv, TypeOK
  <1>1. UNCHANGED <<events, notify, asked, crowded, connected>>
    BY
       DEF TypeSend, TypeBattery, Type, Command, SetLevel, SetAttr, Notify, Read, serverVars,
           clientVars
  <1>2. Pending("batt")' = Pending("batt") /\ \A v : WillBe("batt", v)' <=> WillBe("batt", v)
    BY <1>1 DEF Pending, Changes, WillBe
  <1>3. \A k \in ConnIds \ crowded : <<k, "batt">> \in asked =>
          \E v \in {"NOTIFY", "INDICATE"} : WillBe("batt", v)'
    BY <1>2 DEF LevelInv
  <1>4. ASSUME NEW svc \in Subscribable, NEW n \in 0..100, Type(svc, n) PROVE LevelInv'
    <2>1. CASE svc = "batt"
      BY <1>0, <1>1, <1>2, <1>3, <1>4, <2>1 DEF LevelInv, Type, Tells
    <2>2. CASE svc = "app"
      BY <1>0, <1>1, <1>2, <1>3, <1>4, <2>2 DEF LevelInv, Type, Tells
    <2> QED
      BY <2>1, <2>2 DEF Subscribable
  <1>5. CASE SetLevel
    BY <1>0, <1>1, <1>2, <1>3, <1>5 DEF LevelInv, SetLevel, Step, Commands
  <1>6. CASE SetAttr
    BY <1>0, <1>1, <1>2, <1>3, <1>6 DEF LevelInv, SetAttr, Step, Commands
  <1>7. CASE Notify
    <2>1. \A k \in ConnIds : known'[k] # Unread => known[k] # Unread
      BY <1>0, <1>7 DEF Notify
    <2>2. ASSUME NEW k \in ConnIds \ crowded, known[k] # Unread, ~missed, told = k
          PROVE  known'[k] = level
      <3>1. CASE con.svc = "batt"
        BY <1>0, <1>7, <2>2, <3>1 DEF LevelInv, Notify, Sends
      <3>2. CASE con.svc # "batt"
        BY <1>0, <1>7, <2>2, <3>2 DEF LevelInv, Notify, Sends
      <3> QED
        BY <3>1, <3>2
    <2>3. UNCHANGED <<told, level, attr, missed>> /\ con' = Idle /\ con.pc = "notify"
      BY <1>7 DEF Notify
    <2>4. \A k \in ConnIds \ crowded : known'[k] # Unread => missed \/ known'[k] = level \/ told # k
      BY <2>1, <2>2
    <2> QED
      BY <1>0, <1>1, <1>2, <1>3, <2>1, <2>3, <2>4 DEF LevelInv, Idle
  <1>8. ASSUME NEW k \in ConnIds, Read(k) PROVE LevelInv'
    <2>1. Pending("batt") = {}
      BY <1>8 DEF Read, WritesPending, Pending, Changes
    <2>2. <<k, "batt">> \in asked /\ (k \notin crowded => notify["batt"] # "NONE")
      BY <1>8, <2>1 DEF Read, LevelInv, WillBe
    <2>3. /\ UNCHANGED <<con, level, attr, missed, told>>
          /\ \A j \in ConnIds : known'[j] = IF j = k THEN attr ELSE known[j]
      BY <1>0, <1>8 DEF Read
    <2> QED
      BY <1>0, <1>1, <1>2, <1>3, <2>1, <2>2, <2>3 DEF LevelInv
  <1>9. CASE TypeSend \/ TypeBattery
    BY <1>4, <1>9 DEF TypeSend, TypeBattery, Subscribable
  <1> QED
    BY <1>5, <1>6, <1>7, <1>8, <1>9 DEF Command

\* A client writes to a descriptor: what it asks of the battery service, it gets.
LEMMA LevelWrite ==
  ASSUME LevelInv, SubscriptionInv', NEW k \in ConnIds, Write(k) PROVE LevelInv'
  <1>0. /\ SubscriptionInv /\ TypeOK /\ "batt" \in Subscribable
        /\ known \in [ConnIds -> (0..100) \cup {Unread}]
    BY DEF LevelInv, SubscriptionInv, TypeOK, Subscribable
  <1>1. PICK s \in Subscribable \cap started, prep \in BOOLEAN, v \in Values :
          /\ events' = Append(events, [type |-> "write", if |-> s, handle |-> s,
                                       value |-> v, prep |-> prep])
          /\ asked' = IF v = "odd" \/ (s = "batt" /\ prep) THEN asked
                      ELSE IF v = "NONE" THEN asked \ {<<k, s>>} ELSE asked \cup {<<k, s>>}
    BY DEF Write
  <1> DEFINE e == [type |-> "write", if |-> s, handle |-> s, value |-> v, prep |-> prep]
  <1>2. e \in Events /\ e.value = v /\ (Changes(e, "batt") <=> s = "batt" /\ ~prep /\ v # "odd")
    BY <1>1, EventsMade DEF Changes
  <1>3. events' = Append(events, e)
    BY <1>1
  <1> HIDE DEF e
  <1>4. /\ UNCHANGED <<notify, con, level, attr, missed, told, crowded, connected>>
        /\ known' = [known EXCEPT ![k] = IF <<k, "batt">> \in asked' THEN @ ELSE Unread]
    BY DEF Write, serverVars
  <1>5. v \in {"NONE", "NOTIFY", "INDICATE", "odd"}
    BY ConstantsAssumption
  <1>6. ASSUME k \notin crowded, <<k, "batt">> \in asked'
        PROVE  \E w \in {"NOTIFY", "INDICATE"} : WillBe("batt", w)'
    <2>1. CASE Changes(e, "batt")
      <3>1. WillBe("batt", v)'
        BY <1>0, <1>2, <1>3, <1>4, <2>1, WillBeAppend
      <3>2. <<k, "batt">> \in asked' => v \in {"NOTIFY", "INDICATE"}
        BY <1>1, <1>2, <1>5, <2>1
      <3> QED
        BY <1>6, <3>1, <3>2
    <2>2. CASE ~Changes(e, "batt")
      <3>1. <<k, "batt">> \in asked' <=> <<k, "batt">> \in asked
        BY <1>1, <1>2, <2>2
      <3>2. \A w : WillBe("batt", w) => WillBe("batt", w)'
        BY <1>0, <1>2, <1>3, <1>4, <2>2, WillBeAppend
      <3> QED
        BY <1>6, <3>1, <3>2 DEF LevelInv
    <2> QED
      BY <2>1, <2>2
  <1>7. ASSUME known'[k] # Unread, k \notin crowded
        PROVE  /\ <<k, "batt">> \in asked' /\ known'[k] = known[k] /\ known[k] # Unread
               /\ \A n \in Pending("batt")' : events'[n].value # "NONE"
    <2>1. <<k, "batt">> \in asked' /\ known'[k] = known[k]
      BY <1>0, <1>4, <1>7
    <2>2. /\ Changes(e, "batt") => v # "NONE"
          /\ ~Changes(e, "batt") => Pending("batt")' = Pending("batt")
          /\ \A n \in Pending("batt")' : events'[n] = e \/ (n \in Pending("batt") /\ events'[n] = events[n])
      BY <1>0, <1>1, <1>2, <1>3, <1>4, <2>1, WillBeAppend
    <2>3. \A n \in Pending("batt") : events[n].value # "NONE" /\ events'[n] = events[n]
      BY <1>0, <1>2, <1>3, <1>7, <2>1, AppendAt DEF LevelInv, Pending, TypeOK
    <2>4. \A n \in Pending("batt")' : events'[n].value # "NONE"
      BY <1>2, <2>2, <2>3
    <2> QED
      BY <1>7, <2>1, <2>4
  <1>8. k \in connected /\ \A j \in ConnIds \ crowded : j # k => <<j, "batt">> \notin asked
    BY <1>0 DEF Write, LevelInv, TypeOK
  <1>9. \A j \in ConnIds : j # k =>
          known'[j] = known[j] /\ (<<j, "batt">> \in asked' <=> <<j, "batt">> \in asked)
    BY <1>0, <1>1, <1>4
  <1>10. known'[k] # Unread => <<k, "batt">> \in asked'
    BY <1>0, <1>4
  <1>11. \A j \in ConnIds \ crowded' :
           <<j, "batt">> \in asked' => \E w \in {"NOTIFY", "INDICATE"} : WillBe("batt", w)'
    BY <1>4, <1>6, <1>8, <1>9
  <1>12. \A j \in ConnIds : known'[j] # Unread => <<j, "batt">> \in asked'
    BY <1>9, <1>10 DEF LevelInv
  <1>13. \A j \in ConnIds \ crowded' : known'[j] # Unread => j = k
    BY <1>4, <1>8, <1>9 DEF LevelInv
  <1> QED
    BY <1>4, <1>7, <1>11, <1>12, <1>13 DEF LevelInv

LEMMA LevelStep ==
  ASSUME LevelInv, [Next]_vars PROVE LevelInv'
  <1>0. SubscriptionInv' /\ TypeOK /\ TypeOK'
    BY SubscriptionStep DEF LevelInv, SubscriptionInv
  <1>1. ASSUME NEW a \in Services, BeginRegister(a) PROVE LevelInv'
    <2>1. PICK i \in {a, "invalid"} :
            events' \in {events, Append(events, [type |-> "reg", app |-> a, if |-> i])}
      BY <1>1 DEF BeginRegister
    <2>2. LET e == [type |-> "reg", app |-> a, if |-> i]
          IN  e \in Events /\ ~Changes(e, "batt")
      BY EventsMade DEF Changes
    <2> QED
      BY <1>0, <1>1, <2>1, <2>2, LevelAppend DEF BeginRegister, serverVars, clientVars, consoleVars
  <1>2. CASE BeginCommand
    BY <1>0, <1>2, LevelQuiet DEF BeginCommand, serverVars, clientVars, consoleVars
  <1>3. CASE OnEvent
    BY <1>0, <1>3, LevelHandlers
  <1>4. CASE TypeSend \/ TypeBattery \/ Command \/ \E k \in ConnIds : Read(k)
    BY <1>0, <1>4, LevelCommands
  <1>5. ASSUME NEW a \in Services, StackMakesTable(a) PROVE LevelInv'
    <2>1. PICK n \in {0, Size[a]} : events' = Append(events, [type |-> "tab", if |-> a, num |-> n])
      BY <1>5 DEF StackMakesTable
    <2> DEFINE e == [type |-> "tab", if |-> a, num |-> n]
    <2>2. e \in Events /\ ~Changes(e, "batt")
      BY EventsMade DEF Size, Services, Changes
    <2>3. events' = Append(events, e)
      BY <2>1
    <2> HIDE DEF e
    <2>4. /\ UNCHANGED <<con, level, missed, known, asked, notify, told, crowded, connected>>
          /\ attr' \in {attr, level}
      BY <1>5 DEF StackMakesTable, serverVars, clientVars
    <2>5. Pending("batt")' = Pending("batt") /\ \A v : WillBe("batt", v) => WillBe("batt", v)'
      BY <1>0, <2>2, <2>3, <2>4, WillBeAppend DEF Subscribable
    <2>6. \A m \in Pending("batt") : events'[m] = events[m]
      BY <1>0, <2>2, <2>3, AppendAt DEF TypeOK, Pending
    <2> QED
      BY <1>0, <2>4, <2>5, <2>6 DEF LevelInv
  <1>6. ASSUME NEW d \in {"adv", "rsp"}, StackSetsAdvConfig(d) PROVE LevelInv'
    <2>1. [type |-> "gap"] \in Events /\ ~Changes([type |-> "gap"], "batt")
      BY EventsMade DEF Changes
    <2> QED
      BY <1>0, <1>6, <2>1, LevelAppend DEF StackSetsAdvConfig, serverVars, clientVars, consoleVars
  <1>7. ASSUME NEW k \in ConnIds, Connect(k) PROVE LevelInv'
    <2> DEFINE e == [type |-> "connect", if |-> "batt", conn |-> k]
    <2>1. e \in Events /\ ~Changes(e, "batt")
      BY EventsMade DEF Changes
    <2>2. events' \in {events, Append(events, e)}
      BY <1>7 DEF Connect
    <2> HIDE DEF e
    <2>3. /\ UNCHANGED <<con, level, attr, missed, known, asked, notify, told>>
          /\ k \notin connected /\ connected' = connected \cup {k}
          /\ crowded' = IF connected # {} THEN connected' ELSE crowded
      BY <1>7 DEF Connect, serverVars, consoleVars
    <2>4. /\ Pending("batt")' = Pending("batt") /\ \A v : WillBe("batt", v) => WillBe("batt", v)'
          /\ \A n \in Pending("batt") : events'[n] = events[n]
      BY <1>0, <2>1, <2>2, <2>3, OtherEvent
    <2>5. \A i, j \in connected' : i # j => {i, j} \subseteq crowded'
      BY <2>3
    <2>6. \A j \in ConnIds \ crowded' : j \notin crowded \/ <<j, "batt">> \notin asked
      BY <1>0, <2>3 DEF TypeOK
    <2> QED
      BY <1>0, <2>3, <2>4, <2>5, <2>6 DEF LevelInv
  <1>8. ASSUME NEW k \in ConnIds, Disconnect(k) PROVE LevelInv'
    <2> DEFINE e == [type |-> "disconnect", if |-> "app"]
    <2>1. e \in Events /\ ~Changes(e, "batt")
      BY EventsMade DEF Changes
    <2>2. events' \in {events, Append(events, e)}
      BY <1>8 DEF Disconnect
    <2> HIDE DEF e
    <2>3. /\ UNCHANGED <<con, level, attr, missed, notify, told>>
          /\ connected' = connected \ {k} /\ crowded' = crowded \ {k}
          /\ <<k, "batt">> \notin asked' /\ known'[k] = Unread
          /\ \A j \in ConnIds : j # k =>
               known'[j] = known[j] /\ (<<j, "batt">> \in asked' <=> <<j, "batt">> \in asked)
      BY <1>0, <1>8 DEF Disconnect, serverVars, TypeOK, Subscribable
    <2>4. /\ Pending("batt")' = Pending("batt") /\ \A v : WillBe("batt", v) => WillBe("batt", v)'
          /\ \A n \in Pending("batt") : events'[n] = events[n]
      BY <1>0, <2>1, <2>2, <2>3, OtherEvent
    <2>5. \A i, j \in connected' : i # j => {i, j} \subseteq crowded'
      BY <2>3 DEF LevelInv
    <2> QED
      BY <1>0, <2>3, <2>4, <2>5 DEF LevelInv
  <1>9. CASE \E k \in ConnIds : Write(k)
    BY <1>0, <1>9, LevelWrite
  <1>10. CASE UNCHANGED vars
    BY <1>0, <1>10, LevelQuiet DEF vars, serverVars, clientVars, consoleVars
  <1> QED
    BY <1>1, <1>2, <1>3, <1>4, <1>5, <1>6, <1>7, <1>8, <1>9, <1>10 DEF Next, Begin, Stack, Client

\* For any connections, one after the other or at a time, and any levels: the value of
\* the attribute is the level that was set, and a client that has the server for itself,
\* subscribed and then read, knows that level whenever no command is under way and the
\* last level was set by a command that found its connection, wherever the steps of the
\* console task and the Bluetooth task fall (cmd_batt, batt_set_battery_level).
THEOREM LevelIsKnown == Spec => []LevelIsServed
  <1>1. Init => LevelInv
    <2> SUFFICES ASSUME Init PROVE LevelInv
      OBVIOUS
    <2> QED
      BY InitSubscriptions DEF Init, LevelInv, Idle
  <1>2. LevelInv /\ [Next]_vars => LevelInv'
    BY LevelStep
  <1>3. LevelInv => LevelIsServed
    BY DEF LevelInv, LevelIsServed
  <1> QED
    BY <1>1, <1>2, <1>3, PTL DEF Spec

-----------------------------------------------------------------------------
(* The LED strip: for any number of LEDs and any sizes of the RMT memory.  *)

LEMMA LedSizes ==
  ASSUME Led!ConstantsAssumption
  PROVE  Led!DataSymbols \in Nat /\ Leds \in Nat /\ Memories \subseteq Nat /\ \A m \in Nat : m \div 2 \in Nat
  <1>1. Leds * 3 \in Nat /\ Bits \in Nat
    BY DEF Led!ConstantsAssumption
  <1>2. \A a, b \in Nat : a * b \in Nat
    OBVIOUS
  <1> QED
    BY <1>1, <1>2 DEF Led!DataSymbols, Led!ConstantsAssumption

\* The pixels when they are all black.
LEMMA BlackPixels ==
  ASSUME Led!ConstantsAssumption, NEW buf, buf = [b \in Led!Bytes |-> 0], NEW colours, colours = Led!Black
  PROVE  /\ buf \in [Led!Bytes -> Range(buf)] /\ colours \in [0..(Leds - 1) -> Range(colours)]
         /\ \A i \in 0..(Leds - 1) : colours[i] = <<buf[3 * i + 1], buf[3 * i], buf[3 * i + 2]>>
  <1>1. buf \in [Led!Bytes -> Range(buf)] /\ colours \in [0..(Leds - 1) -> Range(colours)]
    BY DEF Led!Black, Range
  <1>2. \A i \in 0..(Leds - 1) : {3 * i, 3 * i + 1, 3 * i + 2} \subseteq Led!Bytes
    BY LedSizes DEF Led!Bytes
  <1>3. ASSUME NEW i \in 0..(Leds - 1)
        PROVE  colours[i] = <<buf[3 * i + 1], buf[3 * i], buf[3 * i + 2]>>
    <2>1. buf[3 * i] = 0 /\ buf[3 * i + 1] = 0 /\ buf[3 * i + 2] = 0
      BY <1>2
    <2> QED
      BY <2>1 DEF Led!Black
  <1> QED
    BY <1>1, <1>3

LEMMA InitLed == Led!ConstantsAssumption /\ Led!Init => Led!LedInv
  <1> SUFFICES ASSUME Led!ConstantsAssumption, Led!Init PROVE Led!LedInv
    OBVIOUS
  <1>1. Led!PixelsAsAsked
    <2>1. l_pixel_buf = [b \in Led!Bytes |-> 0] /\ l_asked = Led!Black
      BY DEF Led!Init
    <2> QED
      BY <2>1, BlackPixels DEF Led!PixelsAsAsked, Led!Range, Range
  <1>2. Led!EncoderInv /\ Led!NothingLeaks
    BY LedSizes DEF Led!Init, Led!EncoderInv, Led!NothingLeaks
  <1> QED
    BY <1>1, <1>2 DEF Led!LedInv

\* A creation or a deletion.
LEMMA LedDevice ==
  ASSUME Led!ConstantsAssumption, Led!LedInv, Led!New \/ Led!NewFails \/ Led!Del
  PROVE  Led!LedInv'
  <1>0. Led!PixelsAsAsked /\ Led!EncoderInv /\ Led!NothingLeaks
    BY DEF Led!LedInv
  <1>1. CASE Led!New
    <2>1. Led!PixelsAsAsked'
      <3>1. l_pixel_buf' = [b \in Led!Bytes |-> 0] /\ l_asked' = Led!Black
        BY <1>1 DEF Led!New
      <3> QED
        BY <3>1, BlackPixels DEF Led!PixelsAsAsked, Led!Range, Range
    <2>2. Led!EncoderInv'
      BY <1>0, <1>1, LedSizes DEF Led!New, Led!EncoderInv, Led!encoder
    <2>3. Led!NothingLeaks'
      BY <1>1 DEF Led!New, Led!NothingLeaks, Led!Made, Led!NewEncoder, Led!Resources
    <2> QED
      BY <2>1, <2>2, <2>3 DEF Led!LedInv
  <1>2. CASE Led!NewFails
    <2>1. \A failing \in Led!Resources \cup {"enable"} : Led!Cleanup(Led!Made(failing)) = {}
      BY DEF Led!Resources, Led!Cleanup, Led!Made, Led!NewEncoder
    <2>2. Led!NothingLeaks'
      BY <1>2, <2>1 DEF Led!NewFails, Led!NothingLeaks
    <2> QED
      BY <1>0, <1>2, <2>2
         DEF Led!NewFails, Led!LedInv, Led!PixelsAsAsked, Led!EncoderInv, Led!encoder,
                              Led!Sent, Led!Symbol
  <1>3. CASE Led!Del
    <2>1. Led!PixelsAsAsked' /\ Led!NothingLeaks'
      BY <1>0, <1>3
         DEF Led!Del, Led!FreedBefore, Led!PixelsAsAsked, Led!NothingLeaks, Led!Resources
    <2>2. Led!EncoderInv'
      BY <1>0, <1>3 DEF Led!Del, Led!EncoderInv, Led!encoder
    <2> QED
      BY <2>1, <2>2 DEF Led!LedInv
  <1> QED
    BY <1>1, <1>2, <1>3

\* The pixels, and the start of a transmission.
LEMMA LedPixels ==
  ASSUME Led!ConstantsAssumption, Led!LedInv,
         \/ \E i \in 0..Leds, r, g, b \in Colours : Led!SetPixel(i, r, g, b)
         \/ Led!Refresh \/ Led!Clear
  PROVE  Led!LedInv'
  <1>0. Led!PixelsAsAsked /\ Led!EncoderInv /\ Led!NothingLeaks
    BY DEF Led!LedInv
  <1>1. Led!NothingLeaks'
    BY <1>0 DEF Led!NothingLeaks, Led!SetPixel, Led!Refresh, Led!Clear, Led!device
  <1>2. ASSUME NEW i \in 0..Leds, NEW r, NEW g, NEW b, Led!SetPixel(i, r, g, b) PROVE Led!LedInv'
    <2>1. i \in 0..(Leds - 1) /\ {3 * i, 3 * i + 1, 3 * i + 2} \subseteq Led!Bytes
      BY <1>2, LedSizes DEF Led!SetPixel, Led!Bytes
    <2>2. /\ l_pixel_buf' \in [Led!Bytes -> Range(l_pixel_buf')]
          /\ l_asked' \in [0..(Leds - 1) -> Range(l_asked')]
      BY <1>0, <1>2 DEF Led!SetPixel, Led!PixelsAsAsked, Range
    <2>3. ASSUME NEW j \in 0..(Leds - 1)
          PROVE  l_asked'[j] = <<l_pixel_buf'[3 * j + 1], l_pixel_buf'[3 * j], l_pixel_buf'[3 * j + 2]>>
      <3>1. j \in Nat /\ i \in Nat /\ {3 * j, 3 * j + 1, 3 * j + 2} \subseteq Led!Bytes
        BY <2>1, LedSizes DEF Led!Bytes
      <3>2. CASE j = i
        BY <1>0, <1>2, <2>1, <3>1, <3>2 DEF Led!SetPixel, Led!PixelsAsAsked
      <3>3. CASE j # i
        BY <1>0, <1>2, <2>1, <3>1, <3>3 DEF Led!SetPixel, Led!PixelsAsAsked
      <3> QED
        BY <3>2, <3>3
    <2>4. Led!EncoderInv'
      BY <1>0, <1>2 DEF Led!SetPixel, Led!EncoderInv, Led!encoder, Led!device
    <2> QED
      BY <1>1, <2>2, <2>3, <2>4 DEF Led!LedInv, Led!PixelsAsAsked, Led!Range, Range
  <1>3. ASSUME l_state = 0, l_index = 0, Led!Transmit, UNCHANGED <<l_strip, l_mem, l_state, l_index>>,
               l_strip = "made"
        PROVE  Led!EncoderInv'
    <2>1. l_wire' = <<>> /\ Len(l_wire') = 0 /\ l_wire' \in Seq(Range(l_wire')) /\ l_pc' = "sending"
      BY <1>3 DEF Led!Transmit
    <2> QED
      BY <1>0, <1>3, <2>1, LedSizes DEF Led!EncoderInv, Led!Transmit, Led!Sent
  <1>4. CASE Led!Refresh
    <2>1. Led!PixelsAsAsked'
      BY <1>0, <1>4 DEF Led!Refresh, Led!PixelsAsAsked
    <2>2. Led!EncoderInv'
      BY <1>0, <1>3, <1>4 DEF Led!Refresh, Led!EncoderInv, Led!device
    <2> QED
      BY <1>1, <2>1, <2>2 DEF Led!LedInv
  <1>5. CASE Led!Clear
    <2>1. Led!PixelsAsAsked'
      <3>1. l_pixel_buf' = [b \in Led!Bytes |-> 0] /\ l_asked' = Led!Black
        BY <1>5 DEF Led!Clear
      <3> QED
        BY <3>1, BlackPixels DEF Led!PixelsAsAsked, Led!Range, Range
    <2>2. CASE Led!Transmit
      <3>1. Led!EncoderInv'
        BY <1>0, <1>3, <1>5, <2>2 DEF Led!Clear, Led!EncoderInv, Led!device
      <3> QED
        BY <1>1, <2>1, <3>1 DEF Led!LedInv
    <2>3. CASE ~Led!Transmit
      <3>1. Led!EncoderInv'
        BY <1>0, <1>5, <2>3 DEF Led!Clear, Led!EncoderInv, Led!device
      <3> QED
        BY <1>1, <2>1, <3>1 DEF Led!LedInv
    <2> QED
      BY <2>2, <2>3
  <1> QED
    BY <1>2, <1>4, <1>5

\* What an encode call appends to a stream that is sent up to there, f being the symbols:
\* n more of them, and perhaps one symbol behind them.
Stream(s, f, i, n) == \A k \in 1..n : s[k] = f[i + k - 1]

LEMMA LongerStream ==
  ASSUME NEW S, NEW i \in Nat, NEW n \in Nat, NEW f,
         NEW w \in Seq(S), Len(w) = i, Stream(w, f, 0, i),
         NEW more \in Seq(S), Len(more) \in {n, n + 1}, Stream(more, f, i, n)
  PROVE  /\ w \o more \in Seq(S) /\ Len(w \o more) = i + Len(more)
         /\ Stream(w \o more, f, 0, i + n)
         /\ Len(more) = n + 1 => (w \o more)[i + n + 1] = more[n + 1]
  <1>1. w \o more \in Seq(S) /\ Len(w \o more) = Len(w) + Len(more)
    BY Concat
  <1>2. \A k \in 1..Len(w) : (w \o more)[k] = w[k]
    BY Concat
  <1>3. \A k \in 1..Len(more) : (w \o more)[Len(w) + k] = more[k]
    BY Concat
  <1>4. ASSUME NEW k \in 1..(i + n) PROVE (w \o more)[k] = f[0 + k - 1]
    <2>1. CASE k <= i
      BY <1>2, <1>4, <2>1 DEF Stream
    <2>2. CASE k > i
      <3> DEFINE j == k - i
      <3>1. j \in 1..n /\ j \in 1..Len(more) /\ k = i + j /\ i + j - 1 = k - 1
        BY <1>4, <2>2
      <3> HIDE DEF j
      <3>2. (w \o more)[k] = more[j] /\ more[j] = f[i + j - 1]
        BY <1>3, <3>1 DEF Stream
      <3> QED
        BY <3>1, <3>2
    <2> QED
      BY <1>4, <2>1, <2>2
  <1>5. ASSUME Len(more) = n + 1 PROVE (w \o more)[i + n + 1] = more[n + 1]
    <2>1. n + 1 \in 1..Len(more) /\ i + (n + 1) = i + n + 1
      BY <1>5
    <2> QED
      BY <1>3, <2>1
  <1> QED
    BY <1>1, <1>4, <1>5 DEF Stream

\* The same on the wire: n more symbols of the pixels after the first i, and perhaps one behind.
LEMMA SentMore ==
  ASSUME NEW i \in Nat, l_wire \in Seq(Range(l_wire)), Len(l_wire) = i, Led!Sent(i),
         NEW n \in Nat, NEW more, more \in Seq(Range(more)), Len(more) \in {n, n + 1},
         \A k \in 1..n : more[k] = Led!Symbol(i + k - 1),
         l_wire' = l_wire \o more, UNCHANGED l_pixel_buf
  PROVE  /\ l_wire' \in Seq(Led!Range(l_wire)') /\ Len(l_wire') = i + Len(more)
         /\ \A k \in 1..(i + n) : l_wire'[k] = Led!Symbol(k - 1)'
         /\ Len(more) = n + 1 => l_wire'[i + n + 1] = more[n + 1]
  <1>1. PICK f : f = [k \in Nat |-> Led!Symbol(k)]
    OBVIOUS
  <1>2. \A k \in Nat : f[k] = Led!Symbol(k)
    BY <1>1
  <1>3. PICK w, u : w = l_wire /\ u = l_wire'
    OBVIOUS
  <1>4. ASSUME NEW k \in 1..i PROVE w[k] = f[k - 1]
    <2>1. k - 1 \in Nat
      OBVIOUS
    <2>2. w[k] = Led!Symbol(k - 1)
      BY <1>3 DEF Led!Sent
    <2> QED
      BY <1>2, <2>1, <2>2
  <1>5. ASSUME NEW k \in 1..n PROVE more[k] = f[i + k - 1]
    <2>1. i + k - 1 \in Nat
      OBVIOUS
    <2> QED
      BY <1>2, <2>1
  <1>6. PICK S : S = Range(w) \cup Range(more)
    OBVIOUS
  <1>7. w \in Seq(S) /\ more \in Seq(S) /\ Len(w) = i /\ Len(w) \in Nat
    BY <1>3, <1>6, SeqMonotonic
  <1>8. u = w \o more
    BY <1>3
  <1>9. w \o more \in Seq(S) /\ Len(w \o more) = Len(w) + Len(more)
    BY ONLY <1>7, Concat
  <1>10. /\ Stream(w \o more, f, 0, i + n)
         /\ Len(more) = n + 1 => (w \o more)[i + n + 1] = more[n + 1]
    <2>1. Stream(w, f, 0, i)
      BY <1>4 DEF Stream
    <2>2. Stream(more, f, i, n)
      BY <1>5 DEF Stream
    <2>3. i \in Nat /\ n \in Nat /\ Len(more) \in {n, n + 1}
      OBVIOUS
    <2> QED
      BY ONLY <1>7, <2>1, <2>2, <2>3, LongerStream
  <1>11. u \in Seq(Range(u)) /\ Range(u) = Led!Range(l_wire)'
    <2>1. u \in Seq(Range(u))
      BY <1>8, <1>9, SeqOfRange
    <2> QED
      BY <1>3, <2>1 DEF Range, Led!Range
  <1>12. ASSUME NEW k \in 1..(i + n) PROVE l_wire'[k] = Led!Symbol(k - 1)'
    <2>1. k - 1 \in Nat
      OBVIOUS
    <2>2. l_wire'[k] = Led!Symbol(k - 1)
      <3>1. Stream(u, f, 0, i + n)
        BY <1>8, <1>10
      <3>2. u[k] = f[0 + k - 1]
        BY ONLY <1>12, <3>1 DEF Stream
      <3>3. 0 + k - 1 = k - 1
        OBVIOUS
      <3> QED
        BY <1>2, <1>3, <2>1, <3>2, <3>3
    <2>3. Led!Symbol(k - 1)' = Led!Symbol(k - 1)
      BY DEF Led!Symbol
    <2> QED
      BY <2>2, <2>3
  <1> QED
    BY <1>3, <1>7, <1>8, <1>9, <1>10, <1>11, <1>12

\* The symbols of the pixels that one call writes, without and with the reset code.
PixelBits(i, n) == [k \in 1..n |-> Led!Symbol(i + k - 1)]
LastBits(i, n) == PixelBits(i, n) \o <<Led!Reset>>

LEMMA WrittenBits ==
  ASSUME NEW i \in Nat, NEW n \in Nat
  PROVE  /\ PixelBits(i, n) \in Seq(Range(PixelBits(i, n))) /\ Len(PixelBits(i, n)) = n
         /\ \A k \in 1..n : PixelBits(i, n)[k] = Led!Symbol(i + k - 1)
         /\ LastBits(i, n) \in Seq(Range(LastBits(i, n))) /\ Len(LastBits(i, n)) = n + 1
         /\ \A k \in 1..n : LastBits(i, n)[k] = Led!Symbol(i + k - 1)
         /\ LastBits(i, n)[n + 1] = Led!Reset
  <1>1. PICK bits : bits = PixelBits(i, n)
    OBVIOUS
  <1>2. /\ bits \in Seq(Range(bits)) /\ Len(bits) = n
        /\ \A k \in 1..n : bits[k] = Led!Symbol(i + k - 1)
    <2>1. /\ bits \in [1..n -> Range(bits)]
          /\ \A k \in 1..n : bits[k] = Led!Symbol(i + k - 1)
      BY <1>1 DEF PixelBits, Range
    <2>2. bits \in Seq(Range(bits))
      BY <2>1, SeqDef
    <2>3. Len(bits) = n
      BY <2>1, <2>2, LenProperties
    <2> QED
      BY <2>1, <2>2, <2>3
  <1>3. PICK tail : tail = <<Led!Reset>>
    OBVIOUS
  <1>4. tail \in Seq({Led!Reset}) /\ Len(tail) = 1 /\ tail[1] = Led!Reset /\ 1 \in 1..1
    BY <1>3
  <1>5. PICK S : S = Range(bits) \cup {Led!Reset}
    OBVIOUS
  <1>6. bits \in Seq(S) /\ tail \in Seq(S)
    BY <1>2, <1>4, <1>5, SeqMonotonic
  <1>7. bits \o tail \in Seq(S) /\ Len(bits \o tail) = Len(bits) + Len(tail)
    BY <1>6, Concat
  <1>8. \A k \in 1..Len(bits) : (bits \o tail)[k] = bits[k]
    BY <1>6, Concat
  <1>9. \A k \in 1..Len(tail) : (bits \o tail)[Len(bits) + k] = tail[k]
    BY <1>6, Concat
  <1>10. (bits \o tail)[n + 1] = Led!Reset
    BY <1>2, <1>4, <1>9
  <1>11. /\ bits \o tail \in Seq(Range(bits \o tail)) /\ Len(bits \o tail) = n + 1
         /\ \A k \in 1..n : (bits \o tail)[k] = Led!Symbol(i + k - 1)
    BY <1>2, <1>4, <1>7, <1>8, SeqOfRange
  <1>12. bits \o tail = LastBits(i, n)
    BY <1>1, <1>3 DEF LastBits
  <1> QED
    BY <1>1, <1>2, <1>10, <1>11, <1>12

\* A call of the encoder, with the facts about the wire that its cases need.
LEMMA Sending ==
  ASSUME Led!ConstantsAssumption, Led!LedInv, l_pc = "sending",
         l_mem' = l_mem, l_strip' = l_strip, l_res' = l_res, l_pixel_buf' = l_pixel_buf, l_asked' = l_asked
  PROVE  /\ Led!PixelsAsAsked' /\ Led!NothingLeaks'
         /\ l_strip' = "made" /\ l_mem' \in Nat /\ l_mem \div 2 \in Nat /\ l_room \in Nat
         /\ l_wire \in Seq(Range(l_wire)) /\ Led!DataSymbols \in Nat
         /\ l_state = 0 => /\ l_index \in Nat /\ l_index <= Led!DataSymbols
                           /\ Len(l_wire) = l_index /\ Led!Sent(l_index)
         /\ l_state = 1 => /\ l_index = 0
                           /\ Len(l_wire) = Led!DataSymbols /\ Led!Sent(Led!DataSymbols)
  <1>1. Led!PixelsAsAsked' /\ Led!NothingLeaks'
    BY DEF Led!LedInv, Led!PixelsAsAsked, Led!NothingLeaks, Led!Range
  <1>2. Led!DataSymbols \in Nat
    BY LedSizes
  <1>3. l_mem \in Nat /\ l_mem \div 2 \in Nat /\ l_room \in Nat /\ l_strip = "made"
    <2>1. l_mem \in Nat /\ l_room \in Nat /\ l_strip = "made"
      BY DEF Led!LedInv, Led!EncoderInv
    <2> QED
      BY <2>1
  <1> QED
    BY <1>1, <1>2, <1>3 DEF Led!LedInv, Led!EncoderInv, Led!Range, Range

LEMMA LedEncodeBytes ==
  ASSUME Led!ConstantsAssumption, Led!LedInv, Led!EncodeBytes
  PROVE  Led!LedInv'
  <1>1. /\ l_pc = "sending" /\ l_state = 0
        /\ l_mem' = l_mem /\ l_strip' = l_strip /\ l_res' = l_res
        /\ l_pixel_buf' = l_pixel_buf /\ l_asked' = l_asked
    BY DEF Led!EncodeBytes, Led!device
  <1>2. /\ Led!PixelsAsAsked' /\ Led!NothingLeaks'
        /\ l_strip' = "made" /\ l_mem' \in Nat /\ l_mem \div 2 \in Nat /\ l_room \in Nat
        /\ l_wire \in Seq(Range(l_wire)) /\ Led!DataSymbols \in Nat
        /\ l_index \in Nat /\ l_index <= Led!DataSymbols
        /\ Len(l_wire) = l_index /\ Led!Sent(l_index)
    BY <1>1, Sending
  <1>3. PICK i, want, n :
          /\ i = l_index /\ want = Led!DataSymbols - l_index
          /\ n = IF want < l_room THEN want ELSE l_room
    OBVIOUS
  <1>4. /\ l_index' = IF want <= l_room THEN 0 ELSE l_index + n
        /\ IF want >= l_room
           THEN l_state' = (IF want <= l_room THEN 1 ELSE 0) /\ Led!Return(PixelBits(i, n), FALSE)
           ELSE l_state' = 0 /\ Led!Return(LastBits(i, n), TRUE)
    BY <1>3 DEF Led!EncodeBytes, Led!Written, Led!Complete, Led!MemFull, PixelBits, LastBits
  <1>5. /\ i \in Nat /\ want \in Nat /\ n \in Nat /\ n <= want /\ l_index + n <= Led!DataSymbols
        /\ i + n = l_index + n /\ i + (n + 1) = l_index + n + 1
    BY <1>2, <1>3
  <1>6. l_wire \in Seq(Range(l_wire)) /\ Len(l_wire) = i /\ Led!Sent(i) /\ UNCHANGED l_pixel_buf
    BY <1>1, <1>2, <1>3
  <1>7. Led!DataSymbols' = Led!DataSymbols
    BY DEF Led!DataSymbols
  <1>8. CASE want >= l_room
    <2>1. /\ l_wire' = l_wire \o PixelBits(i, n) /\ l_pc' = "sending" /\ l_room' = l_mem \div 2
          /\ l_state' = IF want <= l_room THEN 1 ELSE 0
      BY <1>1, <1>4, <1>8 DEF Led!Return
    <2>2. /\ l_wire' \in Seq(Led!Range(l_wire)') /\ Len(l_wire') = l_index + n
          /\ \A k \in 1..(l_index + n) : l_wire'[k] = Led!Symbol(k - 1)'
      <3>1. PICK more : more = PixelBits(i, n)
        OBVIOUS
      <3>2. /\ more \in Seq(Range(more)) /\ Len(more) = n /\ Len(more) \in {n, n + 1}
            /\ \A k \in 1..n : more[k] = Led!Symbol(i + k - 1)
        BY <1>5, <3>1, WrittenBits
      <3>3. l_wire' = l_wire \o more
        BY <2>1, <3>1
      <3> HIDE <3>1
      <3>4. l_wire' \in Seq(Led!Range(l_wire)')
        BY <1>5, <1>6, <3>2, <3>3, SentMore
      <3>5. Len(l_wire') = i + Len(more)
        BY <1>5, <1>6, <3>2, <3>3, SentMore
      <3>6. \A k \in 1..(i + n) : l_wire'[k] = Led!Symbol(k - 1)'
        BY <1>5, <1>6, <3>2, <3>3, SentMore
      <3> QED
        BY <1>5, <3>2, <3>4, <3>5, <3>6
    <2>3. CASE want <= l_room
      <3>1. l_index' = 0 /\ l_index + n = Led!DataSymbols /\ l_state' = 1
        BY <1>2, <1>3, <1>4, <1>8, <2>1, <2>3
      <3>2. Led!EncoderInv'
        BY <1>2, <2>1, <2>2, <3>1 DEF Led!EncoderInv, Led!Sent, Led!DataSymbols
      <3> QED
        BY <1>2, <3>2 DEF Led!LedInv
    <2>4. CASE ~(want <= l_room)
      <3>1. l_index' = l_index + n /\ l_state' = 0
        BY <1>4, <2>1, <2>4
      <3>2. Led!Sent(l_index)'
        BY <1>2, <1>5, <2>2, <3>1 DEF Led!Sent
      <3>3. l_index' \in Nat /\ l_index' <= Led!DataSymbols /\ Len(l_wire') = l_index'
        BY <1>2, <1>5, <2>2, <3>1
      <3>4. Led!EncoderInv'
        BY <1>2, <1>7, <2>1, <2>2, <3>1, <3>2, <3>3 DEF Led!EncoderInv
      <3> QED
        BY <1>2, <3>4 DEF Led!LedInv
    <2> QED
      BY <2>3, <2>4
  <1>9. CASE ~(want >= l_room)
    <2>1. /\ l_wire' = l_wire \o LastBits(i, n) /\ l_pc' = "sent" /\ l_room' = l_room
          /\ l_state' = 0 /\ l_index' = 0 /\ l_index + n = Led!DataSymbols
      <3>1. l_state' = 0 /\ Led!Return(LastBits(i, n), TRUE)
        BY <1>4, <1>9
      <3>2. l_wire' = l_wire \o LastBits(i, n) /\ l_pc' = "sent" /\ l_room' = l_room
        BY <3>1 DEF Led!Return
      <3>3. l_index' = 0 /\ l_index + n = Led!DataSymbols
        BY <1>2, <1>3, <1>4, <1>5, <1>9
      <3> QED
        BY <3>1, <3>2, <3>3
    <2>2. /\ l_wire' \in Seq(Led!Range(l_wire)') /\ Len(l_wire') = l_index + n + 1
          /\ \A k \in 1..(l_index + n) : l_wire'[k] = Led!Symbol(k - 1)'
          /\ l_wire'[l_index + n + 1] = Led!Reset
      <3>1. PICK more : more = LastBits(i, n)
        OBVIOUS
      <3>2. /\ more \in Seq(Range(more)) /\ Len(more) = n + 1 /\ Len(more) \in {n, n + 1}
            /\ \A k \in 1..n : more[k] = Led!Symbol(i + k - 1)
            /\ more[n + 1] = Led!Reset
        BY <1>5, <3>1, WrittenBits
      <3>3. l_wire' = l_wire \o more
        BY <2>1, <3>1
      <3> HIDE <3>1
      <3>4. l_wire' \in Seq(Led!Range(l_wire)')
        BY <1>5, <1>6, <3>2, <3>3, SentMore
      <3>5. Len(l_wire') = i + Len(more)
        BY <1>5, <1>6, <3>2, <3>3, SentMore
      <3>6. \A k \in 1..(i + n) : l_wire'[k] = Led!Symbol(k - 1)'
        BY <1>5, <1>6, <3>2, <3>3, SentMore
      <3>7. l_wire'[i + n + 1] = more[n + 1]
        BY <1>5, <1>6, <3>2, <3>3, SentMore
      <3> QED
        BY <1>3, <1>5, <3>2, <3>4, <3>5, <3>6, <3>7
    <2>3. /\ Len(l_wire') = Led!DataSymbols + 1 /\ l_wire'[Len(l_wire')] = Led!Reset
          /\ \A k \in 1..Led!DataSymbols : l_wire'[k] = Led!Symbol(k - 1)'
      BY <2>1, <2>2
    <2>4. Led!Sent(Led!DataSymbols)'
      BY <1>2, <1>7, <2>3 DEF Led!Sent
    <2>5. Led!Reset' = Led!Reset
      BY DEF Led!Reset
    <2>6. Led!EncoderInv'
      BY <1>2, <1>7, <2>1, <2>2, <2>3, <2>4, <2>5 DEF Led!EncoderInv
    <2> QED
      BY <1>2, <2>6 DEF Led!LedInv
  <1> QED
    BY <1>8, <1>9

LEMMA LedEncodeReset ==
  ASSUME Led!ConstantsAssumption, Led!LedInv, Led!EncodeReset
  PROVE  Led!LedInv'
  <1>1. /\ l_pc = "sending" /\ l_state = 1 /\ l_index' = l_index
        /\ l_mem' = l_mem /\ l_strip' = l_strip /\ l_res' = l_res
        /\ l_pixel_buf' = l_pixel_buf /\ l_asked' = l_asked
    BY DEF Led!EncodeReset, Led!device
  <1>2. /\ Led!PixelsAsAsked' /\ Led!NothingLeaks'
        /\ l_strip' = "made" /\ l_mem' \in Nat /\ l_mem \div 2 \in Nat /\ l_room \in Nat
        /\ l_wire \in Seq(Range(l_wire)) /\ Led!DataSymbols \in Nat
        /\ l_index = 0 /\ Len(l_wire) = Led!DataSymbols /\ Led!Sent(Led!DataSymbols)
    BY <1>1, Sending
  <1>3. CASE Led!Complete(1, l_room)
    <2>1. PICK more : more = <<Led!Reset>>
      OBVIOUS
    <2>2. l_state' = 0 /\ l_wire' = l_wire \o more /\ l_pc' = "sent" /\ l_room' = l_room
      BY <1>3, <2>1 DEF Led!EncodeReset, Led!Return
    <2>3. more \in Seq(Range(more)) /\ Len(more) = 0 + 1 /\ more[0 + 1] = Led!Reset
      <3>1. more \in Seq({Led!Reset}) /\ Len(more) = 1 /\ more[1] = Led!Reset
        BY <2>1
      <3> QED
        BY <3>1, SeqOfRange
    <2>4. \A k \in 1..0 : more[k] = Led!Symbol(Led!DataSymbols + k - 1)
      OBVIOUS
    <2>5. PICK i : i = Led!DataSymbols
      OBVIOUS
    <2>6. /\ l_wire' \in Seq(Led!Range(l_wire)') /\ Len(l_wire') = Led!DataSymbols + 1
          /\ \A k \in 1..Led!DataSymbols : l_wire'[k] = Led!Symbol(k - 1)'
          /\ l_wire'[Led!DataSymbols + 1] = Led!Reset
      <3>1. /\ i \in Nat /\ l_wire \in Seq(Range(l_wire)) /\ Len(l_wire) = i /\ Led!Sent(i)
            /\ l_wire' = l_wire \o more /\ UNCHANGED l_pixel_buf /\ 0 \in Nat
            /\ Len(more) \in {0, 0 + 1} /\ \A k \in 1..0 : more[k] = Led!Symbol(i + k - 1)
        BY <1>1, <1>2, <2>2, <2>3, <2>5
      <3>2. l_wire' \in Seq(Led!Range(l_wire)')
        BY <2>3, <3>1, SentMore
      <3>3. Len(l_wire') = i + Len(more)
        BY <2>3, <3>1, SentMore
      <3>4. \A k \in 1..(i + 0) : l_wire'[k] = Led!Symbol(k - 1)'
        BY <2>3, <3>1, SentMore
      <3>5. l_wire'[i + 0 + 1] = Led!Reset
        BY <2>3, <3>1, SentMore
      <3>6. i + 0 = i
        BY <3>1
      <3> QED
        BY <2>3, <2>5, <3>2, <3>3, <3>4, <3>5, <3>6
    <2>7. Led!EncoderInv'
      BY <1>1, <1>2, <2>2, <2>6 DEF Led!EncoderInv, Led!Sent, Led!DataSymbols
    <2> QED
      BY <1>2, <2>7 DEF Led!LedInv
  <1>4. CASE ~Led!Complete(1, l_room)
    <2>1. l_state' = 1 /\ l_wire' = l_wire \o <<>> /\ l_pc' = "sending" /\ l_room' = l_mem \div 2
      BY <1>1, <1>4 DEF Led!EncodeReset, Led!Return
    <2>2. l_wire' = l_wire
      BY <1>2, <2>1, ConcatEmptySeq
    <2>3. Led!EncoderInv'
      BY <1>1, <1>2, <2>1, <2>2
         DEF Led!EncoderInv, Led!Sent, Led!Symbol, Led!DataSymbols, Led!Range, Range
    <2> QED
      BY <1>2, <2>3 DEF Led!LedInv
  <1> QED
    BY <1>3, <1>4

\* However long the strip is and however the RMT memory cuts the stream into pieces: a
\* refresh sends the colours that were set, every bit of them once and in order, and one
\* reset code behind them; creation and deletion give back everything they took.
THEOREM StreamIsWhole == Led!Spec => []Led!LedInv
  <1>1. ASSUME Led!Init PROVE Led!LedInv
    BY <1>1, LedConstants, InitLed
  <1>2. ASSUME Led!LedInv, [Led!Next]_(Led!vars) PROVE Led!LedInv'
    <2>1. CASE UNCHANGED Led!vars
      BY <1>2, <2>1
         DEF Led!vars, Led!device, Led!encoder, Led!LedInv, Led!PixelsAsAsked, Led!EncoderInv,
                        Led!NothingLeaks, Led!Sent, Led!Symbol, Led!Range
    <2>2. CASE Led!New \/ Led!NewFails \/ Led!Del
      BY <1>2, <2>2, LedConstants, LedDevice
    <2>3. CASE (\E i \in 0..Leds, r, g, b \in Colours : Led!SetPixel(i, r, g, b)) \/ Led!Refresh \/ Led!Clear
      BY <1>2, <2>3, LedConstants, LedPixels
    <2>4. CASE Led!EncodeBytes
      BY <1>2, <2>4, LedConstants, LedEncodeBytes
    <2>5. CASE Led!EncodeReset
      BY <1>2, <2>5, LedConstants, LedEncodeReset
    <2> QED
      BY <1>2, <2>1, <2>2, <2>3, <2>4, <2>5 DEF Led!Next
  <1> QED
    BY <1>1, <1>2, PTL DEF Led!Spec, Led!vars
=============================================================================
