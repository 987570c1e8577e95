------------------------------ MODULE BleServer ------------------------------
(***************************************************************************)
(* The Bluetooth LE server (src/components/Bluetooth): Bluetooth.cpp and   *)
(* the three services that it dispatches to: the application's serial      *)
(* port, the device information and the battery.                           *)
(*                                                                         *)
(* Three tasks run this code.  The main task registers the applications    *)
(* (BLE::begin).  The Bluetooth stack's task calls gatts_event_handler and *)
(* gap_event_handler with one event after the other.  The console's task   *)
(* sends data and sets the battery level, reading without a lock what the  *)
(* stack's task writes.  The stack itself and the clients are external:    *)
(* what they do is what the code lets them do.                             *)
(*                                                                         *)
(* An interface and the handles of a service are named after the           *)
(* application they were made for.                                         *)
(***************************************************************************)
EXTENDS Naturals, Sequences, FiniteSets

CONSTANTS ConnIds,      \* the numbers that the controller gives to connections
          Values,       \* the values that clients write to a descriptor
          Levels,       \* the battery levels that are typed
          MaxConnects,  \* bound: connections in a behaviour
          MaxWrites,    \* bound: writes of clients to a descriptor
          MaxCommands   \* bound: commands typed

Services == {"app", "dis", "batt"}
Subscribable == {"app", "batt"}
Size == [app |-> 4, dis |-> 11, batt |-> 4]   \* APP_IDX_NB, DIS_IDX_NB, BATT_IDX_NB

ASSUME ConstantsAssumption ==
  /\ IsFiniteSet(ConnIds) /\ ConnIds # {}
  /\ Values \subseteq {"NONE", "NOTIFY", "INDICATE", "odd"}
  /\ Levels \subseteq Nat
  /\ {MaxConnects, MaxWrites, MaxCommands} \subseteq Nat

VARIABLES
  beginPc,      \* where BLE::begin is
  events,       \* the events the stack has for its task
  iface,        \* service_profile_tab[].gatts_if
  handles,      \* *_handle_table
  notify,       \* notify_svc_app_spp and notify_battery
  conn_id,      \* service_profile_tab[].conn_id
  level,        \* batt_level
  commands,     \* the console's commands
  con,          \* the command that the console's task runs
  \* the stack and the clients
  granted,      \* the applications that have an interface
  tables,       \* the attribute tables
  started,      \* the services that were started
  refused,      \* the services whose start failed
  advConfig,    \* the advertising data and the scan response
  advertising,
  advStart,     \* how the last start of advertising ended since clients came or went
  attr,         \* the battery's attribute value
  connected,    \* the connections there are
  connects, writes, typed,
  asked,        \* the subscriptions <<connection, service>> of connected clients
  known,        \* the level that a client knows since it subscribed, or Unread
  \* history
  crowded,      \* the clients that have shared the server with another one
  told,         \* the connection that the last command for the battery goes to
  wish,         \* the last plain subscription of the client connected last
  missed        \* the last update of the level found no attribute to write

serverVars == <<iface, handles, notify, conn_id>>
tableVars  == <<granted, tables, started, refused>>
stackVars  == <<tableVars, advConfig>>
advVars    == <<advertising, advStart>>
clientVars == <<connected, connects, writes, wish, asked, crowded>>
consoleVars == <<level, con, typed, attr, missed, known, told>>
vars == <<beginPc, events, serverVars, commands, stackVars, advVars, clientVars,
          consoleVars>>

Unread == 255  \* no level
Idle == [pc |-> "idle", svc |-> "app", handle |-> "zero", conn |-> 0, level |-> 0]

Init ==
  /\ beginPc = "app" /\ events = <<>> /\ commands = {}
  /\ iface = [s \in Services |-> "none"]
  /\ handles = [s \in Services |-> "zero"]
  /\ notify = [s \in Subscribable |-> "NONE"]
  /\ conn_id = [s \in Subscribable |-> 0]
  /\ level = 0 /\ con = Idle /\ typed = 0 /\ attr = 0 /\ missed = FALSE
  /\ told = 0 /\ crowded = {} /\ refused = {} /\ advStart = "none"
  /\ granted = {} /\ tables = [s \in Services |-> "none"] /\ started = {}
  /\ advConfig = [d \in {"adv", "rsp"} |-> "none"] /\ advertising = FALSE
  /\ connected = {} /\ connects = 0 /\ writes = 0
  /\ wish = [s \in Subscribable |-> "unset"]
  /\ asked = {} /\ known = [k \in ConnIds |-> Unread]

-----------------------------------------------------------------------------
(* BLE::begin, on the main task.                                           *)

\* The three calls of esp_ble_gatts_app_register, in this order; each of them,
\* and before the first one the stack, can fail.  The stack answers with an
\* event, also if it has no interface for the application.
BeginRegister(a) ==
  /\ beginPc = a
  /\ \/ beginPc' = "stopped" /\ UNCHANGED <<events, granted>>
     \/ /\ beginPc' = CASE a = "app" -> "dis" [] a = "dis" -> "batt" [] a = "batt" -> "command"
        /\ \E i \in {a, "invalid"} :
             /\ events' = Append(events, [type |-> "reg", app |-> a, if |-> i])
             /\ granted' = granted \cup ({i} \ {"invalid"})
  /\ UNCHANGED <<serverVars, commands, tables, started, refused, advConfig, advVars, clientVars,
                 consoleVars>>

BeginCommand ==
  /\ beginPc = "command"
  /\ beginPc' = "done" /\ commands' = commands \cup {"bt"}
  /\ UNCHANGED <<events, serverVars, stackVars, advVars, clientVars, consoleVars>>

-----------------------------------------------------------------------------
(* The stack's task: gatts_event_handler and gap_event_handler.            *)

Event(type) == events # <<>> /\ Head(events).type = type
Taken == Head(events)

\* The services whose gatts_cb is called with e.
Recipients(table, e) == {s \in Services : e.if \in {"none", table[s]}}

\* Mutant: two of the cases are swapped.
IndexOfSwapped(app) == CASE app = "dis" -> "batt" [] app = "batt" -> "dis" [] OTHER -> app

\* The switch on app_id in register_gatts_intf.
IndexOf(app) == app

\* ESP_GATTS_REG_EVT: register_gatts_intf, then the handler of the service.  The calls
\* that set the advertising data, its scan response or the attribute table can fail;
\* that is only logged.
OnRegister ==
  /\ Event("reg")
  /\ events' = Tail(events)
  /\ iface' = IF Taken.if = "invalid" THEN iface
              ELSE [iface EXCEPT ![IndexOf(Taken.app)] = Taken.if]
  /\ LET to == Recipients(iface', Taken)
     IN  /\ IF "app" \in to THEN advConfig' \in [{"adv", "rsp"} -> {"asked", "failed"}]
            ELSE UNCHANGED advConfig
         /\ commands' = IF "batt" \in to THEN commands \cup {"battery"} ELSE commands
         /\ IF to = {} THEN UNCHANGED tables
            ELSE \E r \in {"asked", "failed"} : tables' = [tables EXCEPT ![Taken.if] = r]
  /\ UNCHANGED <<beginPc, handles, notify, conn_id, granted, started, refused, advVars, clientVars,
                 consoleVars>>

\* ESP_GATTS_CREAT_ATTR_TAB_EVT.  An event of a failure has no handles.  The start of
\* the service can fail, which is only logged, or not looked at.
OnTable ==
  /\ Event("tab")
  /\ events' = Tail(events)
  /\ LET to == {s \in Recipients(iface, Taken) : Taken.num = Size[s]}
     IN  /\ handles' = [s \in Services |-> IF s \in to THEN Taken.if ELSE handles[s]]
         /\ \/ to = {} /\ UNCHANGED <<started, refused>>
            \/ to # {} /\ started' = started \cup {Taken.if} /\ UNCHANGED refused
            \/ to # {} /\ refused' = refused \cup {Taken.if} /\ UNCHANGED started
  /\ UNCHANGED <<beginPc, iface, notify, conn_id, commands, granted, tables, advConfig, advVars,
                 clientVars, consoleVars>>

\* esp_ble_gap_start_advertising, with the event that tells how it ended: a failure is
\* logged, and nothing is tried again.
StartAdvertising ==
  \/ advertising' = TRUE /\ advStart' = "ok"
  \/ UNCHANGED advertising /\ advStart' = "failed"

\* The advertising data or the scan response is set.  adv_config_complete is
\* never set, so both events find it 0.
OnAdvConfig ==
  /\ Event("gap")
  /\ events' = Tail(events) /\ StartAdvertising
  /\ UNCHANGED <<beginPc, serverVars, commands, stackVars, clientVars, consoleVars>>

\* ESP_GATTS_CONNECT_EVT: only the battery service stores the connection.
OnConnect ==
  /\ Event("connect")
  /\ events' = Tail(events)
  /\ conn_id' = [conn_id EXCEPT !["batt"] =
                  IF "batt" \in Recipients(iface, Taken) THEN Taken.conn ELSE @]
  /\ UNCHANGED <<beginPc, iface, handles, notify, commands, stackVars, advVars, clientVars,
                 consoleVars>>

\* Mutant: advertising is left to the controller.
OnDisconnectSilent ==
  /\ Event("disconnect")
  /\ events' = Tail(events)
  /\ UNCHANGED <<beginPc, serverVars, commands, stackVars, advVars, clientVars, consoleVars>>

\* ESP_GATTS_DISCONNECT_EVT: only the application's service starts advertising.
OnDisconnect ==
  /\ Event("disconnect")
  /\ events' = Tail(events)
  /\ IF "app" \in Recipients(iface, Taken) THEN StartAdvertising ELSE UNCHANGED advVars
  /\ UNCHANGED <<beginPc, serverVars, commands, stackVars, clientVars, consoleVars>>

\* Mutant: 0x0000 is taken for an unknown value.
SubscriptionKept(value, old) == IF value \in {"NOTIFY", "INDICATE"} THEN value ELSE old

\* update_notify_value, and the same switch in the battery service: an unknown
\* value or another length changes nothing.
Subscription(value, old) == IF value \in {"NONE", "NOTIFY", "INDICATE"} THEN value ELSE old

\* ESP_GATTS_WRITE_EVT to a configuration descriptor.  The battery service
\* passes over prepared writes, the application's service does not.
OnWrite ==
  /\ Event("write")
  /\ events' = Tail(events)
  /\ notify' = [s \in Subscribable |->
       IF s \in Recipients(iface, Taken) /\ Taken.handle = handles[s]
            /\ (s = "batt" => ~Taken.prep)
         THEN Subscription(Taken.value, notify[s]) ELSE notify[s]]
  /\ UNCHANGED <<beginPc, iface, handles, conn_id, commands, stackVars, advVars,
                 clientVars, consoleVars>>

-----------------------------------------------------------------------------
(* The console's task: cmd_bluetooth and app_svc_send_data, cmd_batt and   *)
(* batt_set_battery_level.                                                 *)

Step(pc) == con' = [con EXCEPT !.pc = pc]

\* The connection that is told the level that is set.
Tells(svc) == told' = IF svc = "batt" THEN conn_id[svc] ELSE told

\* Mutant: whether there is a subscription is looked up with the connection.
TypeLooksFirst(svc, n) ==
  /\ con.pc = "idle" /\ typed < MaxCommands
  /\ typed' = typed + 1
  /\ con' = [svc |-> svc, level |-> n, handle |-> handles[svc],
             conn |-> IF notify[svc] = "NONE" THEN 65535 ELSE conn_id[svc],
             pc |-> IF svc = "batt" THEN "level" ELSE "notify"]
  /\ Tells(svc)
  /\ UNCHANGED <<beginPc, events, serverVars, commands, stackVars, advVars, clientVars,
                 level, attr, missed, known>>

\* A command starts with local copies of the connection and the handle.
Type(svc, n) ==
  /\ con.pc = "idle" /\ typed < MaxCommands
  /\ typed' = typed + 1
  /\ con' = [svc |-> svc, level |-> n, handle |-> handles[svc], conn |-> conn_id[svc],
             pc |-> IF svc = "batt" THEN "level" ELSE "notify"]
  /\ Tells(svc)
  /\ UNCHANGED <<beginPc, events, serverVars, commands, stackVars, advVars, clientVars,
                 level, attr, missed, known>>

TypeSend == "bt" \in commands /\ Type("app", 0)

\* Both cmd_batt and batt_set_battery_level test the level.
TypeBattery == "battery" \in commands /\ \E n \in Levels \cap (0..100) : Type("batt", n)

SetLevel ==
  /\ con.pc = "level"
  /\ level' = con.level /\ Step("attr")
  /\ UNCHANGED <<beginPc, events, serverVars, commands, stackVars, advVars, clientVars,
                 typed, attr, missed, known, told>>

\* esp_ble_gatts_set_attr_value; there is no attribute with handle 0.
SetAttr ==
  /\ con.pc = "attr"
  /\ attr' = IF con.handle = "batt" THEN con.level ELSE attr
  /\ missed' = (con.handle # "batt")
  /\ Step("notify")
  /\ UNCHANGED <<beginPc, events, serverVars, commands, stackVars, advVars, clientVars,
                 level, typed, known, told>>

\* esp_ble_gatts_send_indicate, if somebody subscribed; nothing is sent to a
\* connection that is no more, or for handle 0.
Sends(svc) == con.pc = "notify" /\ con.svc = svc /\ con.handle = svc /\ notify[svc] # "NONE"

Notify ==
  /\ con.pc = "notify"
  /\ con' = Idle
  /\ known' = [k \in ConnIds |->
       IF Sends("batt") /\ con.conn = k /\ known[k] # Unread THEN con.level ELSE known[k]]
  /\ UNCHANGED <<beginPc, events, serverVars, commands, stackVars, advVars, clientVars,
                 level, typed, attr, missed, told>>

-----------------------------------------------------------------------------
(* External: the stack and the clients.                                    *)

\* An attribute table is made, or not; the value of the battery's attribute is
\* copied from batt_level.
StackMakesTable(a) ==
  /\ tables[a] = "asked"
  /\ \/ /\ tables' = [tables EXCEPT ![a] = "made"]
        /\ attr' = IF a = "batt" THEN level ELSE attr
        /\ events' = Append(events, [type |-> "tab", if |-> a, num |-> Size[a]])
     \/ /\ tables' = [tables EXCEPT ![a] = "failed"] /\ UNCHANGED attr
        /\ events' = Append(events, [type |-> "tab", if |-> a, num |-> 0])
  /\ UNCHANGED <<beginPc, serverVars, commands, granted, started, refused, advConfig, advVars,
                 clientVars, level, con, typed, missed, known, told>>

\* The scan response is set after the advertising data, if that was accepted.
StackSetsAdvConfig(d) ==
  /\ advConfig[d] = "asked" /\ (d = "rsp" => advConfig["adv"] # "asked")
  /\ advConfig' = [advConfig EXCEPT ![d] = "set"]
  /\ events' = Append(events, [type |-> "gap"])
  /\ UNCHANGED <<beginPc, serverVars, commands, tableVars, advVars, clientVars, consoleVars>>

\* The controller stops advertising when a client connects, and takes the lowest
\* number that is free.  (Of the services only the battery's stores something.)
Connect(k) ==
  /\ advertising /\ k \notin connected /\ connects < MaxConnects
  /\ \A free \in ConnIds \ connected : k <= free
  /\ advertising' = FALSE /\ advStart' = "none"
  /\ connected' = connected \cup {k} /\ connects' = connects + 1
  /\ crowded' = IF connected # {} THEN connected' ELSE crowded
  /\ wish' = [s \in Subscribable |-> "unset"]
  /\ events' = IF "batt" \in granted
               THEN Append(events, [type |-> "connect", if |-> "batt", conn |-> k]) ELSE events
  /\ UNCHANGED <<beginPc, serverVars, commands, stackVars, writes, asked, consoleVars>>

\* (Of the services only the application's acts on the event.)
Disconnect(k) ==
  /\ k \in connected
  /\ connected' = connected \ {k} /\ asked' = asked \ ({k} \X Subscribable)
  /\ advStart' = "none" /\ crowded' = crowded \ {k}
  /\ known' = [known EXCEPT ![k] = Unread]
  /\ events' = IF "app" \in granted THEN Append(events, [type |-> "disconnect", if |-> "app"])
               ELSE events
  /\ UNCHANGED <<beginPc, serverVars, commands, stackVars, advertising, connects, writes,
                 wish, level, con, typed, attr, missed, told>>

Write(k) ==
  /\ k \in connected /\ writes < MaxWrites
  /\ \E s \in Subscribable \cap started, prep \in BOOLEAN,
        v \in Values :
       /\ events' = Append(events, [type |-> "write", if |-> s, handle |-> s,
                                    value |-> v, prep |-> prep])
       /\ wish' = [wish EXCEPT ![s] = IF prep THEN "unset" ELSE IF v = "odd" THEN @ ELSE v]
       /\ asked' = IF v = "odd" \/ (s = "batt" /\ prep) THEN asked
                   ELSE IF v = "NONE" THEN asked \ {<<k, s>>} ELSE asked \cup {<<k, s>>}
  /\ known' = [known EXCEPT ![k] = IF <<k, "batt">> \in asked' THEN @ ELSE Unread]
  /\ writes' = writes + 1
  /\ UNCHANGED <<beginPc, serverVars, commands, stackVars, advVars, connected, connects, crowded,
                 level, con, typed, attr, missed, told>>

\* A client whose subscription to the battery was confirmed reads the level.
WritesPending == \E n \in DOMAIN events : events[n].type = "write"
Read(k) ==
  /\ <<k, "batt">> \in asked /\ ~WritesPending
  /\ known' = [known EXCEPT ![k] = attr]
  /\ UNCHANGED <<beginPc, events, serverVars, commands, stackVars, advVars, clientVars,
                 level, con, typed, attr, missed, told>>

-----------------------------------------------------------------------------
Begin == (\E a \in Services : BeginRegister(a)) \/ BeginCommand
OnEvent == OnRegister \/ OnTable \/ OnAdvConfig \/ OnConnect \/ OnDisconnect \/ OnWrite
Command == SetLevel \/ SetAttr \/ Notify
Stack == \/ \E a \in Services : StackMakesTable(a)
         \/ \E d \in {"adv", "rsp"} : StackSetsAdvConfig(d)
Client == \E k \in ConnIds : Connect(k) \/ Disconnect(k) \/ Write(k) \/ Read(k)

Next == Begin \/ OnEvent \/ TypeSend \/ TypeBattery \/ Command \/ Stack \/ Client

\* The stack answers and hands its events over.  Nothing is asked of the
\* clients or of who types commands.
Fairness == WF_vars(OnEvent) /\ WF_vars(Stack)

Spec == Init /\ [][Next]_vars /\ Fairness

-----------------------------------------------------------------------------
(* Properties.                                                             *)

\* Every variable keeps its type.
Events ==
  [type : {"reg"}, app : Services, if : Services \cup {"invalid"}]
  \cup [type : {"tab"}, if : Services, num : Nat]
  \cup [type : {"gap"}]
  \cup [type : {"connect"}, if : {"batt"}, conn : ConnIds]
  \cup [type : {"disconnect"}, if : {"app"}]
  \cup [type : {"write"}, if : Subscribable, handle : Subscribable, value : Values, prep : BOOLEAN]
Commands == [pc : {"idle", "level", "attr", "notify"}, svc : Subscribable,
             handle : Services \cup {"zero"}, conn : ConnIds \cup {0}, level : 0..100]
TypeOK ==
  /\ beginPc \in Services \cup {"command", "done", "stopped"}
  /\ events \in Seq(Events)
  /\ iface \in [Services -> Services \cup {"none"}]
  /\ handles \in [Services -> Services \cup {"zero"}]
  /\ notify \in [Subscribable -> {"NONE", "NOTIFY", "INDICATE"}]
  /\ level \in 0..100 /\ attr \in 0..100 /\ commands \subseteq {"bt", "battery"}
  /\ con \in Commands /\ missed \in BOOLEAN
  /\ conn_id \in [Subscribable -> ConnIds \cup {0}]
  /\ tables \in [Services -> {"none", "asked", "made", "failed"}]
  /\ asked \subseteq connected \X Subscribable
  /\ known \in [ConnIds -> (0..100) \cup {Unread}]
  /\ started \subseteq Services /\ refused \subseteq Services /\ connected \subseteq ConnIds
  /\ crowded \subseteq connected /\ told \in ConnIds \cup {0}
  /\ wish \in [Subscribable -> Values \cup {"unset"}]

\* What the client connected last asked for is in force once its writes were
\* handled, in the service that it wrote to, whatever clients before it asked.
\* (With two clients at a time the services have one subscription for both.)
SubscriptionInForce ==
  ~WritesPending =>
    \A s \in Subscribable : connected # {} /\ wish[s] # "unset" => notify[s] = wish[s]

\* A client that reads gets the level that the console prints, except while it
\* is being set and after a level that was set before the attribute was known;
\* and a client that subscribed and then read knows it from then on, whenever
\* the console's task tests notify_battery between the client's two steps.
\* This is so for a client that has the server for itself all the time (clients
\* that share it share one subscription and one conn_id), once a level is set by a
\* command that found its connection in conn_id: a command that began before holds
\* another connection, and the client is not told of that level (told # k).
LevelIsServed ==
  ~missed =>
    /\ con.pc # "attr" => attr = level
    /\ con.pc = "idle" => \A k \in ConnIds \ crowded :
                            known[k] # Unread => known[k] = level \/ told # k

\* Why the subscriptions hold, as an inductive invariant.  An application has its own
\* interface or none, its service its own handles or none, and a client writes only to
\* a service that was started, when its handler has both.
OwnNames ==
  /\ \A s \in Services : iface[s] \in {s, "none"} /\ handles[s] \in {s, "zero"}
  /\ \A s \in started : iface[s] = s /\ handles[s] = s
  /\ \A n \in DOMAIN events :
       /\ events[n].type = "reg" => events[n].if \in {events[n].app, "invalid"}
       /\ events[n].type = "write" => events[n].handle = events[n].if /\ events[n].if \in started

\* A write that changes the subscription of s when it is handled, those in the queue,
\* and what the subscription is once all are handled.
Changes(e, s) == /\ e.type = "write" /\ e.if = s /\ e.value # "odd"
                 /\ s = "batt" => ~e.prep
Pending(s) == {n \in DOMAIN events : Changes(events[n], s)}
WillBe(s, v) ==
  \/ Pending(s) = {} /\ notify[s] = v
  \/ \E n \in Pending(s) : events[n].value = v /\ \A m \in Pending(s) : m <= n

SubscriptionInv ==
  /\ TypeOK /\ OwnNames
  /\ \A s \in Subscribable : wish[s] # "unset" => WillBe(s, wish[s])

\* Why a client with the server for itself knows the level: its subscription stays until
\* it takes it back, and a command for its connection ends with a notification that
\* reaches it.
LevelInv ==
  /\ SubscriptionInv
  /\ \A j, k \in connected : j # k => {j, k} \subseteq crowded
  /\ con.pc \in {"level", "attr"} => con.svc = "batt"
  /\ con.pc # "idle" /\ con.svc = "batt" => con.conn = told
  /\ con.pc = "attr" => level = con.level
  /\ con.pc = "notify" /\ con.svc = "batt" /\ ~missed => level = con.level /\ con.handle = "batt"
  /\ con.pc # "attr" /\ ~missed => attr = level
  /\ \A k \in ConnIds \ crowded :
       <<k, "batt">> \in asked => \E v \in {"NOTIFY", "INDICATE"} : WillBe("batt", v)
  /\ \A k \in ConnIds : known[k] # Unread => <<k, "batt">> \in asked
  /\ \A k \in ConnIds \ crowded : known[k] # Unread =>
       /\ notify["batt"] # "NONE"
       /\ \A n \in Pending("batt") : events[n].value # "NONE"
       /\ \/ missed \/ known[k] = level \/ told # k
          \/ con.svc = "batt" /\ con.pc \in {"level", "attr", "notify"}

\* A service whose attributes exist is started, or its start failed; whatever becomes of
\* the other services.
ServicesStart == \A s \in Services : tables[s] = "made" ~> s \in started \cup refused

\* When one of the data sets is known and the last client is gone, the server can be
\* found again, or a start of advertising failed since then (nobody tries again).
FoundAgain ==
  ((\E d \in {"adv", "rsp"} : advConfig[d] = "set") /\ connected = {})
    ~> (advertising \/ connected # {} \/ advStart = "failed")

\* bt_svc_app.cpp:311, on a connection: "connected, stop advertising".
NotAdvertisedWhileConnected == connected # {} => ~advertising
=============================================================================
