---------------------------- MODULE MCApplication ---------------------------
(***************************************************************************)
(* One run for three components of the application that do not share       *)
(* anything but the console, each explored by itself: the Bluetooth server *)
(* (on the variables of BleServer), the driver of the LED strip (variables *)
(* that begin with l_) and the pilot light with the console (p_).          *)
(*                                                                         *)
(* Four uses of the server have bounds of their own: clients that only     *)
(* come and go while it is set up ("ble", with the bounds of the           *)
(* configuration); one client that reads the battery while levels are      *)
(* typed ("battery"); clients that change their subscriptions              *)
(* ("subscriptions"); and clients that share the server and come back with *)
(* other connections while a level is typed ("shared").  The second and    *)
(* the third begin when the battery's service is the one that is left to   *)
(* register, the fourth when all are set up.                               *)
(***************************************************************************)
EXTENDS BleServer

CONSTANTS Leds, Bits, Colours, Memories, Hz, Word, Times, OnTime, OffTime

VARIABLES part,  \* the component that runs
          l_strip, l_res, l_mem, l_pixel_buf, l_pc, l_state, l_index, l_room, l_wire, l_asked,
          p_registered, p_neopixel, p_lightPc, p_waits, p_on_time, p_off_time, p_slept,
          p_consolePc, p_args, p_commands, p_last

ledVars == <<l_strip, l_res, l_mem, l_pixel_buf, l_pc, l_state, l_index, l_room, l_wire, l_asked>>
pilotVars == <<p_registered, p_neopixel, p_lightPc, p_waits, p_on_time, p_off_time, p_slept,
               p_consolePc, p_args, p_commands, p_last>>

Battery == INSTANCE BleServer WITH
  Values <- {"INDICATE"}, Levels <- {1, 101}, MaxConnects <- 1, MaxWrites <- 1, MaxCommands <- 2

Subscribers == INSTANCE BleServer WITH
  Values <- {"NONE", "NOTIFY", "odd"}, Levels <- {},
  MaxConnects <- 2, MaxWrites <- 2, MaxCommands <- 0

Shared == INSTANCE BleServer WITH
  Values <- {"NOTIFY"}, Levels <- {1}, MaxConnects <- 3, MaxWrites <- 1, MaxCommands <- 1

Led == INSTANCE LedStrip WITH
  Values <- Colours,
  strip <- l_strip, res <- l_res, mem <- l_mem, pixel_buf <- l_pixel_buf, pc <- l_pc,
  state <- l_state, index <- l_index, room <- l_room, wire <- l_wire, asked <- l_asked

Pilot == INSTANCE PilotLight WITH
  Neopixel <- BOOLEAN, MaxCommands <- 2,
  registered <- p_registered, neopixel <- p_neopixel, lightPc <- p_lightPc, waits <- p_waits,
  on_time <- p_on_time, off_time <- p_off_time, slept <- p_slept, consolePc <- p_consolePc,
  args <- p_args, commands <- p_commands, last <- p_last

ASSUME LedConstants == Led!ConstantsAssumption
ASSUME PilotConstants == Pilot!PeriodIsWhole

\* The services of done, in the order of BLE::begin, are set up, and the server is found;
\* if it is all of them, the second of the two events that start advertising is to come.
SetUp(done) ==
  LET set(yes, no) == [s \in Services |-> IF s \in done THEN yes ELSE no]
      own(no) == [s \in Services |-> IF s \in done THEN s ELSE no]
  IN  /\ beginPc = IF done = Services THEN "done" ELSE "batt"
      /\ commands = IF done = Services THEN {"bt", "battery"} ELSE {}
      /\ iface = own("none") /\ handles = own("zero")
      /\ granted = done /\ tables = set("made", "none") /\ started = done /\ refused = {}
      /\ advConfig = [d \in {"adv", "rsp"} |-> "set"] /\ advertising = TRUE /\ advStart = "ok"
      /\ events = IF done = Services THEN <<[type |-> "gap"]>> ELSE <<>>
      /\ notify = [s \in Subscribable |-> "NONE"] /\ conn_id = [s \in Subscribable |-> 0]
      /\ level = 0 /\ con = Idle /\ typed = 0 /\ attr = 0 /\ missed = FALSE
      /\ connected = {} /\ connects = 0 /\ writes = 0 /\ crowded = {} /\ asked = {} /\ told = 0
      /\ wish = [s \in Subscribable |-> "unset"] /\ known = [k \in ConnIds |-> Unread]

MCInit ==
  /\ Led!Init /\ Pilot!Init
  /\ part \in {"ble", "battery", "subscriptions", "shared", "led", "pilot"}
  /\ CASE part \in {"battery", "subscriptions"} -> SetUp({"app", "dis"})
       [] part = "shared" -> SetUp(Services)
       [] OTHER -> Init
  /\ part = "led" \/ \A m \in Memories : l_mem <= m
  /\ part = "pilot" \/ p_neopixel

MCNext ==
  \/ part = "ble"   /\ Next       /\ UNCHANGED <<part, ledVars, pilotVars>>
  \/ part = "battery"       /\ Battery!Next     /\ UNCHANGED <<part, ledVars, pilotVars>>
  \/ part = "subscriptions" /\ Subscribers!Next /\ UNCHANGED <<part, ledVars, pilotVars>>
  \/ part = "shared"        /\ Shared!Next      /\ UNCHANGED <<part, ledVars, pilotVars>>
  \/ part = "led"   /\ Led!Next   /\ UNCHANGED <<part, vars, pilotVars>>
  \/ part = "pilot" /\ Pilot!Next /\ UNCHANGED <<part, vars, ledVars>>

MCSpec == MCInit /\ [][MCNext]_<<part, vars, ledVars, pilotVars>>

\* The properties of the three components, each under its component's fairness.

\* ServicesStart of BleServer.
BleServicesStart == part = "ble" /\ Fairness => ServicesStart

\* FoundAgain of BleServer.
BleFoundAgain == part = "ble" /\ Fairness => FoundAgain

\* StripCorrect of LedStrip.
LedStripCorrect == part = "led" /\ Led!Fairness => Led!StripCorrect

\* CommandsAreObeyed of PilotLight.
PilotObeysCommands == part = "pilot" /\ Pilot!Fairness => Pilot!CommandsAreObeyed
=============================================================================
