----------------------------- MODULE PilotLight -----------------------------
(* The pilot light (PilotLight.cpp) and the console (CommandLine.cpp), two   *)
(* tasks pinned to core 1.  The task that blinks has the higher priority:    *)
(* the console, whose command 'pilot' sets the two times, runs only while    *)
(* the light sleeps or waits for the LED strip.  The times are fields that   *)
(* both tasks use without a lock.                                            *)
EXTENDS Naturals

CONSTANTS
  Hz,          \* configTICK_RATE_HZ
  Word,        \* TickType_t and uint32_t count modulo this (2^32)
  Times,       \* the numbers that the user types, in ms
  OnTime, OffTime, \* the times in the configuration, in ms
  Neopixel,    \* the values of CONFIG_HW_PILOT_LIGHT_IS_NEOPIXEL
  MaxCommands  \* bound: how many commands the user types

PeriodIsWhole == 1000 % Hz = 0

VARIABLES
  registered, \* is the command 'pilot' known to the console?
  neopixel,   \* the build
  lightPc,    \* "none" before Start; "dark", "darkDelay", "lit", "litDelay"
  waits,      \* what the light waits for: "no", "strip" or "delay"
  on_time, off_time,
  slept,      \* the ticks of the last Delay
  consolePc,  \* "read" (in linenoise), "run", "setOn", "setOff"
  args,       \* the arguments of the command, <<on, off>>, or <<>>
  commands,   \* how many commands were typed
  last        \* a history: the times of the last command that set them, in ms

boot    == <<registered, neopixel>>
light   == <<lightPc, waits, slept>>
console == <<consolePc, args, commands, last>>
vars == <<boot, light, on_time, off_time, console>>

\* Ticks::MsToTicks, and pdMS_TO_TICKS (external), which multiplies first.
MsToTicks(ms) == ms \div (1000 \div Hz)
pdMS_TO_TICKS(ms) == ((ms * Hz) % Word) \div 1000

Init ==
  /\ registered = FALSE /\ neopixel \in Neopixel
  /\ lightPc = "none" /\ waits = "no" /\ slept = 0
  /\ on_time = MsToTicks(OnTime) /\ off_time = MsToTicks(OffTime)
  /\ consolePc = "read" /\ args = <<>> /\ commands = 0 /\ last = <<OnTime, OffTime>>

-----------------------------------------------------------------------------
\* begin, on the main task: the command first, then the task.
RegisterPilotCmd ==
  /\ ~registered /\ registered' = TRUE
  /\ UNCHANGED <<neopixel, light, on_time, off_time, console>>

Start ==
  /\ registered /\ lightPc = "none" /\ lightPc' = "dark"
  /\ UNCHANGED <<boot, waits, slept, on_time, off_time, console>>

-----------------------------------------------------------------------------
(* PilotLight::Run.                                                        *)

LightReady == lightPc # "none" /\ waits = "no"

\* The LED strip is refreshed and waited for; a pin is just set.
Show(phase, next) ==
  /\ LightReady /\ lightPc = phase
  /\ lightPc' = next /\ waits' = IF neopixel THEN "strip" ELSE "no"
  /\ UNCHANGED <<boot, slept, on_time, off_time, console>>

StripDone ==
  /\ waits = "strip" /\ waits' = "no"
  /\ UNCHANGED <<boot, lightPc, slept, on_time, off_time, console>>

\* Thread::Delay reads the time now; vTaskDelay(0) does not sleep.
Delay(phase, ticks, next) ==
  /\ LightReady /\ lightPc = phase
  /\ lightPc' = next /\ slept' = ticks
  /\ waits' = IF ticks = 0 THEN "no" ELSE "delay"
  /\ UNCHANGED <<boot, on_time, off_time, console>>

\* The times swapped.
DarkDelayOn == Delay("darkDelay", on_time, "lit")

DarkDelay == Delay("darkDelay", off_time, "lit")
LitDelay  == Delay("litDelay", on_time, "dark")

Wake ==
  /\ waits = "delay" /\ waits' = "no"
  /\ UNCHANGED <<boot, lightPc, slept, on_time, off_time, console>>

Run == \/ Show("dark", "darkDelay") \/ DarkDelay
       \/ Show("lit", "litDelay") \/ LitDelay

-----------------------------------------------------------------------------
(* The console task: one step of it at a time, while the light does not run. *)

\* The user types "pilot" with two numbers, or without.
Type ==
  /\ ~LightReady /\ consolePc = "read" /\ commands < MaxCommands
  /\ commands' = commands + 1
  /\ args' \in (Times \X Times) \cup {<<>>}
  /\ consolePc' = "run"
  /\ UNCHANGED <<boot, light, on_time, off_time, last>>

\* cmd_pilot, called by esp_console_run if the command is known: two positive
\* numbers set the times, everything else prints something.
Accepted == registered /\ args # <<>> /\ args[1] > 0 /\ args[2] > 0

cmd_pilot ==
  /\ ~LightReady /\ consolePc = "run"
  /\ consolePc' = IF Accepted THEN "setOn" ELSE "read"
  /\ UNCHANGED <<boot, light, on_time, off_time, args, commands, last>>

\* setOnOffTime, one field after the other.
SetOn ==
  /\ ~LightReady /\ consolePc = "setOn"
  /\ on_time' = pdMS_TO_TICKS(args[1]) /\ consolePc' = "setOff"
  /\ UNCHANGED <<boot, light, off_time, args, commands, last>>

SetOff ==
  /\ ~LightReady /\ consolePc = "setOff"
  /\ off_time' = pdMS_TO_TICKS(args[2]) /\ consolePc' = "read" /\ last' = args
  /\ UNCHANGED <<boot, light, on_time, args, commands>>

-----------------------------------------------------------------------------
Next == \/ RegisterPilotCmd \/ Start
        \/ Run \/ StripDone \/ Wake
        \/ Type \/ cmd_pilot \/ SetOn \/ SetOff

\* The highest ready task of a core runs, the strip finishes (LedStrip) and time
\* passes.  The console gets the core each time the light lets go of it, and
\* advances when that happens again and again.
Fairness ==
  /\ WF_vars(RegisterPilotCmd) /\ WF_vars(Start)
  /\ WF_vars(Run) /\ WF_vars(StripDone) /\ WF_vars(Wake)
  /\ SF_vars(cmd_pilot) /\ SF_vars(SetOn) /\ SF_vars(SetOff)

Spec == Init /\ [][Next]_vars /\ Fairness

-----------------------------------------------------------------------------
\* "Enable the console 'pilot' command to set on/off times" (Kconfig:42): the
\* console always comes back to read the next command.
CommandsAreRead == []<>(consolePc = "read" /\ ~LightReady)

\* Both times are below one tick, by one command or, until it has written the second
\* field, by the mix of two: the light does not sleep, and unless it waits for the LED
\* strip the console never runs again.
Restless == on_time = 0 /\ off_time = 0

\* Whatever the two tasks do to the two fields meanwhile, the light ends up
\* sleeping for the times of the last command that was accepted, each in its
\* phase, and it does go on blinking.
AsAsked ==
  waits = "delay" =>
    slept = pdMS_TO_TICKS(IF lightPc = "lit" THEN last[2] ELSE last[1])

\* The console is not starved and the commands are obeyed, as long as the two fields are
\* never below one tick at once; the console is not starved by a light that waits for
\* the LED strip, whatever the times.  (The code accepts such times, and then the rest
\* of this is false: nothing below the light runs on its core.)
CommandsAreObeyed ==
  /\ neopixel \/ []~Restless => CommandsAreRead
  /\ []~Restless => <>[]AsAsked /\ []<>(waits = "delay")
=============================================================================
