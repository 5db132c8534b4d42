------------------------------ MODULE AmazonEC2 ------------------------------
(***************************************************************************)
(* drivers/amazonec2: flags, GetState and the power operations.  Create and *)
(* Remove are module EC2Machine.                                            *)
(***************************************************************************)
EXTENDS DriverSteps

\* shutting-down counts as Stopping, terminated as Error.
GetState ==
  [pending |-> "Starting", running |-> "Running", stopping |-> "Stopping", shutting |-> "Stopping",
   stopped |-> "Stopped", terminated |-> "Error"]

Blind == "Error"
Native ==
  [on |-> "running", off |-> "stopped", via |-> [on |-> {"pending"}, off |-> {"stopping"}, reboot |-> {}],
   other |-> {}, up |-> {}]

instanceIsRunning == Await("running", "ignore")
waitForInstance == <<instanceIsRunning>>

\* Only Start waits.
Start == <<Ask("on", "return")>> \o waitForInstance
Stop == <<Ask("off", "return")>>
Restart == <<Ask("reboot", "return")>>
Kill == <<Ask("off", "return")>>

Powers == PowerTable(GetState, Blind, Native, Start, Stop, Restart, Kill)
================================================================================
