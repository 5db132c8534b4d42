------------------------------- MODULE NoDriver -------------------------------
(***************************************************************************)
(* drivers/none: a URL.                                                     *)
(***************************************************************************)
EXTENDS DriverSteps

\* url: --url is given.
Flags == [url : BOOLEAN]
SetConfigFromFlags(o) == o.url

VM == ""
Stored == {}
Unique == {}
Shared == {}
Foreign == {"computer"}
Uses == {}

PreCreateCheck(o) == <<>>
Create(o) == <<>>
Remove(o) == <<>>

\* Always Running.
GetState == [up |-> "Running", down |-> "Running"]

Blind == "Running"
Native ==
  [on |-> "up", off |-> "down", via |-> [on |-> {}, off |-> {}, reboot |-> {}],
   other |-> {}, up |-> {}]

Start == <<Unsupported>>
Stop == <<Unsupported>>
Restart == <<Unsupported>>
Kill == <<Unsupported>>

Life == Lifecycle(Flags, SetConfigFromFlags, VM, [stored |-> Stored, unique |-> Unique],
                  [shared |-> Shared, foreign |-> Foreign], Uses, PreCreateCheck, Create, Remove)
Powers == PowerTable(GetState, Blind, Native, Start, Stop, Restart, Kill)
================================================================================
