------------------------------ MODULE Rackspace ------------------------------
(***************************************************************************)
(* drivers/rackspace: the OpenStack driver with its own flags, its own     *)
(* authentication, and no start or stop.                                    *)
(***************************************************************************)
EXTENDS DriverSteps

OS == INSTANCE OpenStack

\* required: region, user name and key are given; endpoint: one of the three types.
Flags == [required : BOOLEAN, endpoint : BOOLEAN]
SetConfigFromFlags(o) == o.required /\ o.endpoint

VM == OS!VM
Stored == OS!Stored
Unique == OS!Unique
Shared == OS!Shared
Foreign == {}
Uses == OS!Uses

\* The fields of the embedded openstack.Driver.
inner == [auth |-> TRUE, clear |-> TRUE, existing |-> FALSE, keyfile |-> FALSE, pool |-> FALSE,
          nova |-> FALSE]

Authenticate == Call("return")
PreCreateCheck(o) == OS!PreCreateCheck(inner)
Create(o) == <<Authenticate>> \o OS!Create(inner)
Remove(o) == <<Authenticate>> \o OS!Remove(inner)

GetState == OS!GetState

Blind == OS!Blind
Native == OS!Native

StartInstance == Unsupported
StopInstance == Unsupported
Start == <<Authenticate, StartInstance>>
Stop == <<Authenticate, StopInstance>>
Restart == <<Authenticate>> \o OS!Restart
Kill == Stop

Life == Lifecycle(Flags, SetConfigFromFlags, VM, [stored |-> Stored, unique |-> Unique],
                  [shared |-> Shared, foreign |-> Foreign], Uses, PreCreateCheck, Create, Remove)
Powers == PowerTable(GetState, Blind, Native, Start, Stop, Restart, Kill)
================================================================================
