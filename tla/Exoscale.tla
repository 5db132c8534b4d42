------------------------------- MODULE Exoscale -------------------------------
(***************************************************************************)
(* drivers/exoscale.  The virtual machine's id is in d.ID.  The key pair   *)
(* is named after the machine, but Remove looks for it only if d.KeyPair   *)
(* is set.                                                                  *)
(***************************************************************************)
EXTENDS DriverSteps

\* keys: the API keys are given; existing: --exoscale-ssh-key; affinity: an affinity group.
Flags == [keys : BOOLEAN, existing : BOOLEAN, affinity : BOOLEAN]

SetConfigFromFlags(o) == o.keys

VM == "vm"
Stored == {"key", "vm"}
Unique == {"key"}
Shared == {"securitygroup", "affinitygroup"}
Foreign == {"key"}
Uses == {}

PreCreateCheck(o) == <<Call("return")>>

\* The group is made first, then its rules one by one.
createDefaultSecurityGroup == <<Ensure("securitygroup", "return"), Call("return")>>
createDefaultAffinityGroup == <<Ensure("affinitygroup", "return")>>

\* An affinity group that cannot be looked up ends Create with "return err" where err is
\* the nil of an earlier call: Create reports success and has made no machine.
lookUpAffinityGroup == <<Call("succeed")>>

\* The key pair is deleted when the first SSH connection worked.
Create(o) ==
  <<Call("return")>> \o createDefaultSecurityGroup
    \o When(o.affinity, lookUpAffinityGroup \o createDefaultAffinityGroup)
    \o (IF o.existing THEN <<Call("return")>> ELSE <<MakeUnseen("key", "return"), Call("return"), Keep("key")>>)
    \o <<Make("vm", "return")>>
    \o When(~o.existing, <<Call("return"), Delete("key", "error", "return", 0)>>)

\* A key or machine whose name or id is not known is passed over; the groups are kept.
Remove(o) == <<Delete("key", "known", "return", 0), Delete("vm", "known", "return", 0)>>

GetState ==
  [Starting |-> "Starting", Running |-> "Running", Stopping |-> "Running", Stopped |-> "Stopped",
   Destroyed |-> "Stopped", Expunging |-> "Stopped", Migrating |-> "Paused", Error |-> "Error",
   Unknown |-> "Error", Shutdowned |-> "Stopped"]

Blind == "Error"
Native ==
  [on |-> "Running", off |-> "Stopped", via |-> [on |-> {"Starting"}, off |-> {"Stopping"}, reboot |-> {}],
   other |-> {}, up |-> {}]

\* RequestWithContext waits for the job.
Start == Perform("on", "return")
Stop == Perform("off", "return")
Restart == Perform("reboot", "return")
Kill == Stop

Life == Lifecycle(Flags, SetConfigFromFlags, VM, [stored |-> Stored, unique |-> Unique],
                  [shared |-> Shared, foreign |-> Foreign], Uses, PreCreateCheck, Create, Remove)
Powers == PowerTable(GetState, Blind, Native, Start, Stop, Restart, Kill)
================================================================================
