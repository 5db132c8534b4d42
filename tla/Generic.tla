------------------------------- MODULE Generic -------------------------------
(***************************************************************************)
(* drivers/generic: a computer the user already has.  Create only copies   *)
(* the user's key, Remove does nothing.                                     *)
(***************************************************************************)
EXTENDS DriverSteps

\* address: --generic-ip-address; key: --generic-ssh-key.
Flags == [address : BOOLEAN, key : BOOLEAN]
SetConfigFromFlags(o) == o.address

VM == ""
Stored == {}
Unique == {}
Shared == {}
Foreign == {"computer"}
Uses == {}

PreCreateCheck(o) == When(o.key, <<Call("return")>>)
copySSHKey(f) == Call(f)
Create(o) == When(o.key, <<copySSHKey("return"), copySSHKey("ignore")>>)
Remove(o) == <<>>

\* Whether the SSH port answers.
GetState == [up |-> "Running", down |-> "Stopped"]

\* A connection that fails means Stopped.
Blind == "Stopped"
Native ==
  [on |-> "up", off |-> "down", via |-> [on |-> {}, off |-> {}, reboot |-> {}],
   other |-> {}, up |-> {}]

Start == <<Unsupported>>
Stop == <<Unsupported>>

\* "sudo shutdown -r now" over SSH.
Restart == <<Reach, Ask("reboot", "return")>>
Kill == <<Unsupported>>

Life == Lifecycle(Flags, SetConfigFromFlags, VM, [stored |-> Stored, unique |-> Unique],
                  [shared |-> Shared, foreign |-> Foreign], Uses, PreCreateCheck, Create, Remove)
Powers == PowerTable(GetState, Blind, Native, Start, Stop, Restart, Kill)
================================================================================
