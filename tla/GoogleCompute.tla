---------------------------- MODULE GoogleCompute ----------------------------
(***************************************************************************)
(* drivers/google.  Instance and disk are found by the machine's name.     *)
(***************************************************************************)
EXTENDS DriverSteps

\* project: --google-project is given; existing: --google-use-existing.
Flags == [project : BOOLEAN, existing : BOOLEAN]

SetConfigFromFlags(o) == o.project

VM == "instance"
Stored == {}
Unique == {}
Shared == {"firewall"}
Foreign == {"instance", "disk"}
Uses == {<<"instance", "disk">>}

newComputeUtil == Call("return")

\* The instance may be there exactly if the user wants to use an existing one.  A lookup
\* that fails counts as "there is none".
PreCreateCheck(o) ==
  <<newComputeUtil, Call("return")>>
    \o IF o.existing THEN <<MustExist("instance", "return")>>
       ELSE <<IfThere("instance", "skip", 1), Unsupported>>

waitForOp == Call("return")
openFirewallPorts == <<Ensure("firewall", "return"), waitForOp>>

uploadSSHKey == <<Call("return"), waitForOp>>
addFirewallTag == <<Call("return"), waitForOp>>

\* A disk that is there under the name the driver would give it is attached; otherwise
\* Google makes one, which goes with the instance (AutoDelete).
createInstance ==
  <<Call("return"), Make("instance", "return"), waitForOp, Call("return")>>
    \o uploadSSHKey

configureInstance == <<MustExist("instance", "return")>> \o addFirewallTag \o uploadSSHKey

Create(o) ==
  <<Call("return"), newComputeUtil>> \o openFirewallPorts
    \o (IF o.existing THEN configureInstance ELSE createInstance)

deleteInstance == <<Delete("instance", "ok", "return", 0), waitForOp>>

\* A disk that cannot be looked up counts as deleted.
deleteDisk == <<Step("call", "", "skip", "ok", 2), Delete("disk", "ok", "return", 0), waitForOp>>

Remove(o) == <<newComputeUtil>> \o deleteInstance \o deleteDisk

GetState ==
  [PROVISIONING |-> "Starting", STAGING |-> "Starting", RUNNING |-> "Running",
   STOPPING |-> "Stopped", STOPPED |-> "Stopped", TERMINATED |-> "Stopped",
   SUSPENDED |-> "None"]

\* Errors are passed over: if the instance cannot be looked up and its disk can, Stopped.
Blind == "Stopped"
Native ==
  [on |-> "RUNNING", off |-> "TERMINATED", via |-> [on |-> {"STAGING"}, off |-> {"STOPPING"}, reboot |-> {}],
   other |-> {"SUSPENDED"}, up |-> {}]

\* waitForOp polls until the operation is done.
startInstance == Perform("on", "return")
stopInstance == Perform("off", "return")

\* Start makes an instance again if there is none; then its address is read.
Start == <<newComputeUtil, Call("return")>> \o startInstance \o <<Call("return")>>
Stop == <<newComputeUtil>> \o stopInstance
Restart == Stop \o Start
Kill == Stop

Life == Lifecycle(Flags, SetConfigFromFlags, VM, [stored |-> Stored, unique |-> Unique],
                  [shared |-> Shared, foreign |-> Foreign], Uses, PreCreateCheck, Create, Remove)
Powers == PowerTable(GetState, Blind, Native, Start, Stop, Restart, Kill)
================================================================================
