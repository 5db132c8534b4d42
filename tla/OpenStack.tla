------------------------------- MODULE OpenStack -------------------------------
(***************************************************************************)
(* drivers/openstack.  The instance's id (MachineId) and the name of the   *)
(* key pair (KeyPairName, with a random part) are fields of the driver; a  *)
(* floating IP is not kept at all.                                          *)
(***************************************************************************)
EXTENDS DriverSteps

\* auth: the credentials are complete; clear: flavor and image are given by a name or an
\* id, not both; existing: a key pair of the user's; keyfile: its private key;
\* pool: a floating IP is wanted; nova: networking by the compute service.
Flags == [auth : BOOLEAN, clear : BOOLEAN, existing : BOOLEAN, keyfile : BOOLEAN,
          pool : BOOLEAN, nova : BOOLEAN]

parseAuthConfig(o) == o.auth
checkConfig(o) == parseAuthConfig(o) /\ o.clear /\ (o.existing <=> o.keyfile)
SetConfigFromFlags(o) == checkConfig(o)

VM == "instance"
Stored == {"key", "instance"}
Unique == {}
Shared == {"floatingip"}
Foreign == {"key"}
Uses == {}

PreCreateCheck(o) == <<>>

\* Authenticates first, unless the process has done so.
initCompute == <<Call("return")>>
initNetwork == <<Call("return")>>

\* Flavor, image, network and floating IP pool are looked up by name.
resolveIds(o) ==
  initCompute \o <<Call("return"), Call("return")>>
    \o When(~o.nova, initNetwork \o <<Call("return")>>)

loadSSHKey == <<Keep("key")>> \o initCompute \o <<MustBeGiven("key", "return"), Call("return")>>

createSSHKey == <<Call("return")>> \o initCompute \o <<Make("key", "return")>>

CreateInstance == Make("instance", "return")
createMachine == initCompute \o <<CreateInstance>>

WaitForInstanceStatus == Call("remove")
waitForInstanceActive == <<WaitForInstanceStatus>>

\* A floating IP that nobody uses is taken; otherwise one is allocated.
AssignFloatingIP == Ensure("floatingip", "remove")
assignFloatingIP(o) == <<Call("remove"), Call("remove"), AssignFloatingIP>>

lookForIPAddress == <<Call("remove")>>

\* Steps that fail with "remove" are those behind failedToCreate.
Create(o) ==
  resolveIds(o)
    \o (IF o.existing THEN loadSSHKey ELSE createSSHKey)
    \o createMachine \o waitForInstanceActive
    \o When(o.pool, assignFloatingIP(o))
    \o lookForIPAddress

\* An absent instance is an error.  The code means to accept status 404 and tests for
\* *gophercloud.ErrUnexpectedResponseCode; gophercloud returns an ErrDefault404.
DeleteInstance == Delete("instance", "error", "return", 0)
DeleteKeyPair == Delete("key", "error", "return", 0)

Remove(o) == initCompute \o <<DeleteInstance>> \o When(~o.existing, <<DeleteKeyPair>>)

GetState ==
  [ACTIVE |-> "Running", PAUSED |-> "Paused", SUSPENDED |-> "Saved", SHUTOFF |-> "Stopped",
   BUILDING |-> "Starting", ERROR |-> "Error", BUILD |-> "None", REBOOT |-> "None"]

Blind == "None"
Native ==
  [on |-> "ACTIVE", off |-> "SHUTOFF", via |-> [on |-> {}, off |-> {}, reboot |-> {"REBOOT"}],
   other |-> {"PAUSED", "SUSPENDED"}, up |-> {"PAUSED"}]

StartInstance == Ask("on", "return")
StopInstance == Ask("off", "return")
RestartInstance == Ask("reboot", "return")
Start == initCompute \o <<StartInstance>>
Stop == initCompute \o <<StopInstance>>
Restart == initCompute \o <<RestartInstance>>
Kill == Stop

Life == Lifecycle(Flags, SetConfigFromFlags, VM, [stored |-> Stored, unique |-> Unique],
                  [shared |-> Shared, foreign |-> Foreign], Uses, PreCreateCheck, Create, Remove)
Powers == PowerTable(GetState, Blind, Native, Start, Stop, Restart, Kill)
================================================================================
