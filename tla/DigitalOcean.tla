----------------------------- MODULE DigitalOcean -----------------------------
(***************************************************************************)
(* drivers/digitalocean.  The droplet and the SSH key have ids that        *)
(* DigitalOcean assigns; the driver keeps them in DropletID and SSHKeyID.  *)
(***************************************************************************)
EXTENDS DriverSteps

\* The flags that change what is done: the token, and a key the user has uploaded.
Flags == [token : BOOLEAN, existing : BOOLEAN]

SetConfigFromFlags(o) == o.token

VM == "droplet"
Stored == {"key", "droplet"}
Unique == {}
Shared == {}
Foreign == {"key"}

\* The droplet boots with the key, but DigitalOcean deletes either at any time.
Uses == {}

\* The userdata file and the region are looked up, the key is not.
PreCreateCheck(o) == <<Call("return")>>

createSSHKey(o) ==
  IF o.existing THEN <<MustBeGiven("key", "return"), Keep("key")>>
  ELSE <<Call("return"), Make("key", "return")>>

\* Waiting for the droplet's address is the one step whose failure cleans up.
Create(o) == createSSHKey(o) \o <<Make("droplet", "return"), Call("remove")>>

\* What DigitalOcean no longer has is passed over.  Without an id godo makes no request and
\* returns no response, whose StatusCode is read all the same: a panic.
Remove(o) ==
  When(~o.existing, <<Delete("key", "byid", "return", 0)>>)
    \o <<Delete("droplet", "byid", "return", 0)>>

GetState == [new |-> "Starting", active |-> "Running", off |-> "Stopped", archive |-> "None"]

Blind == "Error"
Native ==
  [on |-> "active", off |-> "off", via |-> [on |-> {}, off |-> {}, reboot |-> {}],
   other |-> {}, up |-> {}]

\* Each operation is one request; DigitalOcean carries it out later.
Start == <<Ask("on", "return")>>
Stop == <<Ask("guestoff", "return")>>
Restart == <<Ask("reboot", "return")>>
Kill == <<Ask("off", "return")>>

Life == Lifecycle(Flags, SetConfigFromFlags, VM, [stored |-> Stored, unique |-> Unique],
                  [shared |-> Shared, foreign |-> Foreign], Uses, PreCreateCheck, Create, Remove)
Powers == PowerTable(GetState, Blind, Native, Start, Stop, Restart, Kill)
================================================================================
