------------------------------ MODULE VCloudAir ------------------------------
(***************************************************************************)
(* drivers/vmwarevcloudair.  VAppID is assigned when everything else in    *)
(* Create is done.                                                          *)
(***************************************************************************)
EXTENDS DriverSteps

\* required: user, password, virtual data center and public address are given.
Flags == [required : BOOLEAN]
SetConfigFromFlags(o) == o.required

VM == "vapp"
Stored == {"vapp"}
Unique == {}
Shared == {}
Foreign == {}

\* A vApp that runs cannot be deleted.
Uses == {<<"power", "vapp">>}

PreCreateCheck(o) == <<>>

createSSHKey == Call("return")

\* NewClient, Authenticate.
connect == <<Call("return"), Call("return")>>
disconnect == Call("return")

\* Network, edge gateway, organisation, catalog, item and template are looked up; the vApp
\* is made, sized and given its script; the mapping is the NAT rule of the public address.
Create(o) ==
  <<createSSHKey>> \o connect
    \o <<Call("return"), MakeUnseen("vapp", "return"), Call("return"), Ensure("power", "return"),
         Ensure("mapping", "return"), disconnect, Keep("vapp")>>

\* Any error of FindVAppByID counts as "deleted already" and ends Remove with success.
RemoveKnown ==
  <<EndUnless("vapp", "succeed"), Call("return"), Delete("mapping", "ok", "return", 0),
    Delete("power", "ok", "return", 0), Call("return"), Delete("vapp", "error", "return", 0),
    disconnect>>

Remove(o) == connect \o <<Call("return")>> \o RemoveKnown

GetState == [POWERED_ON |-> "Running", POWERED_OFF |-> "Stopped", SUSPENDED |-> "None"]

Blind == "Error"
Native ==
  [on |-> "POWERED_ON", off |-> "POWERED_OFF", via |-> [on |-> {}, off |-> {}, reboot |-> {}],
   other |-> {"SUSPENDED"}, up |-> {}]

\* Every operation connects and finds the vApp; WaitTaskCompletion polls until it is done.
find == connect \o <<Call("return")>>
Start ==
  find \o <<Read>> \o IfSeen({"Stopped"}, Perform("on", "return")) \o <<disconnect>>
Stop == find \o Perform("guestoff", "return") \o <<disconnect>>
Restart == find \o Perform("reboot", "return") \o <<disconnect>>
Kill == find \o Perform("off", "return") \o <<disconnect>>

Life == Lifecycle(Flags, SetConfigFromFlags, VM, [stored |-> Stored, unique |-> Unique],
                  [shared |-> Shared, foreign |-> Foreign], Uses, PreCreateCheck, Create, Remove)
Powers == PowerTable(GetState, Blind, Native, Start, Stop, Restart, Kill)
================================================================================
