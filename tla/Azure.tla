--------------------------------- MODULE Azure ---------------------------------
(***************************************************************************)
(* drivers/azure.  The names of everything follow from the machine's name  *)
(* and the flags, so a record without any id is enough to find them.       *)
(***************************************************************************)
EXTENDS DriverSteps

\* required: every required flag has a value; managed: managed disks; pool: a security
\* group given with --azure-nsg; nopublic: --azure-no-public-ip; outside: the virtual
\* network is given as group:name.
Flags == [required : BOOLEAN, managed : BOOLEAN, pool : BOOLEAN, nopublic : BOOLEAN,
          outside : BOOLEAN]

SetConfigFromFlags(o) == o.required

VM == "vm"
Stored == {}
Unique == {}
Shared == {"group", "avset", "poolnsg", "vnet", "subnet", "outvnet", "outsubnet", "storage"}

\* Everything that is named after the machine.
Foreign == {"vm", "nic", "ip", "nsg", "disk", "container"}

\* <<a, b>>: Azure does not delete b while a is there.  Nothing keeps it from deleting a
\* storage account with containers in it.
Uses == {<<"vm", "nic">>, <<"vm", "disk">>, <<"vm", "avset">>, <<"nic", "ip">>,
         <<"nic", "nsg">>, <<"nic", "poolnsg">>, <<"nic", "subnet">>,
         <<"subnet", "vnet">>}

\* newAzureClient: the environment, the tenant (cached in a file) and a token.
loadOrFindTenantID == Call("return")
AuthenticateDeviceFlow == <<loadOrFindTenantID, Call("return")>>
AuthenticateClientCredentials == <<loadOrFindTenantID, Call("return")>>
newAzureClient == AuthenticateClientCredentials

RegisterResourceProviders == Call("return")
VirtualMachineExists == MustNotExist("vm", "return")
getSecurityRules == Call("return")

PreCreateCheck(o) ==
  newAzureClient \o <<RegisterResourceProviders, getSecurityRules, VirtualMachineExists>>

resolveNSGReference(o) == IF o.pool THEN "poolnsg" ELSE "nsg"
parseVirtualNetwork(o) == IF o.outside THEN "outvnet" ELSE "vnet"

CreateResourceGroup == Ensure("group", "return")
CreateAvailabilitySetIfNotExists == Ensure("avset", "return")
CreateNetworkSecurityGroup(o) == Ensure(resolveNSGReference(o), "return")
CreateVirtualNetworkIfNotExists(o) == Ensure(parseVirtualNetwork(o), "return")
CreateSubnet(o) == Ensure(IF o.outside THEN "outsubnet" ELSE "subnet", "return")
CreatePublicIPAddress == Ensure("ip", "return")
CreateNetworkInterface == Ensure("nic", "return")
findOrCreateStorageAccount == Ensure("storage", "return")
CreateStorageAccount == findOrCreateStorageAccount
generateSSHKey == Call("return")

\* Azure makes the disk, or the blob container of an unmanaged disk, before the machine.
getOSDisk(o) == Ensure(IF o.managed THEN "disk" ELSE "container", "return")
CreateVirtualMachine(o) == <<Call("return"), getOSDisk(o), Ensure("vm", "return")>>

GetPublicIPAddress == Call("return")
ipAddress(o) == newAzureClient \o <<GetPublicIPAddress>>

\* Create never cleans up after itself.
Create(o) ==
  newAzureClient
    \o <<CreateResourceGroup, CreateAvailabilitySetIfNotExists, CreateNetworkSecurityGroup(o),
         CreateVirtualNetworkIfNotExists(o), CreateSubnet(o)>>
    \o When(~o.nopublic, <<CreatePublicIPAddress>>)
    \o <<CreateNetworkInterface>>
    \o When(~o.managed, <<CreateStorageAccount>>)
    \o <<generateSSHKey>> \o CreateVirtualMachine(o) \o ipAddress(o)

\* A managed disk that something still uses is left alone.
removeManagedDisk == Cleanup("disk", "return")

\* The container is deleted if that works; then the containers of the storage account are
\* listed, and it is deleted if there are none.
removeOSDiskBlob == <<Delete("container", "ok", "skip", 2)>> \o Cleanup("storage", "return")

\* When the virtual machine is gone, its disk is not looked for.
DeleteVirtualMachineIfExists(o) ==
  LET disk == IF o.managed THEN removeManagedDisk ELSE removeOSDiskBlob
  IN <<Delete("vm", "skip", "return", Len(disk))>> \o disk

DeleteNetworkInterfaceIfExists == Delete("nic", "ok", "return", 0)
DeletePublicIPAddressIfExists == Delete("ip", "ok", "return", 0)

\* Left alone while in use, or, if --azure-nsg gave it, without the driver's tag.
DeleteNetworkSecurityGroupIfExists(o) == Cleanup(resolveNSGReference(o), "return")

\* CanBeDeleted is "VirtualMachines == nil && len(*VirtualMachines) == 0": a panic
\* if Azure sends no list, FALSE if it sends one.  So the set is never deleted.
CleanupAvailabilitySetIfExists == Call("return")

\* The two look in the machine's own group for what --azure-vnet says, group:name included.
CleanupSubnetIfExists(o) == IF o.outside THEN <<Call("return")>> ELSE Cleanup("subnet", "return")
CleanupVirtualNetworkIfExists(o) == IF o.outside THEN <<Call("return")>> ELSE Cleanup("vnet", "return")

Remove(o) ==
  newAzureClient \o DeleteVirtualMachineIfExists(o)
    \o <<DeleteNetworkInterfaceIfExists, DeletePublicIPAddressIfExists>>
    \o DeleteNetworkSecurityGroupIfExists(o) \o <<CleanupAvailabilitySetIfExists>>
    \o CleanupSubnetIfExists(o) \o CleanupVirtualNetworkIfExists(o)

\* machineStateForVMPowerState.
GetState ==
  [running |-> "Running", starting |-> "Starting", stopping |-> "Stopping", stopped |-> "Stopped",
   deallocating |-> "Stopping", deallocated |-> "Stopped", unknown |-> "None"]

Blind == "None"
Native ==
  [on |-> "running", off |-> "stopped", via |-> [on |-> {"starting"}, off |-> {"stopping"}, reboot |-> {}],
   other |-> {"deallocated"}, up |-> {}]

\* After the timeout the channel is closed while the polling goroutine may still send.
waitVMPowerState(goal) == Await(goal, "return")

StartVirtualMachine == Perform("on", "return") \o <<waitVMPowerState("running")>>
StopVirtualMachine == Perform("off", "return") \o <<waitVMPowerState("stopped")>>

\* Azure reports Running during a restart: the wait for the operation is what counts.
RestartVirtualMachine == Perform("reboot", "return") \o <<waitVMPowerState("running")>>

Start == newAzureClient \o StartVirtualMachine
Stop == newAzureClient \o StopVirtualMachine
Restart == newAzureClient \o RestartVirtualMachine
Kill == newAzureClient \o StopVirtualMachine

Life == Lifecycle(Flags, SetConfigFromFlags, VM, [stored |-> Stored, unique |-> Unique],
                  [shared |-> Shared, foreign |-> Foreign], Uses, PreCreateCheck, Create, Remove)
Powers == PowerTable(GetState, Blind, Native, Start, Stop, Restart, Kill)
================================================================================
