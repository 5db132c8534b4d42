# A TLA+ model of docker-machine

`machine` (the Rancher fork of docker-machine) is a command-line program. Each
command loads the records of its machines from a directory, starts one plugin
process per machine to talk to the machine's driver, asks the drivers to do
something to virtual machines at a hypervisor or a cloud, and saves the records.
Nothing else holds the system together: there is no server, no database and no
lock between two commands. What can go wrong is in the seams, and these are what
is modelled here: between goroutines and channels, between a command and its
plugins, between two system calls of a save, between a cloud and the record of
what was created there.

`tlc -config X.cfg M` runs a model, `tlapm MProofs.tla` checks proofs; the table of modules
says which are about which. `PROJECT.json` has the runs, the correspondence of every definition to
lines of the code, the findings and the hazards.

## The parts of the system

| Part | State it keeps | Operations | Talks to |
|---|---|---|---|
| RPC client driver and factory (`libmachine/drivers/rpc/client_driver.go`) | `openedDrivers`; per driver the plugin, the RPC client, `heartbeatDoneCh`, a heartbeat goroutine | `NewRPCClientDriver`, `Close`, forwarding of every driver method | plugin process, over RPC |
| Plugin launcher (`plugin/localbinary`) | per plugin the address and stop channels, a Serve goroutine, the child process | `Serve`, `Address`, `Close` | the child's stdout and stderr |
| Plugin process (`register_driver.go`, `server_driver.go`) | the driver, `HeartbeatCh`, `CloseCh`, a timer | serve calls, exit on Close or when heartbeats cease, trap panics | the client |
| File store (`libmachine/persist`) | `machines/<name>/config.json`, its backup, temporary files | `Save`, `Load` with migration, `Remove`, `Exists`, `List` | the file system, other commands |
| Host and migrations (`libmachine/host`) | config version, driver, options | migrate, start, stop, restart, kill, upgrade, provision | driver, provisioner |
| libmachine client (`libmachine.go`) | certificates directory, driver factory | `NewHost`, `Load`, `Create` | all of the above |
| Commands (`commands`) | none beyond the run | create, rm, ls, start, stop, ... | libmachine |
| `SerialDriver` (`drivers/serial.go`) | one process-wide mutex | every method under the lock | virtualbox drivers |
| Certificates (`libmachine/cert`) | CA and client certificate files | bootstrap, check dates, sign | file system |
| Provisioners (`libmachine/provision`) | on the machine: packages, Docker, certificates | a sequence of SSH commands per distribution | SSH |
| Drivers (`drivers/*`) | ids and names of what they created | `Create`, `Remove`, `Start`, `Stop`, ... | clouds, hypervisors |
| ISO cache (`mcnutils/b2d.go`) | the cached boot2docker image | download, refresh, copy | network, other commands |
| Pure code | none | version comparison, ls filters, migrations of one record | - |

Interactions that are hard: the client's main goroutine, one Serve and one
heartbeat goroutine per driver and one operating-system process per plugin meet on
unbuffered channels and on RPC calls that fail when a process dies; `ls` adds two
goroutines per host and a lock; a plugin must notice that its client is gone and
must not think so while it is there; saves are several system calls, without a
lock, and can be cut anywhere; a driver's `Create` makes several things in a cloud,
and what it has made is known only to its memory until the next save; cleanup after
a failure can itself fail.

What makes each part correct, in a sentence: closing the factory ends, and leaves no
plugin behind; a plugin ends with its client and not before; a stored config is
never lost and never half written for the next command; every instance a command
created is either removed or in the record; `ls` ends, and shows every host once; a success
of a power command means the state it names; a provision that was cut off can be repeated;
shared certificates and images survive every order of runs and deaths, or are repaired by
the next.

## Modules

| Module | Models | Proofs |
|---|---|---|
| `PluginRPC` | one command and its plugins: load, work, close, with every goroutine | `PluginProofs` |
| `Heartbeat` | the clocks of one client and one plugin | `PluginProofs` |
| `Filestore` | one machine's directory, system call by system call | `FilestoreProofs` |
| `HostStore` | what `persist.Store` promises: one cell per machine | `FilestoreProofs` |
| `EC2Machine` | create and rm of an amazonec2 machine | `EC2MachineProofs` |
| `ListHosts` | the goroutines of `ls` and the `SerialDriver` lock | `PluginProofs` |
| `DriverSteps` | the vocabulary in which a driver's methods are written down | - |
| `Azure`, `DigitalOcean`, `Exoscale`, `Fusion`, `Generic`, `GoogleCompute`, `HyperV`, `NoDriver`, `OpenStack`, `Rackspace`, `SoftLayer`, `VCloudAir`, `VSphere`, `VirtualBox`, `AmazonEC2` | one driver each: its methods as steps | - |
| `Drivers` | the table of all drivers, and the known exceptions | - |
| `DriverConditions` | what the proofs ask of a driver's methods | - |
| `DriverLife` | create and rm of one machine of any driver | `DriverLifeProofs` |
| `HostActions` | start, stop, kill, restart, upgrade, provision, ip over several hosts | `HostActionsProofs` |
| `Provisioners` | what each provisioner does to a machine | `ProvisionProofs` |
| `Provision` | create, provision, regenerate-certs and upgrade on one machine | `ProvisionProofs` |
| `Certs` | the CA and the client certificate, shared by all commands | `CertsProofs` |
| `ISOCache` | the cached boot2docker image, shared by all commands | `ISOCacheProofs` |
| `MCFilestore`, `MCListHosts`, `MCDrivers`, `MCHosts`, `MCProvision`, `MCCerts`, `MCISOCache` | values for the runs | - |

Definitions called "Wrong variant" are not part of any specification. Each is an
action or a driver's method as a plausible mistake in the code would make it, and
stands next to the right one; in its place, TLC finds the property it is meant for
violated. `PluginProofs` is about three modules at once, which is why the names of two of
them have a prefix (`HBSpec`, `LsSpec`).

### PluginRPC

The main goroutine is `pc`, `cur` and `todo`; each driver has its heartbeat
goroutine `hb[d]`, its Serve goroutine `serve[d]`, its address channel and its
process `proc[d]`. All channels but the address channel are unbuffered, so a send
and its receive are one action of two goroutines (`SendDone`, `SendStop`), and a
send nobody receives is an action that is never enabled: that is how the model
blocks where the code blocks. `os.Exit` and a panic end every goroutine of the
client at once (`Alive`), the plugins go on. Commands differ in one way, `tolerant`:
`ls` goes on when a host cannot be loaded, the others give up, and giving up skips
the deferred `Close`. Eleven kinds of things that happen to plugins are switched on
by `Faults`.

Time is not in this module: a plugin may time out whenever it is not sure to get a
heartbeat. When it is sure is the subject of `Heartbeat`.

### Heartbeat

Counts ticks since the client's last action and since the plugin's `select` began
to wait. A message takes up to `Latency` ticks, the handshake up to `Handshake`. The
assumption is the inequality the two constants of the code (5 s, 10 s) must satisfy:
`max(Handshake, Latency) + Interval + Latency < Timeout`. In the code that leaves
just under 5 s for the handshake and a delay together.

### Filestore and HostStore

An action is a system call: `stat`, `open` with truncation, `write`, creation of the
temporary file, `unlink`, `rename`, the single steps of `os.RemoveAll`. Two
processes may be at work; a process may die between any two calls and leaves its
temporary file as `debris`. A file that is unlinked while somebody has it open
detaches (`linked`). Contents are whole configs, or `empty` or `corrupt`. `Load` of
a config of an old version first saves the old bytes as `config.json.bak` and then
the migrated host, both with the same `saveToFile`. What may happen in a behaviour
(several processes, deaths, removals, failing calls, what is there at first) is the
variable `setting`, chosen at first: the properties say under which settings they
hold.

`HostStore` is the abstract view: one cell, overwritten by `Put` and cleared by a
removal. `ImplementsHostStore` maps the files to the cell: between the `unlink` and
the `rename` of a save, the cell already has the content of the temporary file.

### EC2Machine

The driver's memory (`config`, `inst`, `key`, `req`), the record in the store
(`rec`), and EC2 itself: instances and spot requests (`ec2`), the key pair each was
launched with, the key pairs. `create` is `cmdCreateInner`, `Client.Create` (save, let
the driver create, save, provision, save) and the driver's `Create` with its cleanup;
`rm` is `cmdRm` and the driver's `Remove`, which tries every step and collects the
errors. The spot request's id is an unexported field and so is not in the record.
Security groups are shared between machines and never removed: a step that may fail.
`faults`, chosen at first, is what may go wrong.

### ListHosts

Per host the goroutine of `getHostState` (`parent`) and of `attemptGetHostState`
(`query`), and the main goroutine, which receives as many items as there are hosts,
closes the channel and sorts. `call` says who is inside a driver call: for a host in
`Serial` that is to hold the lock. A driver in `Hanging` may never answer. What a row
shows is left out; that a row is the right host's is not. `sort.Sort` is modelled by what it
promises, a permutation in the order of the names (`Sorts`), and the lookup of the items
by lower-case name behind it by what the code does (`LastRanked`).

### DriverSteps, the drivers, Drivers, DriverConditions and DriverLife

A driver is mostly a sequence of requests, and what matters about each is which
resource it makes, finds or deletes, and what the driver does when it fails: return,
clean up and return, go on and remember, go on and forget, skip, retry, or succeed all
the same. `DriverSteps` has these as records, and a driver's module writes its
`PreCreateCheck`, `Create` and `Remove` (and helpers, under their names in the source) as
sequences of them, one for each set of flags that makes a difference. It also says which kinds of
resources are found by an id in the record (`stored`) and which by their name, which
another owner may have under the same name (`foreign`), which are shared between
machines (`shared`), and which the platform refuses to delete while another is there
(`uses`).

`DriverLife` runs them: `phase` and `at` are the driver's program counter, `mem` the ids
in its fields, `rec` and `saved` the record, `cloud` what the platform has, `used` what of
it others have or use. A step succeeds, fails before or after its effect, or is cut off
by a crash; another machine begins to use a shared resource; somebody
deletes the machine with the platform's own tools. Before the first create there may be resources of others: the
shared ones, a virtual machine of the same name, or everything else that is named after the machine. To look whether something is
used and to delete it are two requests (`Cleanup`, as in cleanup.go:41-54), and another machine may begin to use it
between them (`late`); the platform then refuses to delete it, if it knows the use. `excused` marks the behaviours in which
nothing can be promised: a crash, an answer that was lost, `--force`, or a second
failure while the driver cleans up after the first.

What each property cannot say of every driver is a constant, and `Drivers` has the
values, with the lines: `KnownLeaks` (left behind by a failed create), `KnownLeftovers` (left
behind by an rm that succeeded), `KnownStuck` (an rm that never succeeds once something is gone), `KnownPanics` (an rm that
never succeeds without an id), `KnownClobbers` (deletes what is somebody else's), `KnownRaces` (deletes what another machine has begun to
use since it looked), `KnownPretenders` (a create that succeeds without a
machine). The run shows that the list is complete.

`DriverConditions` says what the proofs need of a driver's methods:

* `ForeignAssumption`: where a check guards a deletion;
* `SharedAssumption`: what machines share is deleted only right after a look which found it unused (`Checked`), and the
  platform knows its use unless `KnownRaces` lists it;
* `CreateAssumption`: every way through `Create` that succeeds passes the step which makes the machine
  and the one which learns its id;
* `RmAssumption`: a step of `Remove` whose failure is returned passes over what is gone, or asks only for what an
  earlier step has found, and comes after the deletion of all that the platform would not let it delete before
  (`Passes`); in the drivers of `KnownStuck` it may instead depend on something that can be gone (`FailsIfGone`), in those of
  `KnownPanics` on an id that the record may not have (`FailsIfUnknown`);
* `LeakAssumption`, for each kind of resource that `Create` makes. If it is found only by its id, every
  failure after it is made leads to the driver's own `Remove`, and nothing stops that before the step that deletes it
  (`UndoneAt`). `Remove` passes a step that deletes it, and does not succeed before unless there is none
  (`DropsAt`; in virtualbox and hyperv `Remove` returns when it finds no machine, and then none is running either,
  `BasedOn`).
  What `KnownLeaks` and `KnownLeftovers` list is excepted, but then `Create` has to be a plain sequence which
  does not fail by itself once it has made any of it (`AllOrNothing`), so that it is an exception only after a failure, and
  where there is no such step of `Remove`, a `Remove` without failures has to take every step (`Smooth`).

They are about the driver's text, not about its behaviour: none mentions a variable. TLC evaluates them
for the real drivers whenever it runs `DriverLife`, so that a change of a driver that breaks one is found at once.

### HostActions

One goroutine per host as in `runActionForeachMachine`: `stage` is the place in the method
of `host.go`, `op` and `at` the place in the driver's operation, which again is a sequence of
steps from the driver's module, `seen` and `polls` the wait of `WaitFor`. The platform has a state
(`native`, translated by the driver's `GetState`) and a request it works on (`doing`),
in its own time: requests can fail, guests can ignore the power button, others can switch
the machine. The main goroutine collects the answers and saves all hosts or none.
An upgrade does what the guest's provisioner does, whichever it is: it works with packages (`Work`); it stops the machine, copies
the image and starts it, with the driver's `Stop` and `Start` and a poll after each (`StopForIso`,
`CopyIso`, boot2docker.go:71-95 and rancheros.go:178-220); or it tells the guest to reboot and goes on at once (`RebootGuest`,
rancheros.go:172), and the guest goes down and comes up in its own time (`GuestDown`, `GuestUp`), which the platform does not
see. Then it restarts Docker (`RestartService`).
A request to shut down that only asks the guest (hyperv's `Stop-VM`, vcloudair's `vapp.Shutdown`, fusion's `vmrun stop`, digitalocean's
`Shutdown`) can be ignored.
Commands reach the guest as the external SSH client does. `PlatformAssumption` and
`AnswerAssumption` are the conditions on a driver's tables under which a success can be
believed: which of its requests are waited for, and which states of the platform look like one
that has been reached. `RestartAssumption` is the one for restart, of the drivers that do not return before
the reboot: on every way through its steps the driver forces the machine down and waits for that
(azure, exoscale, google, hyperv, vmwarefusion, vmwarevcloudair), or asks the guest and waits
until the machine does not look Running (virtualbox), or looks after a while and forces a machine that is still Running
(vmwarevsphere); or it does not support restart (none).

### Provisioners and Provision

`Provisioners` has for each of the fifteen provisioners which os-release it takes and the steps
of its `Provision`, of `ConfigureAuth`, of the swarm set-up and of the package operations that
upgrade uses. `Provision` says what a step does to the guest: which files and units are
there, what systemd has read, what the running daemon has loaded. A command can be cut
off at any step, a connection can be lost, the CA can be renewed meanwhile, and a socket can
activate the daemon between stop and start; the next command begins with what is
left. What the two SSH clients answer when they cannot connect differs, and is modelled
(`OutputLost`). A RancherOS guest that was told to reboot (`boot`) goes down and comes up later (`GuestDown`, `GuestUp`), during the command
that told it, between commands or during the next one; whoever needs it meanwhile fails, or, with
the native client, believes that it succeeded. `rebooted` says that the guest was down at some time of this command. `OrderAssumption` is what all programs have in common, whatever the
distribution: `ConfigureAuth` comes whole and last among the steps that touch
certificates, or (an upgrade) the daemon is asked for its version and restarted with the
files it has. `ReadyAssumption` (`Ready`) says for each step of a program which earlier one makes
it possible: a command that starts or stops Docker has installed it, a file is copied into a
directory that the program has made, a daemon that is asked has been started with whole files.
`RebootAssumption` says that only RancherOS is rebooted, in an upgrade, which then restarts Docker.
`ReleasesAssumption` says that an operating system derived from Arch or CoreOS
does not bear the name of another distribution.

### Certs and ISOCache

Both are files that all commands share without a lock, at the level of system calls, with two
processes. `Certs` has the four files of `BootstrapCertificates`, the copy to the machine's
directory, the signing of the server's certificate and the upload; a certificate is
a number with the number of its signer, and certificates become outdated in the order they
were issued. `ISOCache` has `UpdateISOCache` with the making of the cache directory, which fails for the second of two runs, `isLatest`,
`DownloadISO` through a temporary file, and the copy to the machine; an image is the number of a release, `Torn` or
`Absent`. `crossed`, `hit`, `harmed`, `renewed` and `poisoned` record what disturbed a run: the
properties are about runs that were not disturbed in the way that the code cannot handle.

## Runs

Passing runs, with the bounds and why they are enough:

* **plugin** (`PluginAll.cfg`, 25 000 states, `FairSpec`). Two drivers and all fault
  kinds. Two is what it takes for one driver's failure to hit another: `Close` goes
  through them in order, and a third would only repeat the second. No channel operation of
  `Close` blocks or panics for drivers that were loaded and whose plugin is up
  (`CloseSafe`: `stopCh` always has its receiver, `heartbeatDoneCh` is open and has one), and
  no registered plugin is left serving (`CleanCloseStopsPlugins`). Every command ends unless
  it waits in `close()` for a heartbeat goroutine that was never started or that waits for
  itself (`CommandTerminates`), and all plugins end after their client, also those whose
  address came too late (`PluginsReaped`).
* **heartbeat** (`Heartbeat.cfg`, 149 states). The code's constants in seconds, with
  delays of up to 2 s: a live client's plugin never exits (`NoSpuriousExit`), a dead
  one's exits within 12 s (`ReapedInTime`). The proof covers all other values.
* **store** (`Store.cfg`, 747 000 states). Two processes, one old and two current
  configs, four settings: one command after another with deaths, removals and failing
  writes; the same without deaths; two at once with everything; two at once
  undisturbed. Two current configs tell a stale one from a fresh one, and the tail of
  one left in the other is `corrupt`. One command after another: the last copy of a
  config is never lost (`NeverLost`), what was saved is what is read (`ReadYourWrites`), the
  bytes of a migrated config survive (`OriginalKept`), and the files behave like one
  cell (`ImplementsHostStore`). At once: processes that load and save an existing machine
  never leave it missing or empty, and two of them leave a whole config
  (`QuiescentReadable`).
* **ec2** (`EC2All.cfg`, 129 000 states). Two instance ids and two key pairs, so that a
  second machine is created after the first was removed or lost, and a stale id or key
  of the first could be used for it; all flags; all faults, and separately those that
  lose nothing. The user's own key pair is never deleted (`UserKeyKept`); rm without
  `--force` drops a record only when the instance is not there any more
  (`RecordDroppedSafely`); when saves, cleanup and processes do not fail, and with
  neither `--force` nor spot instances, the record names every instance there is
  (`InstancesRecorded`).
* **list** (`ListAll.cfg`, 93 000 states, `LsFairSpec`). Three hosts, two of them behind
  the lock, two that may hang, one both: the smallest number with two calls competing
  for the lock beside one that does not need it. Calls behind the lock never overlap
  (`OneSerialCall`), the channel is closed after the last send (`ClosedAfterAll`), every
  host is in the table, in order (`EveryHostListed`, with the exception of names that differ
  in case only), and `ls` ends unless a call that holds the lock hangs
  (`EndsUnlessLockHeld`).
* **drivers** (`Drivers.cfg`, 702 000 states). The fourteen drivers besides amazonec2 with all
  their flags, two creates and any number of rm, and two faults: two creates so that ids
  of the first could be taken for the second's; one fault to fail and one to hit the
  cleanup or the next command. The record has every id that can be found in no other way
  (`RecordKnows`), after an rm nothing is left (`RemovedIsGone`), an rm that meets no
  failure succeeds whatever happened before (`RmConverges`), nothing of another owner is deleted (`ForeignKept`) and nothing that
  another machine uses, even if it began to after the driver looked (`SharedKept`), and a create that succeeded has made
  a machine that its record leads to (`CreatedExists`), all but for the exceptions listed in
  `Drivers`.
* **power** (`Hosts.cfg`, 397 000 states, weak fairness). Seven commands, every driver alone and
  two pairs: of a driver that refuses everything with one that obeys, and of one whose
  restart does not wait with one whose lookups fail silently. Two polls are enough for one
  that sees a state from before and one that gives up; two faults for both lookups of a
  restart. A success means the state (`OkMeansState`), after an upgrade too, but for a guest that is still coming up
  from the reboot that nobody waits for; a restart that
  succeeded has rebooted the machine, but for six drivers whose request returns first
  (`RestartReboots`, `KnownEager`); all are saved or none (`AllOrNoneSaved`); the command ends
  unless one of three drivers polls for ever (`CommandEnds`, `KnownHangs`).
* **provision** (`Provision.cfg`, 605 000 states). Twelve operating systems, one for
  every provisioner with a `Provision` of its own and some that come near two; three
  commands and one fault: create, one that is cut off, one that must cope. A success means a
  daemon that serves with the certificates it was given, unless a reboot fell into the command or is not over (`OkMeansServed`); a command
  that meets no failure fails only for one of the listed reasons, such a reboot among them (`RetryConverges`, with `WaitsFirst` and
  `NeedsFirst`); a daemon is stopped only when its new certificate is there
  (`NoIdleOutage`); and a machine keeps its provisioner (`SameProvisioner`).
* **certs** (`Certs.cfg`, 3.0 million states, symmetric processes). Three commands, one
  fault, two expirations, so that the CA and the client's certificate can expire together
  or alone and a third command meets what two have left. Unless a command was hurt between a certificate and its key, or one
  wrote while another ran (`harmed`), certificates and keys match
  (`PairsMatch`), the next undisturbed run succeeds (`BootstrapConverges`), the client's
  certificate is signed by the CA or by an outdated one (`ClientSigned`), and a machine gets the CA
  that signed its server's certificate (`ServerTrusted`).
* **iso** (`ISOCache.cfg`, 4.6 million states, symmetric processes). Four runs, three releases, two
  faults: two runs at once, one after them that must repair the cache and one that uses
  it. No partial image is ever used (`WholeImage`), and an undisturbed run succeeds with
  the newest release (`CacheHeals`).

Runs that show the code doing something else than it says:

* **plugin_warned**: a plugin crashes; the heartbeat goroutine announces that the
  process is exiting and calls `close()`, which sends on a channel that only this
  goroutine receives from. The process does not exit, and `Close` hangs too.
* **provision_native**: the native SSH client reports a command that it could not send as a
  success. If that is the command that stops Docker, provision succeeds and the daemon goes
  on with its old certificate.

CHECK_DEADLOCK is off where the system may stop: the client's processes end (list, power),
the ids, commands or faults are used up (ec2, drivers, provision, certs, iso), or
the command blocks (plugin, in the state `CloseStuck`).

## Fairness

`PluginRPC`: weak fairness of the main goroutine, of each heartbeat and Serve goroutine
and of each plugin: a goroutine or process that can run does run, a timer that is set
expires, a call to a process that is up returns. Strong fairness of `SendDone` only:
the heartbeat goroutine leaves its `select` for each call, so the send is enabled again
and again rather than always; each time the goroutine comes back, the sender is waiting
already and the new timer is not due, so the runtime has only that case to choose. `PluginCrashes`
has no fairness: nothing has to fail.

`ListHosts`: weak fairness of each goroutine's steps, strong fairness of taking the lock,
since the lock comes and goes: a Go mutex in starvation mode is handed to the goroutine
that has waited longest. `Hang` is not fair, and a call that hung has no step left.

`HostActions`: weak fairness of `Progress`, which is the goroutines, the main goroutine and
the platform's work on a request. What others do, what guests ignore and what fails is not part of
it.

The other modules check safety only.

## Theorems

All for every value of the constants that satisfies the named assumptions, in eight modules.

* `PluginProofs`, about `PluginRPC`: for any set of drivers, finite or not, and any faults.
  `TypeCorrect`; then one inductive invariant `IInv` for `StopNeverBlocks`, `ClosedOnce`,
  `HeartbeatStopped` and `CleanClose`. None of these is inductive alone: that a channel
  is open when `Close` comes to it needs that no driver is registered twice
  (`RegisteredOnce`) and that exactly the drivers before the loop index are closed
  (`CloseProgress`); that `stopCh` has a receiver needs that a Serve goroutine which
  delivered an address stays in its loop until it is stopped (`ServeInLoop`), so that a
  crash of the plugin does not matter; that no plugin is left needs what closing did to
  each process so far (`ClosedProcess`). `DoneNeverBlocks` adds `BeatInv`: a loaded driver
  has a heartbeat goroutine, and this gives up only on a plugin that has exited. `CloseIsSafe`
  puts the three about channels together.
* `PluginProofs`, about `Heartbeat`: `LiveClientKeepsPlugin` and `OrphanReaped` under
  `HeartbeatAssumption`. The invariant `Clocks` bounds the plugin's clock by the client's
  phase and the age of the message on the wire, because the two timers start at
  different moments.
* `PluginProofs`, about `ListHosts`: for any finite set of hosts, any of them behind the lock and any
  of them hanging. `SerialCalls`, `NoSendAfterClose`, `TableComplete`, `LsTypeCorrect`. The
  invariant `Collected` relates the list of items to the goroutines: an item for each that has sent,
  no two for one, and as many as there are such goroutines; as many items as hosts therefore
  means that all have sent. That every host has a row needs the contract of the sort and that a set of
  places has a last one (`LastPlace`, by well-foundedness of the naturals).
* `FilestoreProofs`: for any set of processes and configs. `TypeCorrect` and
  `TempFilesCleaned` hold in every setting (`TempInv`: what is written is a whole config,
  and the temporary file exists exactly between its creation and its rename). For settings with one
  command at a time and renames that succeed, `SerialInv` says what the target and
  the temporary file hold at each step of a save. From it follow `ConfigSurvives` (a copy of
  some config survives every step), `LoadFindsSaved` (with `AckInv`: `config.json` is what was
  last acknowledged except while a save replaces it), `MigrationKeepsOriginal` (with `OrigInv`: the
  old bytes are in `config.json` until they are in the backup) and `FilesImplementCell`: the
  specification implements `HostStore` under the mapping of the files to the cell. The
  refinement is proved system call by system call: `mkdir` reserves the name, the `unlink` of the old file
  or the `write` of a new one is the step that puts the config, the steps of `os.RemoveAll` are those of
  the removal, everything else is a stutter; `DirInv` (a file exists only in an existing
  directory, which only a removal takes away) is what makes it so. `ConcurrentSavesReadable` is about processes at
  once: `SharedInv` for any number (a missing file is about to be renamed into place, a
  truncated one about to be written), `PairInv` for two (only one of them writes the file in
  place).
* `EC2MachineProofs`: for any sets of instances, key pairs and faults. `UserKeySafe` by
  `KeyInv`: a machine whose flags name no key pair was not launched with the user's, in
  memory, in EC2 and in the record. `DroppedSafely`, an action property, by `DropInv`:
  `Remove` works on the recorded instance, and without an error it is gone. `AllRecorded`
  by `RecInv`: without a loss, an instance is in the record or in the memory of the create
  that made it, which will save it or terminate it.
* `ISOCacheProofs`: for any processes and bounds. `NoPartialDownload` (`WholeImage`), `Heals`
  (`CacheHeals`), `TempRemoved` and `NoNeedlessFetch`. The invariant has for each process what
  its temporary file and the file it copies hold at each step (`TempInv`, `WholeInv`), and
  for an undisturbed one what the cache holds, which nobody else has touched since it began
  (`QuietInv`); this rests on `Marked`: of two processes that run, each knows that it is crossed.
* `CertsProofs`: for any processes and bounds. `KeysMatch`, `Converges`, `SignedByCA`,
  `TrustedByMachine` and `CurrentStays`. `Paired` is the core: while nothing harmed the
  files, a certificate and its key match unless a process is between the two writes, and it is
  the only one; `Signed` is the same for the signature, `View` what a process has read that
  still is so, `Trust` the two reads of the CA, `Quiet` that an undisturbed command is on no path to
  an error.
* `DriverLifeProofs`: for every table of drivers that satisfies the assumptions, any bounds, and so
  for drivers that are not written yet. `TypeCorrect`; `RecordedFirst` (the record is on disk
  before the first resource is made); `SharedSafe`: a driver that looks before it deletes what is shared
  deletes nothing in use, and of what came into use since only the kinds of `MayRace`; the invariant `CheckedInv` says that
  between the look and the deletion it is used by nobody but those who came late, which the platform sees. `ForeignSafe`: what was there before
  is never deleted, because (one of three, for each kind) no step deletes it, or `PreCreateCheck` does not get
  past its check while it is there, or the driver deletes by an id and cannot have learnt this
  one. `CreateMakesMachine`: where `Create` is past the step that makes the machine, there is one, and past
  the one that learns the id, the driver has it. `GatePassed` is the lemma both rest on: no step
  of a method jumps over a gate, and the only way past it is its success. `RemovalConverges` (`RmConverges`): in an rm that
  nothing has disturbed yet, what the steps behind the program counter have deleted is gone, what they have found is
  there, and the ids they have asked for are known (`Progress`); so each step that the condition covers succeeds (or, in a driver of `MayPanic`, has no id in the record either),
  or what it is about, by id or by name, is gone from the record's point of view too, because an rm forgets an id only
  when it has deleted what it stands for (`RmInv`). `RecordComplete` (`RecordKnows`) and `RemovalComplete` (`RemovedIsGone`)
  share one invariant, `LeftInv`, because each command starts from what the last one has left: `Create` has the ids of what it
  has made (`CreateKnows`), the `Remove` that it calls and the one of rm have them until the step that deletes it
  (`UndoKnows`, `RmKnows`), and without a record nothing is left but exceptions (`Gone`). That an exception needs a
  failure is the harder half: a life without one has to be followed exactly, from `Create`, where all that stands has been made by
  this create (`Built`), to `Remove`, which finds all of it (`Whole`). It rests on three more facts: what `Remove` has
  deleted does not come back (`DeletedInv`), the number of a create is new (`NumInv`), and what needs a machine is there only
  if the machine is (`BasedInv`).
* `HostActionsProofs`: for any drivers whose tables satisfy the assumptions and any number of hosts,
  polls and faults. `TypeCorrect`; `SavedTogether` (`AllOrNoneSaved`): `Goroutines` says which answers can
  have been collected, `Saving` what has been saved when. `AnswersTrue` (`OkMeansState`) by
  `AnswerInv`: what the platform shows and what it works on belong together (`PlatformInv`); at
  each stage of a start, what may still be under way, and that it does not look like Running
  (`StartInv`); the same for stop and kill (`StopInv`). An upgrade that replaces the image is both, one after the other: its stop
  and its start satisfy the same invariants; what it needs besides is that only the guest's own reboot can be under way when it answers. An invariant about the last stage only would not
  do: what a poll believes depends on every request that was sent before it. `RestartsTrue` (`RestartReboots`)
  by `RestartInv`: what is known of the machine at each step of the driver's Restart (`Place`).
  Until the gate of `RestartAssumption` a machine that is only waited for looks like what it is (`Waiting`); right after
  it was told to go down it may still be up (`Told`), which is why the state alone shows nothing;
  past the gate it has come up again, or is off and will when it is switched on (`Down`).
* `ProvisionProofs`: for any systems, any number of commands and failures. `ProvisionTyped`;
  `SuccessServes` (`OkMeansServed`), `ServesUntilSigned` (`NoIdleOutage`, an action
  property) and `OneProvisioner` (`SameProvisioner`, an action property). The invariant: the guest's files are never newer
  than the store's, the daemon's never newer than the guest's, and a daemon with the newest
  certificate has whole files (`Good`); until `ConfigureAuth` has signed, the store's certificate is of an earlier
  command (`Unserved`); and in a command that nothing disturbs, each step of `ConfigureAuth`
  that is behind the program counter has done its work (`Auth`), whatever the steps before it
  and the commands before this one have left. An upgrade that reboots the guest is a case of its own (`Restarted`): the daemon comes up
  with the files that were there; that they are of this CA is known since the version was asked, and whether they are whole is what the restart shows. `OneProvisioner` rests on the lemma
  `OneCompatible`: no two provisioners accept the same os-release. `RetriesConverge` (`RetryConverges`): in an
  undisturbed command that found none of the listed obstacles (`Able`), what the steps behind
  the program counter have brought about is still so (`Prepared`, which says with `Since` which step did it and
  which could have undone it), and by `ReadyAssumption` that is all that the next step needs (`StepReady`), as long as the guest has not gone down for a reboot. It also
  rests on what no command can destroy (`Lasting`): a daemon runs only on a machine that is on and has
  the directory of the certificates, and an image keeps its Docker. TLC found a case that the property had
  excused too widely: a machine without Docker is not one whose Docker is down, and must succeed.

Assumptions on constants that describe the drivers and the provisioners are not taken on trust: the runs
have the real tables as constants, and TLC evaluates each assumption on them.

Only model-checked, and why: liveness (`PluginsReaped`, `CommandTerminates`, `EndsUnlessLockHeld`, `CommandEnds`), which is out of the
prover's reach. Every invariant and every action property that a run checks is a theorem.

## What the models showed

Behaviour that the models contain and that a reader of a passing run should know of. Most of it is
one of the named exceptions.

Plugins and store. When `SetConfigRaw` fails and `ls` goes on, `Close` dereferences the
nil plugin of the registered driver. A plugin of another API version is registered without a
heartbeat goroutine, and `Close` hangs (a state of `CloseStuck`). `trapPanic` panics itself on a
panic value that is not an error. A failing rename loses the only copy of a config, because
the deferred `Remove` deletes the temporary file after the old file was unlinked
(why `Careful` excludes it). Two creates of one name at once may leave a `corrupt` config, and so may three
commands on an existing machine: while the first is between `unlink` and `rename`, the other two find no
file, and both open and write the one that the first then puts there. (The proof of `QuiescentReadable` failed
for more than two processes; TLC with three showed why.) A command
that saves at its end brings back a machine that another has removed.

ls. A virtualbox driver that hangs in `GetURL` holds the lock, and the timeout branch waits for the
same lock to ask for the driver's name: `ls` never ends. Of two machines whose names differ in case only,
one is shown twice.

Power. `MachineInState` (drivers.go:86) takes a failed lookup for "not in this state", so that a restart with two
failed lookups does nothing and may succeed; google, fusion and generic read a failed lookup
as Stopped; Exoscale shows a stopping machine as Running, google as Stopped. Restart of a machine
on its way up or down does nothing but wait for Docker (host.go:150). hyperv.go:313 and 330,
virtualbox.go:628 and vsphere.go:187 poll for ever. When one host fails, nothing is saved, not even
an address that a driver has learnt. An upgrade of RancherOS may report success before the guest has gone down.

Drivers. A failed create leaves a key (digitalocean, openstack, rackspace, softlayer, exoscale,
amazonec2), a machine (exoscale, vmwarevcloudair, vmwarevsphere) or nothing. amazonec2: a slow spot request
ends `Create` in a nil dereference that skips the cleanup, and an rm of a forgotten instance
says that it removes the reference, and keeps it. azure: the disk stays if the machine is gone
already; an interface, an address, a security group or a disk that somebody else has under the machine's name is updated
and used, and deleted by rm (azureutil.go:183, azure.go:493); a storage account that another machine begins to use after
its containers were listed is deleted (azureutil.go:544); networks named with a resource group, and the resource group, are never deleted; `waitVMPowerState`
closes a channel while its goroutine may still send (azureutil.go:877, not in the model). openstack, rackspace,
exoscale, softlayer, hyperv, vmwarevsphere: rm fails for ever once the machine, or its
key, is gone. digitalocean: if the record has no id, because Create failed or died before it, rm panics for ever: godo refuses id 0
without a response, and the driver reads its status. openstack: a floating address is never released, and two creates can take the same one.
google: `--google-use-existing` and then rm deletes the user's instance; an existing disk
of the machine's name is attached, and deleted later. hyperv and virtualbox do not ask whether there is a machine of
the name, and rm of the failed create deletes it. exoscale.go:527 returns a nil error when a lookup
fails, and the create succeeds without a machine. vmwarevcloudair takes every error of a lookup for
absence. fusion: when `vmrun list` fails a running machine looks stopped, and rm deletes its directory.

Provisioning. After a provision that was cut off between stop and start, the next one waits for a daemon
that nobody starts on boot2docker, on Ubuntu with upstart, and on Debian and Ubuntu with systemd unless a socket
activates it (`WaitsFirst`). A certificate without its key makes every later provision fail except on
CoreOS, Fedora CoreOS and RancherOS (`NeedsFirst`). Swarm containers that exist make a second provision fail.
Arch and SUSE cannot purge an old engine, so that an upgrade of one always fails; after an upgrade that was
cut off behind the purge, no upgrade can ask the engine for its version. An image that was copied half cannot boot.
A socket that activates the daemon between stop and start leaves it with the old certificates. An undisturbed upgrade of
RancherOS can fail, because the restart of Docker is sent to a guest that is going down (host.go:243); with the native client it
succeeds. A provision that follows at once may fail for the same reason, or succeed with a daemon that the boot started
on the old certificates, between the stop and the start.

Certificates and images. A crash between a certificate and its key, a write error (they are ignored),
or two bootstraps at once leave files that no later run repairs (`harmed`). A CA that is renewed alone leaves a
client's certificate signed by the old one. A server's error page is cached as an image, and the
next run replaces it. Of two runs at once, one can fail (also because both make the cache directory) or get an older image.

## Not modelled

Each part that is left out is in `PROJECT.json` with the reason. In short:

* the bytes on the wire, in files and in certificates; formats, flags and messages; version comparison
  and the filters of `ls`, which are pure;
* commands that only read and print (`url`, `inspect`, `config`, `env`, ...), and `ssh`, `scp` and
  `mount`, which assemble a command line and run an external program;
* what a migration does to each field: a copy of fields. When it happens and what is saved around
  it is in `Filestore`;
* logging and crash reports, the program's entry, and the drivers `errdriver` and `fakedriver`;
* the clouds' own behaviour beyond what a driver can observe, and the content of their requests.

Abstractions to keep in mind: in `EC2Machine` a call fails before it takes effect (`DriverLife` has
lost answers); `EC2Machine` and `DriverLife` run one command on a machine at a time;
in `PluginRPC` what a command does with its drivers is one step that succeeds, fails or
panics; `HostActions` assumes the external SSH client, and its commands find a machine at rest or on its way down, not a guest
that is rebooting (`Provision` has that).

## Left to do

1. Two creates of one name, over `Filestore` and `DriverLife` together: which of the two machines
   the record names, and that the other is lost.
2. Migrations of versions 0 to 3 as operators, checked against a reference over small records.
