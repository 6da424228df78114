# lightpod in TLA+

Lightpod is a daemonless OCI container runtime: every verb (`create`, `start`,
`run`, `kill`, `delete`, `prune`, `ps`, `state`) is a process of its own. What
they share is a state directory, the cgroup tree and the containers' init
processes. This directory models the parts of it in which steps of several
processes meet, checks them with TLC and proves part of what is checked with
TLAPS.

    tlc -workers 2 -config MCHandshake.cfg MCHandshake         # one run
    tlapm HandshakeProofs.tla                                  # one module's proofs

`PROJECT.json` lists the components, the runs, which lines each definition
stands for (`map`), the hazards of the code with the properties aimed at them,
the findings and the theorems.

## The system

| Part | Code | State it keeps | Operations | Hard behaviour |
|---|---|---|---|---|
| Container creation and the init handshake | `pkg/runtime/container.go` (`Create`, `Start`), `init.go`, `sync.go` | config pipe, socket pair, FIFO, what has been set up | `Create`, `Start`; stage 1, re-exec, stage 2 | two processes in lock step over a socket; either may fail or be killed at any step; blocking opens and writes |
| Lifecycle: the verbs on one id | `container.go`, `cmd/lightpod/lifecycle.go`, `run.go` | the record's status and pid, FIFO, cgroup directory | create, start, run, kill, delete (`--force`), prune | any verb beside any other, each acting on a record it loaded earlier; verbs that are killed |
| State store | `pkg/state/store.go`, `pkg/version` | `state.json`, `state.json.tmp`, `.lock` | `Create`, `Save`, `Load`, `Delete`, `List` | flock for some writers only; write and rename; a crash between |
| Hooks | `pkg/runtime/hooks.go` | the hook's process and its output | `runHooks`, `runPoststopHooks` | order, first failure, timeout, children that outlive a hook |
| Cgroups | `pkg/runtime/cgroups.go` | the cgroup tree: directories, `subtree_control`, interface files, members | `NewCgroupManager`, `Apply`, `SetResources`, `Cleanup` | levels of the tree shared by containers that come and go; all-or-nothing writes; partial failure |
| Namespaces, id maps | `ns.go`, `privilege.go`, `setns_*.go` | the namespaces of init, its id maps | `cloneFlags`, `idMappings`, `writeIDMaps`, `joinNamespaces` | capabilities depend on when the maps are written; setns acts on one thread; helper programs for rootless maps |
| Root filesystem | `fs.go` | mounts, devices, the pivot | `prepareRootfs`, `finalizeRootfs`, `secureJoin` | order of mounts, masks and pivot; symbolic links |
| Credentials | `init.go` (`execUserProcess`), `pkg/security/capabilities.go` | uid, gid, groups, capabilities, limits, no_new_privs | the sequence before `execve` | each step may take away what the next one needs |
| Seccomp | `pkg/security/seccomp*.go` | a BPF program | compile, install | jump offsets; names an architecture does not have; a filter too long |
| Devices, GPU | `pkg/device`, `gpu.go` | the spec being edited | injection | the bundle edited behind the spec in memory; external NVIDIA tools |
| Run supervisor | `runtime/tty.go`, `Container.Run` | the channel, the forwarding goroutine, the child's status | forward, wait | signals before, during and after the forwarding; a goroutine beside the Wait that reaps |
| Bundle | `pkg/oci`, `cmdRun`, `loadContainer` | `config.json` | load, save, defaults, `ResolveRootfs` | written in place and read by others; a bundle that goes while its container lives |
| Command line, syscall tables, tests | `cmd/lightpod`, generated files, `test/` | none | | |

How they interact. `create` claims the id in the store, spawns init and talks to
it over a socket pair; while stage 1 waits it writes the id maps and puts init
into its cgroup; the host's hooks run in the middle of init's setup; init then
parks at a FIFO in the container's directory, and `create` saves the record and
ends. `start` loads the record, opens the FIFO and saves the record as running.
`kill` and `delete` act on the pid of the record they load. Nobody watches a
container: that it has ended is found out by the next `Load`.

What makes each part correct: a create yields a fully configured, parked
container or nothing; the user's command runs only after a start and under its
limits; one workload per id; no process without a record and no record removed
from under a live process; a record is read whole; commands end; limits that
were asked for are in force as long as the container runs; init is in the namespaces
its spec asks for and nowhere else; the sandbox says what the profile means; a
foreground run ends with its workload, passes on what it is sent and takes
everything with it; a teardown works whatever has become of the bundle.

## Modules

| Module | Extends or uses | Stands for |
|---|---|---|
| `CreateContract` | | what create and start promise: absent, creating, created once fully configured, running once released |
| `Handshake` | instance of `CreateContract` | `Container.Create`, both stages of init, `Container.Start`, message by message |
| `HandshakeProofs` | `Handshake` | its theorems |
| `Lifecycle` | | commands on one id, one step per access to what they share |
| `LifecycleProofs` | `Lifecycle` | its theorems |
| `Register` | | what the store promises for one id: an atomic cell |
| `Store` | instance of `Register` | the system calls of `Create`, `Save`, `Load`, `Delete` on one id's files |
| `StoreProofs` | `Store` | its theorems |
| `Cgroups` | | `CgroupManager` for several containers on one tree |
| `CgroupProofs` | `Cgroups` | its theorems |
| `ExecUser` | | `execUserProcess`: from the start to the user's command, credential by credential |
| `ExecUserProofs` | `ExecUser` | its theorems |
| `RootfsSetup` | | `prepareRootfs` and `finalizeRootfs` of several containers made from one directory |
| `Namespaces` | | what init is before its first mount: clone, id maps, stage 2, joins, hostname |
| `IsolationProofs` | `Namespaces`, `RootfsSetup` | theorems of both |
| `SeccompFilter` | | `CompileSeccomp`, the kernel's machine, and what a profile means |
| `Sandbox` | `ExecUser`, `SeccompFilter` | the user's command under its profile |
| `Bundles` | | where a spec comes from, where it is kept, and the handles made from it |
| `BundleProofs` | `Bundles` | its theorems |
| `Supervisor` | | the foreground of `run`: hooks, signals, waiting, the end |
| `SupervisorProofs` | `Supervisor` | its theorems |
| `MC...` | the module named | instances for TLC |

The modules zoom in on one another. `Lifecycle` takes a create's handshake as a
few steps (spawn, budget, await, save), which `Handshake` spells out for one
create; it takes a read or a write of the record as one step, which `Store`
spells out; `Handshake` takes the limits as one step, which `Cgroups` spells
out, the mounts and the pivot as one step each, which `RootfsSetup` spells out,
the id maps and the joins as one, which `Namespaces` spells out,
and everything from the start to the command as one, which `ExecUser` spells
out. `Lifecycle` has neither the bundle, which `Bundles` has, nor what `run` does
beside waiting, which `Supervisor` has. `Sandbox` composes `ExecUser` with
`SeccompFilter`: the profile is a further variable, and the step `ApplySeccomp`
fails exactly for what the compiler refuses. The others are not composed into one specification: the handshake alone has 15
variables. Each zoom is checked against what the coarser module assumes:
`Register` for the store, `CreateContract` for the handshake, `LimitsHold` for
the step "limits", `Confined` for the last one. `ExecUser` begins with a thread
that has every capability in its user namespace (`Root`) and a setgroups that is
permitted or not (`host.setgroups`): that is `caps` and `~denied` at the end of
`Namespaces`, and `AsAskedOrRefused` says that init is root there. `RootfsSetup`
begins with the host's mounts shared and a mount namespace of the container's
own, the condition under which `Namespaces` keeps the host's from being made
private.

### Handshake

`cpc`, `ipc` and `spc` are where `Create`, init and `Start` are; a location is
named after the call it is about to make. `toInit` and `toCreator` are the two
directions of the socket pair (`sync.go`), `written` and `drained` the config
pipe in units of which `PipeCap` fit. `maps`, `cgroup`, `rootfs` and `hooksRun`
say what has been set up, `record` and `fifo` what is on disk. An action is one
step of the code with its error return; `OnError` is what the deferred calls of
`Create` do, last in first out. The creator holds its own copy of the child's
end of the socket until it returns (`defer childSock.Close()`), so it never
reads end-of-file (`CreatorEndOpen`); init holds no copy of the creator's and
does. The mounts, masks and devices inside `PrepareRootfs` and `FinalizeRootfs`
are one step each: the processes of this handshake do not see them come about.

### Lifecycle

Each process of `Procs` is one issued command. `loc[p]` is the record it has
loaded and acts on, however stale; `rec` is what the file holds. `init[q]` is
the init process made by creator `q`, which also serves as its pid (pids are
not reused). `Load` reconciles: a created or running record whose process is
gone reads as stopped. A command may be killed between any two steps; what it
held is then left as it is. `caller` is how the id is used in a behaviour: which
commands are issued, whether one at a time, and which faults may happen.

### Store

Files are inodes named after the process that creates them, so that a process
which has a file open goes on using it after a rename or an unlink. Contents are
a whole record, `Empty` or `Torn` (the rest of a longer record behind a shorter
one). `Create` and `Delete` run under the flock, `Save` does not; the kernel
drops the flock of a killed process. `SavesAlone` says that callers keep a save
apart from other changes. `List` is a `Load` per id and adds nothing for one id;
`ValidateID` keeps ids from touching each other's files and is left out.

### Cgroups

A cgroup is a path, a sequence of names below `Root` (the hierarchy's root, or
the user's delegated subtree). `enableControllers` is one step per level,
`SetResources` one per file. The rules of the kernel are external: a controller
can be enabled where it is available and no process is, a write of several is
all or nothing, a cgroup with enabled controllers takes no process, and rmdir
refuses a cgroup with processes or children. `Hosts` stands for what
`cgroup2Mountpoint` and `delegatedRoot` find. Left out: `--cgroup=none`, which does
nothing.

### ExecUser

`pc` is the next step of `execUserProcess`, `cred[t]` what the kernel holds for
thread `t` of init, `on` the thread the goroutine is on. It begins with the
credentials that stage 2 has (`Root`). What a step does to the credentials, and
whether it is let, are the kernel's rules: `AfterSetuid`, `MayCapset`,
`AfterExec`. `todo` is what a loop over capabilities has yet to do; in which
order it goes through them makes no difference. setgroups, setgid and setuid of
Go's syscall package change every thread, prctl and capset only one, and
nothing in the code calls `runtime.LockOSThread`: `Migrate` is the Go scheduler,
`MovesAt` the steps before which it may act. In the code these are all steps.
With all of them `Confined` fails (see the known counterexamples), so that the
run, and the theorem, look at a goroutine that moves only before it changes a
credential; they show that the order of the steps is right, and the
counterexample shows what the missing lock costs.

### RootfsSetup

A mount namespace is the sequence of its mounts, from the container's root on,
and a path leads to the last mount at it or above it (`Covering`). A mount is of
the rootfs directory, a tmpfs, a procfs, something of the host, a device or a
mask; what it contains decides what `Stat` says of a path (`Kind`). `disk` is the
directory on the host, which several inits may share (`run --rootfs`), `tmp` the
files in a container's own tmpfs mounts, and in the host's directories that it
binds, which are taken to be empty and to be shared with nobody. A file can be
made on these unless they are mounted read-only (`TakesFiles`), so that a mount
point, a device or a link that is missing elsewhere fails the setup. A mount that is taken down stays in the
sequence as `Detached`, at a place no path leads to, so that the others keep their
places. The module is to be extended together with `Namespaces`, so that it says
`RootfsInit`, `RootfsNext`, `Places` or `machine` for what others call `Init`, `Next`,
`Paths` or `host`. `peer` says how the namespace's mounts
are tied to the host's. A directory whose mount is `unbindable` is private too, and
refuses the bind of a read-only path that lies on that mount (`Bindable`);
`runbindable`, which marks the mounts in the directory as well, is left out. A
sysctl whose key is missing is refused by a procfs and becomes a file of
that name in a plain directory, as `os.WriteFile` does it. The paths are ten that differ in what the code does with
them: one device stands for the list of devices, one link for `devSymlinks`, one
key for the sysctls, `/proc/kcore` for the masked paths. They are as `secureJoin`
returns them: symbolic links are not modelled. A step is the body of a loop, or
a part of a function up to the next system call at which another container's
steps can make a difference. The host's hooks, which run between `Prepared` and
`MakeOldroot`, are left out here; `Handshake` has them.

### Namespaces

Creator and init alternate here, so that one `pc` is enough. `in[t]` says in
which namespace of each kind thread `t` of init is: the host's, one of its own,
or one that is known by a path. `caps` is whether init has the capabilities of
root in its user namespace; the exec of stage 1 takes them from an init whose
ids are not mapped, and the exec of stage 2 gives them back if the map makes it
uid 0. A map is a sequence of ranges; ids are small numbers. `SubIDRange`,
`DefaultMap` and `IDMappings` are the functions of `ns.go`. What the kernel and
the helpers newuidmap and newgidmap let pass (`Writable`, `Authorised`,
`MaySetns`) is external. setns is a system call of one thread, and `Migrate` is
the Go scheduler, as in `ExecUser`. A spec may list a kind twice, which nothing
in the code refuses: what it then asks for is not defined, so that the property
speaks of lists without such kinds (`Unambiguous`). A spec is `Sound` with the
default map only if the caller's line in /etc/subuid leaves the caller's own id
out; the kernel refuses a map that has it twice, and init with it.

### SeccompFilter and Sandbox

`Program` translates a profile instruction by instruction, `Run` interprets a
program for one call, and `Meaning` is what the profile says of a call without
looking at a program: another ABI is fatal, else the first rule that names the
call decides, else the default. An allowlist is a sequence of rules, a verdict a
record of the action and the 16 bits beside it. `Run` answers "invalid" for a
program that runs past its end: `Accs` is the accumulator before each
instruction (only a load sets it), `Verdicts` the answer from each instruction
on, computed from the end, since jumps go forward. The table of numbers is a
constant, so that names which an architecture lacks are among the inputs. `Sandbox` asks for the
match where it counts: in the state in which the user's command runs, of the
filter its thread has.

### Bundles

A spec is abstracted to the set of command lines whose flags it carries.
`file[b]` is `config.json` of the bundle given or of the one generated inside the
container's directory: missing, empty (truncated by a writer), mixed (two
writers) or whole. `resolveBundle` and `applyGPU` are a step per access to the
file, and come before the claim; the handshake is one step (`Setup`). A later
command loads the record, then the spec of the recorded bundle; any error makes
an `adopted` handle without a spec, while a missing root filesystem makes `New`
fail. `RemoveDir` takes the generated bundle with the record. `bundleGone` and
`rootfsGone` are what the owner of the files may do meanwhile.

### Supervisor

`pc` goes through `Container.Run` and the rest of `cmdRun`; `forward` is the
goroutine of `forwardSignals`, `pending` what the kernel holds for the process
and `channel` what the Go runtime's signal loop has passed on. A hook runs, ends
well or not, and may leave a child that holds its output: `cmd.Run` returns only
when the process is gone and the output closed. `world` says which hooks there
are, whether they have timeouts, hang or leave children, and which signals the
workload handles. `reaped` is what `os.Process` knows of its child; a signal
after it is not sent. The exit code is `status % 256`, as os.Exit hands it to the
kernel.

## Runs

The passing runs take from a second to a minute and a half each on two cores.

| Run | Bounds | What it shows |
|---|---|---|
| `handshake` | config of 2 units, pipe of 2, two prestart hooks and one of each other kind; every fault | lock step, hook order and window, clean failure; implements `CreateContract`; create and start come back where init was not lost, an orphaned init stops |
| `lifecycle` | three callers: two creates, two starts and a kill racing; two runs, a create and a kill racing; two creates, start, delete, forced delete and prune one at a time, each of which may fail or be killed | one workload, a created container is startable, no process without a record, a run's end removes only its own, nothing is left behind, no late save brings a record back, and the serial commands end |
| `store_shared` | two creates, a save, a load, two deletes; crashes | the files are an atomic register |
| `cgroups` | five containers: two of one id, one beside, one below, one that names the root; four hosts; killed creates, lingering processes | limits in force while running, the root untouched, refusals only for a cause, failed creates leave no cgroup |
| `exec_user` | 6,560 combinations of spec and host: five users, capability sets that fit together and that do not; two threads, the goroutine moves only before it changes a credential; those of 4,218 profiles of up to two rules that compile with the default spec, 20 calls | the command has the spec's user, sets, limits, no_new_privs and filter, each of its calls the verdict of its profile; refusals only for a cause |
| `rootfs` | two containers from one directory, 20 specs beside two, four hosts, an empty and a used directory; either may be killed | no mount and no sysctl reaches the host, masks and read-only paths hold when setup is done, devices are there, refusals only for a cause |
| `bundles` | four callers: a run, a create and a delete with generated bundles; create, start, kill and forced delete while bundle and rootfs go; GPU runs on a given bundle; a GPU run and a create on generated ones | a container runs with its own flags, generated bundles go with their container, a teardown needs no bundle |
| `supervisor` | TERM (fatal) and USR1 (harmless), each sent up to twice; a channel of two; four worlds of hooks and workloads | nothing is left by a run that ends, an orphan is recorded, no signal is doubled or misdirected, hooks and handled signals take effect |
| `namespaces` | 15 lists of namespaces, six maps of ids and of groups, with and without hostname; root and users with five kinds of /etc/subuid and /etc/subgid, with helpers and without | init comes to mount where an unambiguous spec says, as root there and with the caller's ids only, or is refused; sound specs are not refused |
| `handshake_init_dies`, `exec_other_user`, `bundles_adopted` | the smallest that shows it | a comment of the code that the code does not live up to, see below |

Why the bounds are enough to meet the interesting cases. Handshake: one unit of
config would never leave the pipe half written; with two prestart hooks the
second can fail after the first has run. Lifecycle: the races in question are
between two commands of a kind, or one command and a creator of a second
container under the same id, so two creators and one or two of each other verb
are what it takes; each fault adds what is left over by a command before. Store:
two deletes, two creates and a load meet in every order, a short record follows
a longer one (`MCSize`), and the file left by a killed writer is found by the
next. Cgroups: reuse of an id, a neighbour that shares a level and a container
inside another one's cgroup are the ways in which two containers can meet in
the tree. ExecUser: with and without uid 0, groups, an ambient set, each flag, so
that every step is both taken and left out; more threads than two add nothing,
as only the one the goroutine is on differs from the rest. RootfsSetup: what two
containers share is the directory, and a third adds no file that the second does
not; the specs have mounts over masks, masks over mounts, a bind of the host's
procfs, mounts in every order of /proc and /dev, a mount over the root itself, a
read-only file where a device goes, and each way to be refused.
Sandbox: a second rule is enough to contradict, repeat or follow the first, and
the limit of instructions is low enough for some profiles to exceed it.
Bundles: two writers of one file, a writer beside a delete and a reader beside
either are all the ways to meet there. Supervisor: a channel of two overflows
with three signals; a signal sent twice shows a doubled delivery; harmless and
fatal signals differ only before and after the forwarding. Namespaces: maps of
one range and two, of the caller's ids and of others', that overlap or not, and
an entry of each kind that the code or the kernel treats in its own way.

`CHECK_DEADLOCK FALSE` is in every configuration because the commands are
finitely many: once they have ended, and a parked init waits for a start nobody
issues, nothing is left to do. That commands do not get stuck is stated by the
liveness properties instead.

Fairness. `Handshake` and `Lifecycle` assume weak fairness of every process's
own steps, `Bundles` of a command that has been issued, and `Supervisor` of the
process, its goroutines, the signal loop, timers, and hooks unless the world has
hooks that hang: the kernel schedules a runnable process, a blocking call returns once
what it waits for is there, and a SIGKILL takes effect. No fairness is assumed
for faults, for the issue of a command, for signals, for the end of the user's
command, or for the choice of a step to fail. So a create that returns is one that no
fault was needed to free, and a run that waits for its workload may wait for
ever (`CommandsEnd` says so).

Mutants. The operators named `Mutant...` in the modules are not part of the
specifications. Each is the definition that follows it with a plausible bug (a
guard dropped, an error ignored, a step skipped), and `PROJECT.json` says which
property finds it; every property of a passing run is found violated by one.

## Where code and comments disagree

Listed as findings, each with a run that ends in the counterexample:

* `DeadInitNoticed` (`container.go:244`): an init that dies while the creator
  waits for it is not noticed, because the creator itself keeps the other end of
  the socket open. `create` hangs and keeps the id.
* `OtherUsersRun` (`capabilities.go:191`): the comments say that the capabilities
  survive the change of user and that the bounding set is dropped while
  CAP_SETPCAP is held. setuid clears the effective set, which the drop needs: a
  user other than root with any bounding set but the full one, the default
  included, is refused with EPERM.
* `StartNotMisreported` (`container.go:319`): the start of a container whose bundle
  is gone runs on an adopted handle; it releases the workload, saves it as
  running, and then dereferences the spec the handle does not have.

Known counterexamples that no listed run repeats. The properties are in the
modules; add one to a configuration with the constants given to see it:

* `spc = "opening" ~> spc = "done"` with every fault (Handshake; the second conjunct of
  `NobodyWaitsForever` without its exception): init dies after
  `Start` loaded its record, and the open of the FIFO waits for a writer that
  never comes (`container.go:306`). `StartsEnd` (Lifecycle, `{c1, s1, s2}`): the
  same with a second start in between.
* `RemovedWhenStopped` (Lifecycle) with `Callers <- MCTwoDeletes`: two deletes load one
  stopped container, the id is created again in between, and the second delete
  removes the record of the live container by name (`container.go:403`).
* `ReappearsByClaim` with `{c1, s1, f1}` (Lifecycle): a start that was woken saves
  its copy of the record after a forced delete, and the id is back
  (`store.go:98` takes no lock).
* `CreatedIsStartable` with `{c1, f1}`: a forced delete of a container in state
  creating kills nobody and removes the FIFO; create then saves a created
  container that no start can release.
* `KillHitsInit` with `{c1, k1}`: a record in state creating has pid 0, and the
  signal goes to the caller's own process group (`container.go:369`).
* `PruneTakesDeadRecords` with `{c1, p1}` and `{"commandDies"}`: a create that is
  killed leaves a creating record that no reconciliation touches and prune skips.
* `CreateReplacesNothing` (Store) with `Found = "newer"`: a create takes a record
  of a newer schema for a free id (`store.go:88`).
* `OnlyAsked` (Cgroups) with `{a1, a2}` and either fault: the cgroup of a killed
  create, or one that could not be removed, keeps its limits, and the next
  container under the id has limits its spec does not ask for.
* `ConfigHandedOver` (Handshake) with `ConfigSize = 3`, `PipeCap = 2`, no faults:
  the config is written before the creator answers stage 1, and read only by
  stage 2. A config longer than the pipe holds (64 KiB) blocks both
  (`container.go:209`).
* `ReadsWhole` (Store) with `Procs = {v1, v2, l1}`, `Found = "record"` and
  `SavesAlone = FALSE`: two saves share one temporary file, and one renames what
  the other is still writing (`store.go:113`).
* `LimitsHold` and `RefusedForCause` (Cgroups) with `{a2, b1}` and
  `CgroupsPath <- MCOnePath`: two specs may name one cgroup (`cgroups.go:54`). The limits
  of the second replace those of the first, which runs on without its own
  (`cgroups.go:339`); and a create that fails removes the directory that the other has
  made and is about to read, which is then refused (`cgroups.go:104`).
* `SwapHolds` (Cgroups) with `Asks <- MCAsksNoSwap`: memory and swap of 4 together
  with memory of 4 leaves 0 for swap, and 0 is written as "max"
  (`cgroups.go:358`).
* `Confined` (ExecUser) with `MovesAt <- MCAnywhere` and `Specs <- MCDefaultRoot`: the
  goroutine drops capabilities on one thread and calls execve on another, which
  has them all; or it sets no_new_privs on one and the filter is refused on
  another (`init.go:195`, `capabilities.go:191`).
* `NoInheritedGroups` (ExecUser): without `additionalGids` setgroups is not
  called, and a command of another user keeps the groups of the caller of
  lightpod (`init.go:279`).
* `SharingIsSafe` (RootfsSetup): the rmdir of `.oldroot` by one container takes
  the mount point from another that is about to pivot, which is then refused
  (`fs.go:484`).
* `DevicesAlwaysThere` (RootfsSetup): mknod takes EEXIST for success, so that the
  plain file which a rootless container leaves as a mount point is the device of
  the next one (`fs.go:330`), unless /dev is a mount of its own.
* `SlaveSeesHostMounts` (RootfsSetup) with `RootfsSpecs <- MCSlave`: everything is made
  private before the bind, and a private mount has no master to become a slave
  of, so that rslave, which an error message recommends (`fs.go:99`), does
  nothing (`fs.go:116`, `fs.go:132`).
* `ReadonlyBelow` (RootfsSetup) with `RootfsSpecs <- MCBelow`: MS_REC has no effect on a
  remount, and a mount below a read-only path stays writable (`fs.go:430`).
* `ProtectionHolds` (RootfsSetup) with `RootfsSpecs <- MCBeside`: a path to be masked or
  read-only that is not there yet is skipped (`fs.go:401`, `fs.go:424`), and another container
  made from the directory makes it; a spec's mount at `.oldroot` goes with the rmdir
  of another (`fs.go:484`). `ProtectionIsKept` is about the specs without such paths.
* `RealConfigOnDisk` (Bundles) with `Callers <- MCSharing`: a second run of a live id
  rewrites its `config.json` before it is refused (`run.go:172`, `load.go:42`), and the
  poststop hooks a later delete runs are the other's.
* `FlagsKept`, `GivenBundleKept` (Bundles) with `Callers <- MCEditing`: with `--bundle`
  the shim's spec replaces the one that had the flags of the command line
  (`gpu.go:44`); the hook mode saves the flags into the bundle it was given
  (`gpu.go:50`), which `load.go:25` says never happens.
* `TeardownNeedsNothing` (Bundles) with `Callers <- MCVanishing`: with the bundle there
  and the root filesystem gone, `New` fails and the container can be neither
  killed nor deleted (`lifecycle.go:273`).
* `RunLeavesNothing` (Supervisor): a run whose start fails returns without the
  delete, and its record stays (`container.go:334`, `run.go:114`).
* `TimeoutEndsHook` (Supervisor): the timeout kills the hook, but `cmd.Run` waits for
  the output that a child of it holds (`hooks.go:65`).
* `NoSignalDropped` (Supervisor): the runtime drops what the channel has no room for
  (`tty.go:22`). A signal forwarded before init's exec goes to lightpod's own
  init, which dies of it or ignores it, and never to the workload.
* `HostKeepsItsName` (Namespaces): setns is called with type 0, so that an entry of
  type uts whose file is of another kind leaves init in the host's UTS namespace,
  and the host is renamed (`ns.go:223`).
* `PidNamespaceJoined` (Namespaces): a pid namespace is joined for children only, and
  the workload is not one.
* `HostStaysShared` (Namespaces): a rootfull spec without a mount namespace has the
  host's own mounts made private (`fs.go:116`), and everything after it mounted
  on the host.
* `RangesForEveryone` (Namespaces): /etc/subgid is searched for the gid as if it were
  a user id (`ns.go:80`); a user whose gid is another number gets a range that
  newgidmap refuses, or none.
* `DeclaredMapRuns` (Namespaces): a map that root declares and that leaves root's own
  id out gives init no capabilities, and the first mount fails (`ns.go:65` says
  that to declare a mapping is what it takes).
* `BothMaps` (Namespaces): uid mappings without gid mappings are taken as they are
  (`ns.go:61`), and init has no group.
* `AsAskedOrRefused` (Namespaces) with `MovesAt = {"join", "hostname"}`: the goroutine is
  continued on a thread that has not joined (`ns.go:223`). Without `Unambiguous`, in
  the run as it is: of two network namespaces, one of them new, init is in the
  one it joined, though the spec asks for a new one too.
* `ErrnoKept` (Sandbox): an errno of more than 16 bits is cut (`seccomp.go:154`).
* A consequence of `enableControllers` that is no violation: it writes the root's
  whole set at every level, so where one of them cannot be had below a root with
  processes, the write fails as a whole and controllers that could be had stop
  there too. The create is refused, as its comment promises (`Offered`).

## Proofs

TLAPS checks every theorem and lemma, for every value of the constants that
satisfies the modules' named assumptions.

**HandshakeProofs** (for every config size, pipe capacity, number of hooks and
set of faults; assumptions: `SizesAssumption`, `HooksAssumption`,
`FaultsAssumption`). Every safety property of `handshake` is proved, three more that
`ImplementsContract` and `HooksInPlace` rest on (`BudgetBeforeSetup`, `HookWindow`,
`NoWorkloadBeforeStart`), and
that `Handshake` implements `CreateContract`. None is inductive: what init may do
depends on which message is under way and on where the creator is. `IInv` adds
to the types, for each location of init, where the creator may be and what the
channels hold (`Control`), and what has been done by then (`Identity`, `Hooks`,
`Disk`). From it one lemma per fact follows: lock step from `Control`, the budget
from `Identity`, and so on. The refinement maps each action to a step of the
contract or to a stutter; that `Publish` finds everything ready is `Identity`
and `Hooks` at location "save".

**LifecycleProofs** (any commands, callers and faults; assumptions:
`CommandAssumption`, `NoPidAssumption`). All of `lifecycle`'s safety, under `Orderly`:
each caller issues one command at a time, or no delete and no prune, and no start
beside a run, which deletes what it has run. Without it the theorems are false:
see `RemovedWhenStopped` above for two deletes; a start that saves its record
after a run has deleted it brings the record back. Crashes need no assumption.
The invariant says which command may be where (`Issued`) and beside which other
(`Turns`), what the record says while a command relies on it (`Recorded`: "creating"
under a create's setup, the loaded pid under a start, a dead init under a
removal), that a FIFO has the name of the init parked at it (`Fifos`), and, for
callers whose commands are not killed, who still has to clean up an init or a
cgroup (`Tidy`). The lemma `Company` turns `Orderly` and `Turns` into what every step
needs: nobody relies on a record beside a command that takes it away.

**StoreProofs** (any number of processes, record sizes and crashes). Under
`SavesAlone`: types and `ReadsWhole`. Under `SavesAlone` and no record of a newer
schema at the beginning (`Found # "newer"`): `DeleteSucceeds` and the refinement
of `Register`. The invariant says that whoever changes files is alone (`Alone`,
from the lock and `SavesAlone`), that the temporary file belongs to the one
writer (`Owned`), that a file once read or named is not written again
(`Settled`), and that what was found under the lock is still so (`Valid`).
Without `SavesAlone` the theorems are false, see `ReadsWhole` above.

**CgroupProofs** (all containers, ids, paths, resources and hosts; assumptions:
`HostsAssumption`, `ValuesAssumption`, `AsksAssumption`,
`LeafAssumption`). All safety of `cgroups`: types, `LimitsHold`, `RootUntouched`,
`RefusedForCause` and `FailureLeavesNoCgroup`. The invariant says that only a create
whose path lies below the root gets past `NewCgroupManager` (`BelowRoot`), that an
id has one create at a time (`OneAtATime`), that a container's processes are in its
own cgroup (`Joined`), and, the part that carries `LimitsHold`, that what
`SetResources` has been through is in the files and stays there (`Written`): the
containers that could write them are of the same id, or on other paths. This is
for a container whose cgroup no other id names (`OwnPath`): `containerCgroupPath` takes any
path below the root, and the files of a cgroup that two ids share are whoever's
wrote last. `Unrefused` follows a create of that kind to which nothing objects: the levels
above it pass on what it asks for, its own cgroup is free, and so each step
succeeds. The invariant itself has no hypothesis on the paths: what it says of one
container it says whoever else shares a cgroup. `OwnLimitsAreInForce` and
`OwnRefusalsHaveCauses` are the two properties for the containers with `OwnPath`, and
`LimitsAreInForce` and `RefusalsHaveCauses` for all of them under `OwnPaths`, that each is
of that kind, as those of the run are. Without it both are false, see the known
counterexample with `MCOnePath`. The other theorems hold for all paths.

**ExecUserProofs** (every spec, host, set of capabilities and number of threads;
assumptions: `CapsAssumption`, `SpecsAssumption`, `HostsAssumption`, and `MovesEarly`: the goroutine stays on its thread once it
changes a credential). All safety of `ExecUser`. `Confined` speaks of the moment of
the execve, so the
invariant has to say for every step before it which fields are set for good:
the user (`UserSet`, groups before gid before uid), the capabilities (`CapsSet`,
bounding before capset before ambient, with what each loop has still to do) and
no_new_privs and the filter (`LastSet`). Two lemmas say which fields the kernel's
rules for setuid and execve leave alone. `AmbientSurvives` and `RefusedForCause`
look the other way: `RInv` says which privileges a step leaves for those to come
(`Capable`), and that only the goroutine's thread has KEEPCAPS, between its two
prctls (`KeepsCaps`).

**ExecUserProofs**, of `SeccompFilter` and `Sandbox` (every profile, table of
numbers, build and call; assumptions: `BuildAssumption`, `CallsAssumption`,
`ProfilesOfAssumption`; the goroutine may be moved at any time):
`CompilerIsCorrect`, that the program compiled from a profile answers every call
as the profile means, and from it `FilterIsMeant`. A program is its header and one
block of two instructions per number of each rule, then the default. Each block
is shown by itself to return its rule's action or to pass the call on to its end
(`Blocks`), wherever it stands in the program (`ConcatAt`, `Flattened`); then the
first block that returns decides (`FirstDecides`), once for the numbers of a rule
and once for the rules of a profile, and the first is a least element of a set
of naturals (`Least`). What is inductive in it, the accumulator, the verdicts and
the flattening of a list of lists, is shown of recursive functions by one lemma
about sets (`Upward`), so that no theorem with an operator for a parameter is
needed. `Filtered` carries the result to the user's command: a spec with seccomp
that gets there has a profile that compiles, and every thread has its filter.

**BundleProofs** (all commands and callers; assumptions: `CommandAssumption`,
`NobodyAssumption`): types,
`BundleGoesAway` and `RunsAsAsked`. `RunsAsAsked` is about a spec in the memory of
a command that read it from a file others write, so the invariant follows the
flags from file to handle (`FlagsHeld`): what the given bundle carries was put there by
a command that edits bundles, and a partly written file carries nothing (`Written`).
`BundleGoesAway` needs to know who answers for a directory before there is a record
(`DirAccounted`): a creator on the way to its claim, or one that never gets there.

**IsolationProofs**, of `Namespaces` (all specs, callers, subordinate ids and namespace files;
assumptions: `PathsAssumption`, `SpecsAssumption`, `HostsAssumption`): types, wherever the goroutine is moved, and `AsAskedOrRefused`
under `MovesEarly`, the goroutine not being moved once it joins. The invariant has a part for each
thing that the first mount relies on: the maps that are written, and that they
are the caller's to use (`Mapped`), in which namespace of each kind init is after
so many entries of the list (`InPlace`), and the capabilities since stage 2
(`Privileged`), which are settled by the map because no join can change the user
namespace of a Go program. The lemmas below it say of the functions of `ns.go` what
they compute for every file: the first line of the caller, if it has one, is
found (`RangeFound`, from the existence of a least element), the default map has
exactly the caller and that range (`DefaultMapIs`), is well formed and makes
the caller root (`DefaultMapSound`) and is authorised (`DefaultMapAuthorised`).
The attempt to prove an earlier form of the property, which runs had not
contradicted, failed for good reasons: a kind listed twice, and a line of
/etc/subuid that holds the caller's own id, are now inputs of the run.

**IsolationProofs**, of `RootfsSetup` (any inits, specs, hosts and contents of the
directory; assumptions: `InitsAssumption`, `RootfsSpecsAssumption`,
`MachinesAssumption`, `DisksAssumption`): `RootfsTypeOK` and `HostUndisturbed`. Init is
in a copy of the host's mounts, so what is mounted before the copy is made
private comes up on the host; `Sealed` says that from then on it stays private,
through `SetPropagation` and whatever the host mounts. That a sysctl reaches the
host only for a spec that asks for it relates a list in the spec to the mounts
of the namespace some steps later: `Traced` says, of every step from the bind to
the sysctls, that the last mount on the way to the key is the last one of the
spec's that has been made, if any is on the way, else what the directory has
there; the mounts made in between (devices, what the host adds) are not on the
way. `Rooted` carries the types, the host's root among them, which is in the
namespace from the pivot to its detach. The attempt found an error of the model:
a file made in a tmpfs for a mount below it was taken out of the files at once,
which a spec with such a mount, now among the run's, would have shown.

`ProtectionHolds` is proved for specs that protect paths of their own
(`ProtectsItsOwn`): a spec does not name `.oldroot`, which is the runtime's, and beside
other inits the paths that it masks or protects are below mounts of its own. Beside
others both are needed, as the known counterexample `MCBeside` shows: the code skips a
path that it does not find (`fs.go:401`, `fs.go:424`), and what lies in the shared directory
another init may make a moment later; and a mount at `.oldroot` goes with the rmdir of
another. For an init that is alone in its directory only the first half is left, which
the proof uses and small runs do not need. No assumption says in which order mounts,
masks and read-only paths cover each other. Of the run's specs all but one
(`OwnDev` without a mount at /proc, and /proc to be read-only) are of this kind.

The argument is about the mount that a path leads to, the last of a sequence.
Being above is an order in which what is above one path is in a line
(`PrefixOrder`). From it follows what each of init's system calls does for every path:
a mount on top covers what is at its place and below and nothing else
(`AppendCovers`); after a recursive bind of a path onto itself, which is that mount
and copies of all that could be seen below, every path leads to what it led to
before or to the new mount, of the same file system, and the path itself to the
new one (`SelfBindCovers`); an unmount at `.oldroot` changes nothing elsewhere
(`DetachCovers`); and a remount leaves all places (`RemountCovers`). So a read-only bind
over a mask leaves the mask, and one over a path where nothing is makes nothing
appear (`SteadyIf`). The invariant, `Protected`, says of each of the three loops that
what it has dealt with so far is protected (`MasksLast`, `ReadonlyLast`, `MountsLast`),
and the root once it is remounted (`RootLast`). Alone this is not inductive, as files
come and go in the directory while an init is at work: `OwnLast` adds that below
its own mounts init never sees the directory again, which holds because a bind
of a path onto itself repeats the file system that was there, and a mount of the
spec's is never of the directory. `ProtectionInvariance` is this invariant without any
assumption, for each init whose spec is of that kind beside others whose specs
are not.

The attempt found errors of the model, which are corrected: the remount of the
root went to the first mount of the namespace and not to the last one at /, the
detach took every mount at `.oldroot` and not the host's root, the rmdir went to the
shared directory even if the root is a tmpfs, files were made on read-only
mounts and on the host's procfs, and the property asked a read-only file at
/dev/node to be there although a rootless init binds the device over it.

`DevicesThere` is proved for specs that leave their devices alone (`LeavesDevices`): of
the mounts of a tmpfs at /dev there is one that no later mount covers at or above the
device, and no mask does either. Without it the property is false: a spec may
mount something else over its /dev, or mask it, and then the code makes the
devices where nobody sees them. All of the run's specs are of this kind. The
invariant, `Equipped`, has two phases. Once that tmpfs is mounted, and until the devices
are made, a device's path leads to it and it has no file there (`BareDev`), so that
mknod or the bind finds nothing in its way; from then on the path leads to a device, in the
tmpfs or bound over it (`HasNode`). What has to be shown is that nothing after comes
between: a read-only bind at /dev repeats the tmpfs that was there, and one of
another path does not move the device's (the last part of `SelfBindCovers`), no
mount point is made below a device (`NodeIs`), and the rest of the setup, the
pivot, the detach and the remount of the root leave the places (`RemountIs`). `DevicesInvariance`
is this invariant without an assumption, for each init whose spec is of that
kind, whatever the others' specs are.

**SupervisorProofs** (all signals, sizes of the channel, bounds on the sending and
worlds of hooks and workloads; assumptions: `CapacityAssumption`,
`SendsAssumption`, `WorldsAssumption`): types, `EndsClean` and `ForwardsWhatCame`.
The invariant has two halves. `Where` says which places of the run, its init, its
hook and its forwarder go together: nobody but the run reaps, so an init that
was released is still to be reaped from notify to wait, and what comes after wait
finds it reaped. `Counted` is needed because `got[s] <= sent[s]` alone is not
inductive: it adds what is pending and what is in the channel, so that each
station takes from the one before it. It rests on three lemmas about counting in
a channel, the one on `Tail` by a bijection between the places before and after.

Only model-checked: liveness (`NobodyWaitsForever`, `CommandsEnd`, `TeardownWorks`,
`RunResponds`), which needs fairness and ENABLED and is out of the prover's reach;
`RefusedForCause` of `RootfsSetup`, which holds for the run's specs and directories and
not for all, as a directory may have a file where a mount needs a directory.

## Not modelled, and the plan

Not modelled: the resolution of symbolic links in the rootfs (`secureJoin`); the
path checks of `ResolveRootfs` and `ValidateID`; the parsing of command lines and
sizes, device numbers, and the NVIDIA programs themselves; the contents of the
default profile and the generated syscall tables, which are data; the terminal
(`--tty` is refused by the code); reuse of pids, since no record can tell a reused
pid and every property of a record's process would be lost with the first;
power cuts (nothing is synced, and the state directory is on tmpfs by default).

Built, in this order: the handshake (the heart of the runtime), the lifecycle
around it, the store below it, the cgroup tree beside it, the credentials and
the root filesystem inside it; then the namespaces before it, the seccomp filter
at its end, the bundle it starts from and the supervisor that waits for it.

Next: `SecureJoin` as a function over small trees with symbolic links, against a
reference definition, as a part of `RootfsSetup`; the theorems then hold for the paths
that it returns, as they do now.
