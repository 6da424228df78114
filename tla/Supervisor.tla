------------------------------ MODULE Supervisor ------------------------------
(***************************************************************************)
(* A foreground `lightpod run`: the process that creates, starts and waits *)
(* for one container, the goroutine that forwards signals to it, the hooks *)
(* it runs, and the Go runtime's signal loop that feeds the goroutine.     *)
(*                                                                         *)
(*   run      claim -> prestart -> saveCreated -> start -> release ->      *)
(*            saveRunning -> poststart -> notify -> wait -> saveStopped -> *)
(*            stop -> poststop -> rmRecord -> exited                       *)
(*   forward  off -> select -> stopped                                     *)
(*                                                                         *)
(* One container id and nobody else at work on it.  Setup (Handshake.tla)  *)
(* and the commands beside it (Lifecycle.tla) are each one step here.      *)
(***************************************************************************)
EXTENDS Integers, Sequences, FiniteSets

CONSTANTS
    Fatal,      \* forwarded signals whose default action ends lightpod
    Harmless,   \* forwarded signals that it ignores by default
    Capacity,   \* of the channel handed to signal.Notify
    MaxSends,   \* bound: how often each signal is sent
    Worlds      \* what hooks and workload may be like (WorldType)

Signals == Fatal \cup Harmless
HookPoints == {"prestart", "poststart", "poststop"}

WorldType ==
    [hooks   : SUBSET HookPoints,  \* the lists that have a hook
     timeout : BOOLEAN,            \* hooks have a timeout
     hangs   : BOOLEAN,            \* a hook may never end by itself
     lingers : BOOLEAN,            \* a hook may leave a child holding its stdout
     handles : SUBSET Signals]     \* the signals that make the workload exit

ASSUME SignalsAssumption == Fatal \cap Harmless = {}
ASSUME CapacityAssumption == Capacity \in Nat \ {0}
ASSUME SendsAssumption == MaxSends \in Nat
ASSUME WorldsAssumption == Worlds \subseteq WorldType

VARIABLES
    world,     \* the member of Worlds this behaviour is about
    pc,        \* where the run is
    init,      \* its init process
    reaped,    \* os.Process.Wait has taken init's status
    status,    \* init's status, as ProcessState.ExitCode gives it (-1: a signal)
    code,      \* the exit code of lightpod
    record,    \* status in state.json
    hook,      \* the hook that runs: "idle", "running", or how it ended
    held,      \* a child of the hook holds the pipe of its stdout
    pending,   \* signals sent and not yet seen by the runtime's signal loop
    notified,  \* signal.Notify is in effect
    channel,   \* the signals in the channel
    forward,   \* the forwarding goroutine: "off", "select", "stopped"
    sent,      \* how often each signal was sent to lightpod
    got        \* how often the forwarder has sent each to init

vars == <<world, pc, init, reaped, status, code, record, hook, held, pending,
          notified, channel, forward, sent, got>>

container == <<init, reaped, status>>
hooks     == <<hook, held>>
relay     == <<pending, notified, channel, forward, sent, got>>

Ended == {"exited", "killed"}
PCs == Ended \cup HookPoints \cup
    {"claim", "abort", "saveCreated", "start", "release", "saveRunning",
     "notify", "wait", "saveStopped", "stop", "rmRecord"}

Live == {"setup", "parked", "releasing", "user"}
Released == {"releasing", "user"}

Init ==
    /\ world \in Worlds
    /\ pc = "claim" /\ code = 0 /\ record = "absent"
    /\ init = "none" /\ reaped = FALSE /\ status = 0
    /\ hook = "idle" /\ held = FALSE
    /\ pending = {} /\ notified = FALSE /\ channel = <<>> /\ forward = "off"
    /\ sent = [s \in Signals |-> 0] /\ got = [s \in Signals |-> 0]

----------------------------------------------------------------------------
(* The run: Container.Run, and what cmdRun does after it *)

\* A step that changes at most the record.
Save(at, to, next) ==
    /\ pc = at
    /\ record' = to
    /\ pc' = next
    /\ UNCHANGED <<code, container, hooks, relay>>

Claim ==
    /\ pc = "claim"
    /\ record' = "creating" /\ init' = "setup"
    /\ pc' = "prestart"
    /\ UNCHANGED <<code, reaped, status, hooks, relay>>

\* await(syncProcReady), then the record.
SaveCreated == init = "parked" /\ Save("saveCreated", "created", "start")

SetupFails ==
    /\ pc = "saveCreated"
    /\ pc' = "abort"
    /\ UNCHANGED <<code, record, container, hooks, relay>>

\* The deferred calls of a failed Create; Run passes its error on, and main
\* exits with 1.
Abort ==
    /\ pc = "abort"
    /\ init' = "exited" /\ reaped' = TRUE
    /\ record' = "absent"
    /\ pc' = "exited" /\ code' = 1
    /\ UNCHANGED <<status, hooks, relay>>

\* Start refuses a container whose init is gone since; the record stays.
Start ==
    /\ pc = "start"
    /\ IF init = "parked" THEN pc' = "release" /\ UNCHANGED code
                          ELSE pc' = "exited" /\ code' = 1
    /\ UNCHANGED <<record, container, hooks, relay>>

Release ==
    /\ pc = "release" /\ init = "parked"
    /\ init' = "releasing"
    /\ pc' = "saveRunning"
    /\ UNCHANGED <<code, record, reaped, status, hooks, relay>>

SaveRunning == Save("saveRunning", "running", "poststart")

\* forwardSignals.
Notify ==
    /\ pc = "notify"
    /\ notified' = TRUE /\ forward' = "select"
    /\ pc' = "wait"
    /\ UNCHANGED <<code, record, container, hooks, pending, channel, sent, got>>

Wait ==
    /\ pc = "wait" /\ init = "exited"
    /\ reaped' = TRUE
    /\ pc' = "saveStopped"
    /\ UNCHANGED <<code, record, init, status, hooks, relay>>

SaveStopped == Save("saveStopped", "stopped", "stop")

\* The deferred stop: signal.Stop, close(done).
StopForwarding ==
    /\ pc = "stop"
    /\ notified' = FALSE
    /\ pc' = "poststop"
    /\ UNCHANGED <<code, record, container, hooks, pending, channel, forward, sent, got>>

\* Delete(true) of what has stopped, and os.Exit with the workload's code.
RemoveRecord ==
    /\ pc = "rmRecord"
    /\ record' = "absent"
    /\ pc' = "exited" /\ code' = status % 256
    /\ UNCHANGED <<container, hooks, relay>>

----------------------------------------------------------------------------
(* Hooks: runHooks, runHook, runPoststopHooks *)

AfterHook(point) == CASE point = "prestart"  -> "saveCreated"
                      [] point = "poststart" -> "notify"
                      [] point = "poststop"  -> "rmRecord"

NoHook ==
    /\ pc \in HookPoints \ world.hooks
    /\ pc' = AfterHook(pc)
    /\ UNCHANGED <<code, record, container, hooks, relay>>

MutantHookNotAwaited ==
    /\ pc \in world.hooks /\ hook = "idle"
    /\ hook' = "running"
    /\ pc' = AfterHook(pc)
    /\ UNCHANGED <<code, record, container, held, relay>>

StartHook ==
    /\ pc \in world.hooks /\ hook = "idle"
    /\ hook' = "running"
    /\ UNCHANGED <<pc, code, record, container, held, relay>>

HookForks ==
    /\ world.lingers /\ hook = "running"
    /\ held' = TRUE
    /\ UNCHANGED <<pc, code, record, container, hook, relay>>

ChildEnds ==
    /\ held
    /\ held' = FALSE
    /\ UNCHANGED <<pc, code, record, container, hook, relay>>

HookExits ==
    /\ hook = "running"
    /\ hook' \in {"succeeded", "failed"}
    /\ UNCHANGED <<pc, code, record, container, held, relay>>

MutantNoDeadline == world.timeout /\ hook = "running" /\ UNCHANGED vars

\* The context kills the hook's process, and no other.
HookTimesOut ==
    /\ world.timeout /\ pc \in HookPoints /\ hook = "running"
    /\ hook' = "failed"
    /\ UNCHANGED <<pc, code, record, container, held, relay>>

MutantPoststartFailureFails ==
    /\ pc \in HookPoints /\ hook \in {"succeeded", "failed"} /\ ~held
    /\ hook' = "idle"
    /\ CASE pc = "prestart"  /\ hook = "failed" -> pc' = "abort"  /\ code' = code
         [] pc = "poststart" /\ hook = "failed" -> pc' = "exited" /\ code' = 1
         [] OTHER                               -> pc' = AfterHook(pc) /\ code' = code
    /\ UNCHANGED <<record, container, held, relay>>

\* cmd.Run returns when the process is gone and its stdout is closed.  Only a
\* failed prestart hook stops the run.
HookReturns ==
    /\ pc \in HookPoints /\ hook \in {"succeeded", "failed"} /\ ~held
    /\ hook' = "idle"
    /\ pc' = IF pc = "prestart" /\ hook = "failed" THEN "abort" ELSE AfterHook(pc)
    /\ UNCHANGED <<code, record, container, held, relay>>

----------------------------------------------------------------------------
(* Signals: the runtime's signal loop and the forwarder *)

\* A signal that is still pending takes another of its kind with it.
Send(s) ==
    /\ pc \notin Ended /\ sent[s] < MaxSends
    /\ pending' = pending \cup {s}
    /\ sent' = [sent EXCEPT ![s] = @ + 1]
    /\ UNCHANGED <<pc, code, record, container, hooks, notified, channel, forward, got>>

\* Pending signals are seen in the order of their numbers, not in that of
\* their sending.  The channel takes one if it has room.  A signal nobody has
\* asked for has its default action.
SeeSignal(s) ==
    /\ s \in pending /\ pc \notin Ended
    /\ pending' = pending \ {s}
    /\ channel' = IF notified /\ Len(channel) < Capacity THEN Append(channel, s) ELSE channel
    /\ pc' = IF ~notified /\ s \in Fatal THEN "killed" ELSE pc
    /\ UNCHANGED <<code, record, container, hooks, notified, forward, sent, got>>

\* What a signal does to init.  Before the exec it is a Go program; then it is
\* process 1 of its namespace, where a signal without a handler is ignored.
Hit(s) ==
    \/ /\ init = "releasing" /\ s \in Fatal
       /\ init' = "exited" /\ status' = 2
    \/ /\ init = "user" /\ s \in world.handles
       /\ init' = "exited" /\ status' \in {0, 1, -1}
    \/ /\ ~(init = "releasing" /\ s \in Fatal) /\ ~(init = "user" /\ s \in world.handles)
       /\ UNCHANGED <<init, status>>

MutantSignalByPid ==
    /\ forward = "select" /\ pc \notin Ended /\ channel # <<>>
    /\ channel' = Tail(channel)
    /\ got' = [got EXCEPT ![Head(channel)] = @ + 1] /\ Hit(Head(channel))
    /\ UNCHANGED <<pc, code, record, reaped, hooks, pending, notified, forward, sent>>

\* The goroutine takes a signal; os.Process refuses to signal what was waited for.
Forward ==
    /\ forward = "select" /\ pc \notin Ended /\ channel # <<>>
    /\ channel' = Tail(channel)
    /\ IF reaped THEN UNCHANGED <<got, init, status>>
       ELSE got' = [got EXCEPT ![Head(channel)] = @ + 1] /\ Hit(Head(channel))
    /\ UNCHANGED <<pc, code, record, reaped, hooks, pending, notified, forward, sent>>

\* With done closed and a signal in the channel, select takes either.
ForwarderStops ==
    /\ forward = "select" /\ pc \in {"poststop", "rmRecord"}
    /\ forward' = "stopped"
    /\ UNCHANGED <<pc, code, record, container, hooks, pending, notified, channel, sent, got>>

----------------------------------------------------------------------------
(* Init, and the rest of the world *)

InitStep(from, to) ==
    /\ init \in from
    /\ init' = to
    /\ UNCHANGED <<pc, code, record, reaped, status, hooks, relay>>

Park     == pc = "saveCreated" /\ InitStep({"setup"}, "parked")
ExecUser == InitStep({"releasing"}, "user")
\* Setup ends when its creator is gone.
Orphaned == pc = "killed" /\ InitStep({"setup"}, "exited")

\* The workload ends by itself or is killed; a parked init may be killed too.
InitEnds ==
    /\ init \in {"parked", "user"}
    /\ init' = "exited"
    /\ status' \in IF init = "user" THEN {0, 1, -1} ELSE {-1}
    /\ UNCHANGED <<pc, code, record, reaped, hooks, relay>>

\* SIGKILL.
Killed ==
    /\ pc \notin Ended
    /\ pc' = "killed"
    /\ UNCHANGED <<code, record, container, hooks, relay>>

Run ==
    \/ Claim \/ SaveCreated \/ Abort \/ Start \/ Release \/ SaveRunning \/ Notify
    \/ Wait \/ SaveStopped \/ StopForwarding \/ RemoveRecord
    \/ NoHook \/ StartHook \/ HookReturns

Forwarder == Forward \/ ForwarderStops
SignalLoop == \E s \in Signals : SeeSignal(s)

Next ==
    /\ \/ Run \/ Forwarder \/ SignalLoop \/ HookTimesOut \/ HookExits
       \/ HookForks \/ ChildEnds \/ SetupFails \/ Killed
       \/ Park \/ ExecUser \/ Orphaned \/ InitEnds
       \/ \E s \in Signals : Send(s)
    /\ UNCHANGED world

Spec == Init /\ [][Next]_vars

\* The process and its goroutines run, timers fire, and a hook ends unless the
\* world has hooks that hang.  Nobody has to send a signal or end a workload.
FairSpec ==
    /\ Spec
    /\ WF_vars(Run /\ UNCHANGED world)
    /\ WF_vars(Forwarder /\ UNCHANGED world)
    /\ WF_vars(SignalLoop /\ UNCHANGED world)
    /\ WF_vars(HookTimesOut /\ UNCHANGED world)
    /\ WF_vars(~world.hangs /\ HookExits /\ UNCHANGED world)
    /\ WF_vars((Park \/ ExecUser \/ Orphaned) /\ UNCHANGED world)

----------------------------------------------------------------------------
(* Properties *)

\* Every variable has its type, the channel holds no more than it can, only what
\* has exited is reaped, and a hook runs only where the run waits for it, or is
\* what a killed run has left.
TypeOK ==
    /\ world \in Worlds /\ pc \in PCs /\ code \in 0..255
    /\ init \in Live \cup {"none", "exited"} /\ reaped \in BOOLEAN /\ status \in -1..2
    /\ reaped => init = "exited"
    /\ record \in {"absent", "creating", "created", "running", "stopped"}
    /\ hook \in {"idle", "running", "succeeded", "failed"} /\ held \in BOOLEAN
    /\ hook # "idle" => pc \in world.hooks \cup {"killed"}
    /\ pending \subseteq Signals /\ notified \in BOOLEAN
    /\ channel \in Seq(Signals) /\ Len(channel) <= Capacity
    /\ forward \in {"off", "select", "stopped"}
    /\ sent \in [Signals -> 0..MaxSends] /\ got \in [Signals -> 0..MaxSends]

\* "Ctrl-C kills lightpod and orphans the workload", when it comes outside the
\* forwarding: then the workload is at least recorded, for kill and delete to
\* find.  "Foreground run leaves nothing behind", and "exit code forwarded": a run
\* whose workload was released returns with the workload's code, has reaped it
\* and leaves no record, whatever its hooks did.
EndsClean ==
    /\ pc = "killed" /\ init \in Released => record \in {"created", "running"}
    /\ pc = "exited" => init = "exited"
    /\ pc = "exited" /\ forward # "off" =>
          reaped /\ record = "absent" /\ code = status % 256

\* No signal is made up or doubled on its way through mask, channel and
\* goroutine, and none is sent to a pid that init no longer has.
ForwardsWhatCame ==
    /\ [](\A s \in Signals : got[s] <= sent[s])
    /\ [][got' # got => ~reaped]_vars

\* Hooks that have a timeout or an end, and leave nobody behind.
HooksEnd == (world.timeout \/ ~world.hangs) /\ ~world.lingers

\* "A hanging hook would hang creation forever": every list comes to an end.  A
\* signal that the workload handles, in the channel while the workload runs, ends
\* the run; before the exec the same signal is swallowed by lightpod's init.
RunResponds ==
    /\ \A point \in HookPoints : HooksEnd /\ pc = point ~> pc # point
    /\ HooksEnd /\ pc = "wait" /\ init = "user"
          /\ (\E k \in DOMAIN channel : channel[k] \in world.handles)
          ~> pc \in Ended

\* "Foreground run leaves nothing behind": also when start fails.
RunLeavesNothing == pc = "exited" => record = "absent"

\* A timeout is enough for a hook to end.
TimeoutEndsHook == world.timeout /\ hook = "running" ~> hook = "idle"

\* Every signal sent while they are forwarded reaches the workload.
NoSignalDropped ==
    \A s \in Signals : pc = "wait" /\ s \in pending
        ~> (\E k \in DOMAIN channel : channel[k] = s) \/ got[s] > 0 \/ pc # "wait"
=============================================================================
