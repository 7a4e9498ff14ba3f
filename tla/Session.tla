------------------------------- MODULE Session -------------------------------
(***************************************************************************)
(* A session of the interface: runSession and its teardown (internal/app), *)
(* the runner that keeps the core alive (internal/xray), the hooks that    *)
(* set a TUN session up around every core, and the health loop that may    *)
(* ask for a restart.  ServeTun runs the same runner and hooks for the     *)
(* service.                                                                *)
(*                                                                         *)
(* Each goroutine has a place of its own: pc is runSession, run is the     *)
(* runner with the hooks it calls, and health is the loop; the core is a   *)
(* process beside them.  TunRouting and Journal say what a routing call or *)
(* a kill switch does to the host; here a call succeeds, fails with        *)
(* nothing left, or fails part way.  The system proxy and the split of a   *)
(* proxy session are left out, and time is a choice: how long a core ran,  *)
(* whether a wait ran out.                                                 *)
(***************************************************************************)
EXTENDS Naturals

CONSTANTS
  MaxRetries,   \* of RunWithRetryHooks
  MaxSessions, MaxEvents, MaxFaults   \* bounds

ASSUME SessionAssumption ==
  /\ MaxRetries \in Nat \ {0}
  /\ MaxSessions \in Nat /\ MaxEvents \in Nat /\ MaxFaults \in Nat

VARIABLES
  \* runSession
  pc,
  sess,      \* sessCtx is not cancelled
  tun,       \* the session's mode, fixed when it starts
  wanted,    \* a kill switch is asked for, and the session is not a split
  coreErr,   \* why the session ended by itself
  \* Runner
  run,
  core,      \* "none", "up", "dead", or "reaped": waited for
  signalled, \* the core has been sent an interrupt
  genCtx,    \* the core's context is not cancelled
  restart,   \* Runner.restart
  attempt,
  \* tunLifecycle
  gen,
  ready,     \* what was sent to bring-up: "none", "ok" or "err"
  err,       \* what the setup under way has run into
  failed,    \* a setup that failed under a live core, by what it ran into
  \* health
  health,    \* "off", "loop" or "asked": between the flag and the interrupt
  healthGen,
  shown,     \* the core whose result the screen shows, 0 for none
  \* the host, and what App believes of it
  routes,    \* "none", "part" or "in"
  tunRouted,
  chain,
  killSwitchOn,
  \* a ghost and bounds
  asked,     \* the core the last restart was asked of
  sessions, events, faults

session   == <<pc, sess, tun, wanted, coreErr>>
runner    == <<core, signalled, genCtx, restart, attempt>>
lifecycle == <<gen, ready, err, failed>>
checks    == <<health, healthGen, shown, asked>>
host      == <<routes, tunRouted, chain, killSwitchOn>>
bounds    == <<sessions, events, faults>>
vars      == <<session, run, runner, lifecycle, checks, host, bounds>>

Init ==
  /\ pc = "idle" /\ sess = FALSE /\ tun = FALSE /\ wanted = FALSE /\ coreErr = "none"
  /\ run = "off" /\ core = "none" /\ signalled = FALSE /\ genCtx = FALSE
  /\ restart = FALSE /\ attempt = 0
  /\ gen = 0 /\ ready = "none" /\ err = "none" /\ failed = "none"
  /\ health = "off" /\ healthGen = 0 /\ shown = 0 /\ asked = 0
  /\ routes = "none" /\ tunRouted = FALSE /\ chain = FALSE /\ killSwitchOn = FALSE
  /\ sessions = 0 /\ events = 0 /\ faults = 0

Event == events < MaxEvents /\ events' = events + 1
Fault == faults < MaxFaults /\ faults' = faults + 1

-----------------------------------------------------------------------------
(* runSession *)

Begin ==
  /\ pc = "idle"
  /\ sessions < MaxSessions
  /\ sessions' = sessions + 1
  /\ tun' \in BOOLEAN
  /\ wanted' \in BOOLEAN
  /\ pc' = "testing" /\ sess' = TRUE /\ coreErr' = "none"
  /\ run' = "off" /\ core' = "none" /\ signalled' = FALSE /\ genCtx' = FALSE
  /\ restart' = FALSE /\ attempt' = 0
  /\ gen' = 0 /\ ready' = "none" /\ err' = "none" /\ failed' = "none"
  /\ asked' = 0
  /\ UNCHANGED <<health, healthGen, shown, host, events, faults>>

\* TestConfig: a refusal is final, and no core is started for it.
TestConfig ==
  /\ pc = "testing"
  /\ \/ pc' = "connecting" /\ run' = "start"
     \/ pc' = "teardown" /\ UNCHANGED run
  /\ UNCHANGED <<sess, tun, wanted, coreErr, runner, lifecycle, checks, host, bounds>>

\* Bring-up of a TUN session: the first setup that finished, or the end of the
\* session, whichever the select takes.
Connect ==
  /\ pc = "connecting" /\ tun
  /\ \/ ready = "ok" /\ pc' = "up"
     \/ ready = "err" /\ pc' = "teardown"
     \/ ~sess /\ pc' = "teardown"
  /\ UNCHANGED <<sess, tun, wanted, coreErr, run, runner, lifecycle, checks, host, bounds>>

\* bringUp of a proxy session waits for the core's ports, and the health loop of
\* the whole session comes with the status screen.
BringUp ==
  /\ pc = "connecting" /\ ~tun
  /\ \/ core = "up" /\ pc' = "up" /\ health' = "loop"
     \/ pc' = "teardown" /\ UNCHANGED health
  /\ UNCHANGED <<sess, tun, wanted, coreErr, run, runner, lifecycle, healthGen, shown, asked, host, bounds>>

\* Ctrl+C behind the connecting screen, where connect is waited for all the same,
\* or a signal.
Cancel ==
  /\ pc \in {"testing", "connecting", "up"}
  /\ sess' = FALSE
  /\ genCtx' = FALSE
  /\ UNCHANGED <<pc, tun, wanted, coreErr, run, core, signalled, restart, attempt, lifecycle, checks, host, bounds>>

\* The user leaves the status screen, or it closes with the session.
Leave ==
  /\ pc = "up"
  /\ sess
  /\ pc' = "teardown"
  /\ UNCHANGED <<sess, tun, wanted, coreErr, run, runner, lifecycle, checks, host, bounds>>

ScreenCloses ==
  /\ pc = "up"
  /\ ~sess
  /\ pc' = "teardown"
  /\ UNCHANGED <<sess, tun, wanted, coreErr, run, runner, lifecycle, checks, host, bounds>>

\* teardown cancels, waits for the runner, then for the session's health loop.
CancelSession ==
  /\ pc = "teardown"
  /\ sess' = FALSE
  /\ genCtx' = FALSE
  /\ pc' = "waiting"
  /\ UNCHANGED <<tun, wanted, coreErr, run, core, signalled, restart, attempt, lifecycle, checks, host, bounds>>

WaitedOut ==
  /\ pc = "waiting"
  /\ run = "off"
  /\ health = "off"
  /\ pc' = "release"
  /\ UNCHANGED <<sess, tun, wanted, coreErr, run, runner, lifecycle, checks, host, bounds>>

\* Mutant: a switch that would not come out is taken for gone.
SwitchLeft_Forgotten(on) == FALSE

\* A switch that would not come out stays marked, so the exit tries again.
SwitchLeft(on) == on

\* releaseSession: what was put up goes, and what would not stays marked; r and k
\* tell which of the two calls fails.
ReleaseHost ==
  \E r, k \in {0, 1} :
    /\ r = 1 => tunRouted
    /\ k = 1 => killSwitchOn
    /\ faults + r + k <= MaxFaults
    /\ faults' = faults + r + k
    /\ tunRouted' = (r = 1)
    /\ routes' \in IF r = 1 THEN {routes, "none"} ELSE {IF tunRouted THEN "none" ELSE routes}
    /\ killSwitchOn' = (k = 1 /\ SwitchLeft(killSwitchOn))
    /\ chain' = (chain /\ (killSwitchOn => k = 1))
    /\ healthGen' = 0
    /\ shown' = 0

Release ==
  /\ pc = "release"
  /\ ReleaseHost
  /\ pc' = "idle"
  /\ UNCHANGED <<sess, tun, wanted, coreErr, run, runner, lifecycle, health, asked, sessions, events>>

\* cleanup: once more at exit.
Exit ==
  /\ pc = "idle"
  /\ ReleaseHost
  /\ pc' = "exited"
  /\ UNCHANGED <<sess, tun, wanted, coreErr, run, runner, lifecycle, health, asked, sessions, events>>

-----------------------------------------------------------------------------
(* RunWithRetryHooks and generation *)

\* A core that starts is this session's next: afterStart counts it.
StartCore ==
  /\ run = "start"
  /\ sess
  /\ core' = "up" /\ signalled' = FALSE /\ genCtx' = TRUE
  /\ gen' = gen + 1 /\ err' = "none" /\ failed' = "none"
  /\ run' = IF tun THEN "prepare" ELSE "wait"
  /\ UNCHANGED <<session, restart, attempt, ready, checks, host, bounds>>

\* Start fails: the binary would not run, or the context is over.
StartFails ==
  /\ run = "start"
  /\ run' = "ended"
  /\ UNCHANGED <<session, runner, lifecycle, checks, host, bounds>>

\* The core goes by itself, or because it is told to.
CoreDies ==
  /\ core = "up"
  /\ Event
  /\ core' = "dead"
  /\ UNCHANGED <<session, run, signalled, genCtx, restart, attempt, lifecycle, checks, host, sessions, faults>>

CoreIsTold ==
  /\ core = "up"
  /\ ~genCtx \/ signalled
  /\ core' = "dead"
  /\ UNCHANGED <<session, run, signalled, genCtx, restart, attempt, lifecycle, checks, host, bounds>>

\* The only Wait for this process, on a goroutine of its own.
Reap ==
  /\ core = "dead"
  /\ core' = "reaped"
  /\ genCtx' = FALSE
  /\ UNCHANGED <<session, run, signalled, restart, attempt, lifecycle, checks, host, bounds>>

\* exit = <-waited.
AwaitExit ==
  /\ run = "wait"
  /\ core = "reaped"
  /\ run' = IF tun THEN "stophealth" ELSE "decide"
  /\ UNCHANGED <<session, runner, lifecycle, checks, host, bounds>>

\* The session is over, a setup has failed, a restart was asked for, or the core
\* has died: too soon, or once more than the budget has room for.
SessionOver ==
  /\ run = "decide" /\ err = "none"
  /\ ~sess
  /\ run' = "ended"
  /\ UNCHANGED <<session, runner, lifecycle, checks, host, bounds>>

SetupFatal ==
  /\ run = "decide" /\ err # "none"
  /\ run' = "ended"
  /\ UNCHANGED <<session, runner, lifecycle, checks, host, bounds>>

TakeRestart ==
  /\ run = "decide" /\ err = "none" /\ sess
  /\ restart
  /\ restart' = FALSE
  /\ attempt' = 0
  /\ run' = "start"
  /\ UNCHANGED <<session, core, signalled, genCtx, lifecycle, checks, host, bounds>>

DiedAtOnce ==
  /\ run = "decide" /\ err = "none" /\ sess
  /\ ~restart
  /\ run' = "ended"
  /\ UNCHANGED <<session, runner, lifecycle, checks, host, bounds>>

\* A core that ran for a minute starts the count anew.
Backoff ==
  /\ run = "decide" /\ err = "none" /\ sess
  /\ ~restart
  /\ attempt' \in {1, attempt + 1}
  /\ run' = "backoff"
  /\ UNCHANGED <<session, core, signalled, genCtx, restart, lifecycle, checks, host, bounds>>

\* Mutant: one crash too many is put up with.
MayRetry_OneMore == attempt <= MaxRetries

\* The crashes in a row are still within the budget.
MayRetry == attempt < MaxRetries

Retry ==
  /\ run = "backoff"
  /\ sess
  /\ run' = IF MayRetry THEN "start" ELSE "ended"
  /\ UNCHANGED <<session, runner, lifecycle, checks, host, bounds>>

BackoffCut ==
  /\ run = "backoff"
  /\ ~sess
  /\ run' = "ended"
  /\ UNCHANGED <<session, runner, lifecycle, checks, host, bounds>>

\* Mutant: a runner that gave up leaves the session up.
EndsSession_Never == sess

\* A runner that ends by itself takes the session down.
EndsSession == FALSE

\* The session's goroutine around the runner; it ends with the session when it
\* ends for a reason of its own.
RunnerEnds ==
  /\ run = "ended"
  /\ run' = "off"
  /\ sess' = EndsSession
  /\ coreErr' = IF ~sess THEN coreErr ELSE IF failed # "none" THEN failed ELSE "core"
  /\ genCtx' = FALSE
  /\ UNCHANGED <<pc, tun, wanted, core, signalled, restart, attempt, lifecycle, checks, host, bounds>>

-----------------------------------------------------------------------------
(* tunLifecycle: afterStart and afterStop, on the runner's goroutine *)

\* The core's interface is up and the servers' addresses are known.
Prepare ==
  /\ run = "prepare"
  /\ core = "up"
  /\ run' = "enable"
  /\ UNCHANGED <<session, runner, lifecycle, checks, host, bounds>>

\* It never came up, the physical adapter is another one, or no address is
\* known; or the wait was cut short by the core's end.
PrepareFails ==
  /\ run = "prepare"
  /\ run' = "judge"
  /\ err' = IF genCtx THEN "setup" ELSE "symptom"
  /\ UNCHANGED <<session, runner, gen, ready, failed, checks, host, bounds>>

EnableRouting ==
  /\ run = "enable"
  /\ tunRouted' = TRUE
  /\ routes' = "in"
  /\ run' = IF ready = "none" /\ wanted THEN "kill" ELSE "judge"
  /\ UNCHANGED <<session, runner, lifecycle, checks, chain, killSwitchOn, bounds>>

\* Refused, or undone; left part way when the kernel refuses that too.  The tun
\* device goes with its core, before anyone has waited for it.
EnableFails ==
  /\ run = "enable"
  /\ tunRouted' = TRUE
  /\ \/ routes' = "none" /\ UNCHANGED faults
     \/ routes' = "part" /\ Fault
  /\ err' = IF core = "up" THEN "setup" ELSE "symptom"
  /\ run' = "judge"
  /\ UNCHANGED <<session, runner, gen, ready, failed, checks, chain, killSwitchOn, sessions, events>>

\* Mutant: a restarted core's setup does not wait for the network.
WaitsForNetwork_Never == FALSE

\* Only once the first setup is behind: bring-up says so at once.
WaitsForNetwork == ready # "none"

\* No route to the server: found before the first change.
NoRoute ==
  /\ run = "enable"
  /\ Event
  /\ tunRouted' = TRUE
  /\ routes' = "none"
  /\ err' = "noroute"
  /\ run' = IF WaitsForNetwork THEN "offline" ELSE "judge"
  /\ UNCHANGED <<session, runner, gen, ready, failed, checks, chain, killSwitchOn, sessions, faults>>

TryAgain ==
  /\ run = "offline"
  /\ err' = "none"
  /\ run' = "prepare"
  /\ UNCHANGED <<session, runner, gen, ready, failed, checks, host, bounds>>

WaitCut ==
  /\ run = "offline"
  /\ ~genCtx
  /\ run' = "judge"
  /\ UNCHANGED <<session, runner, lifecycle, checks, host, bounds>>

\* The first setup of the session puts the kill switch up, to stay.
EnableKillSwitch ==
  /\ run = "kill"
  /\ chain' = TRUE
  /\ killSwitchOn' = TRUE
  /\ run' = "judge"
  /\ UNCHANGED <<session, runner, lifecycle, checks, routes, tunRouted, bounds>>

KillSwitchFails ==
  /\ run = "kill"
  /\ err' = "setup"
  /\ run' = "judge"
  /\ UNCHANGED <<session, runner, gen, ready, failed, checks, host, bounds>>

\* afterStart: the core is checked from now on, and bring-up hears of it.
SetUp ==
  /\ run = "judge" /\ err = "none"
  /\ health' = "loop"
  /\ healthGen' = gen
  /\ ready' = IF ready = "none" THEN "ok" ELSE ready
  /\ run' = "wait"
  /\ UNCHANGED <<session, runner, gen, err, failed, shown, asked, host, bounds>>

\* The core is gone, or the session: what the setup ran into is a symptom.
Symptom ==
  /\ run = "judge" /\ err # "none"
  /\ ~genCtx
  /\ err' = "none"
  /\ run' = "wait"
  /\ UNCHANGED <<session, runner, gen, ready, failed, checks, host, bounds>>

SetUpFailed ==
  /\ run = "judge" /\ err # "none"
  /\ genCtx
  /\ failed' = err
  /\ ready' = IF ready = "none" THEN "err" ELSE ready
  /\ run' = "report"
  /\ UNCHANGED <<session, runner, gen, err, checks, host, bounds>>

\* generation looks at the core's context once more, and stops a live core.
Report ==
  /\ run = "report"
  /\ err' = IF genCtx THEN err ELSE "none"
  /\ genCtx' = FALSE
  /\ run' = "wait"
  /\ UNCHANGED <<session, core, signalled, restart, attempt, gen, ready, failed, checks, host, bounds>>

\* Mutant: the loop is cancelled and not waited for.
HealthIsOver_Unwaited == TRUE

\* stopHealth waits for the core's loop.
HealthIsOver == health = "off"

\* Mutant: the screen keeps the last core's result.
Reset_Nothing == shown

\* What the screen shows of a core that has stopped.
Reset == 0

StopHealth ==
  /\ run = "stophealth"
  /\ HealthIsOver
  /\ healthGen' = gen + 1
  /\ shown' = Reset
  /\ run' = IF tunRouted THEN "disable" ELSE "decide"
  /\ UNCHANGED <<session, runner, lifecycle, health, asked, host, bounds>>

\* Mutant: a restart takes the kill switch down with the routes.
Between_Open == FALSE

\* The kill switch between two cores.
Between == chain

DisableRouting ==
  /\ run = "disable"
  /\ routes' = "none"
  /\ tunRouted' = FALSE
  /\ chain' = Between
  /\ run' = "decide"
  /\ UNCHANGED <<session, runner, lifecycle, checks, killSwitchOn, bounds>>

\* Mutant: a new core is started all the same.
Uncleaned_Goes == "decide"

\* No new core over a network in a state nobody knows.
Uncleaned == "ended"

DisableFails ==
  /\ run = "disable"
  /\ Fault
  /\ routes' \in {routes, "none"}
  /\ run' = Uncleaned
  /\ UNCHANGED <<session, runner, lifecycle, checks, tunRouted, chain, killSwitchOn, sessions, events>>

-----------------------------------------------------------------------------
(* healthCheckLoop: of each core in a TUN session, of the whole session in a  *)
(* proxy one.                                                                 *)

\* Mutant: the loop goes on whatever its context.
Stopped_Never == FALSE

\* The loop's context: the core's, or the session's.
Stopped == IF tun THEN ~genCtx ELSE ~sess

\* A result, dropped when its core is no longer the one being checked.
RecordHealth ==
  /\ health = "loop" /\ tun
  /\ shown' = IF healthGen = gen THEN gen ELSE shown
  /\ UNCHANGED <<session, run, runner, lifecycle, health, healthGen, asked, host, bounds>>

\* Three failed checks: RequestRestart sets the flag, and interrupts whichever
\* core is the runner's when it gets to it.
RequestRestart ==
  /\ health = "loop"
  /\ Event
  /\ restart' = TRUE
  /\ asked' = gen
  /\ health' = "asked"
  /\ UNCHANGED <<session, run, core, signalled, genCtx, attempt, lifecycle, healthGen, shown, host, sessions, faults>>

StopCore ==
  /\ health = "asked"
  /\ signalled' = (core = "up" \/ signalled)
  /\ health' = "loop"
  /\ UNCHANGED <<session, run, core, genCtx, restart, attempt, lifecycle, healthGen, shown, asked, host, bounds>>

HealthEnds ==
  /\ health = "loop"
  /\ Stopped
  /\ health' = "off"
  /\ UNCHANGED <<session, run, runner, lifecycle, healthGen, shown, asked, host, bounds>>

-----------------------------------------------------------------------------
SessionNext ==
  \/ TestConfig \/ Connect \/ BringUp \/ ScreenCloses \/ CancelSession \/ WaitedOut \/ Release

\* generation and the loop around it.
RunnerNext ==
  \/ StartCore \/ StartFails \/ AwaitExit \/ SessionOver \/ SetupFatal \/ TakeRestart
  \/ DiedAtOnce \/ Backoff \/ Retry \/ BackoffCut \/ RunnerEnds

HooksNext ==
  \/ Prepare \/ PrepareFails \/ EnableRouting \/ EnableFails \/ NoRoute \/ TryAgain \/ WaitCut
  \/ EnableKillSwitch \/ KillSwitchFails \/ SetUp \/ Symptom \/ SetUpFailed \/ Report
  \/ StopHealth \/ DisableRouting \/ DisableFails

HealthNext == RecordHealth \/ RequestRestart

\* The user, and the core of its own accord.
OthersNext == Begin \/ Cancel \/ Leave \/ Exit \/ CoreDies

Next ==
  \/ SessionNext \/ RunnerNext \/ HooksNext \/ HealthNext \/ OthersNext
  \/ CoreIsTold \/ Reap \/ StopCore \/ HealthEnds

Spec == Init /\ [][Next]_vars

\* Every goroutine that can go on goes on, and a core that is told to stop
\* stops.  Nothing makes a core die, a check fail or a user act.
Fairness ==
  /\ WF_vars(SessionNext)
  /\ WF_vars(RunnerNext)
  /\ WF_vars(HooksNext)
  /\ WF_vars(CoreIsTold) /\ WF_vars(Reap)
  /\ WF_vars(StopCore) /\ WF_vars(HealthEnds)

LiveSpec == Spec /\ Fairness

-----------------------------------------------------------------------------
\* The values the variables take.
TypeOK ==
  /\ pc \in {"idle", "testing", "connecting", "up", "teardown", "waiting", "release", "exited"}
  /\ sess \in BOOLEAN /\ tun \in BOOLEAN /\ wanted \in BOOLEAN
  /\ coreErr \in {"none", "core", "setup", "symptom", "noroute"}
  /\ run \in {"off", "start", "prepare", "enable", "offline", "kill", "judge", "report", "wait",
              "stophealth", "disable", "decide", "backoff", "ended"}
  /\ core \in {"none", "up", "dead", "reaped"}
  /\ signalled \in BOOLEAN /\ genCtx \in BOOLEAN /\ restart \in BOOLEAN
  /\ attempt \in 0..MaxRetries
  /\ gen \in Nat
  /\ ready \in {"none", "ok", "err"}
  /\ err \in {"none", "setup", "symptom", "noroute"}
  /\ failed \in {"none", "setup", "symptom", "noroute"}
  /\ health \in {"off", "loop", "asked"}
  /\ healthGen \in Nat /\ shown \in Nat /\ asked \in Nat
  /\ routes \in {"none", "part", "in"}
  /\ tunRouted \in BOOLEAN /\ chain \in BOOLEAN /\ killSwitchOn \in BOOLEAN
  /\ sessions \in Nat /\ events \in Nat /\ faults \in Nat

InSession == pc \notin {"idle", "exited"}

\* A kill switch that was asked for is up from the moment a TUN session is
\* reported connected to its release, through every core that dies, restarts or
\* waits for a network.
KillSwitchHolds ==
  InSession /\ tun /\ wanted /\ ready = "ok" => chain /\ killSwitchOn

\* The restarted core of a TUN session comes up on a host with none of our routes, and none of the
\* checks of the core before it (C01).
RestartsOverNothing ==
  [][tun /\ core' = "up" /\ core # "up" /\ gen > 0 => routes = "none" /\ health = "off"]_vars

\* The screen shows the result of a core that is set up and whose stop has not
\* been seen to yet: never of one before it, never between two.
HealthIsOfThisCore ==
  shown # 0 => shown = gen /\ run \in {"wait", "stophealth"}

\* A restart asked by a TUN session's checks falls on the core they were about:
\* neither the flag nor the interrupt reaches the next one.  The loop of a proxy
\* session lives on between cores, and there they may: see the README.
RestartHitsItsCore ==
  tun /\ (restart \/ health = "asked") => asked = gen

\* Between sessions, and after the last, nobody works for the session any more,
\* and what is left on the host is marked for the next release to take out.
NothingIsForgotten ==
  ~InSession =>
    /\ run = "off" /\ core # "up" /\ health = "off"
    /\ routes # "none" => tunRouted
    /\ chain => killSwitchOn

\* An outage never ends a session that has been connected (G06).
OutageIsWaitedOut ==
  coreErr = "noroute" => ready = "err"

\* A connection attempt comes to an end: up, or taken down.
ConnectEnds == pc = "connecting" ~> pc # "connecting"

\* A session in front of a dead core gets a new one or ends (A09).
NoDeadSession == pc = "up" /\ core # "up" ~> core = "up" \/ pc = "idle"

\* A session that is over is taken down: none of the waits of its teardown is for
\* somebody who waits in turn.
TeardownEnds == InSession /\ ~sess ~> ~InSession

\* What session.go:950-952 says: an error caused by the core dying under the
\* setup is a symptom, and does not end the session.
SymptomIsRetried == coreErr # "symptom"

=============================================================================
