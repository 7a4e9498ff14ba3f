---------------------------- MODULE SessionProof ----------------------------
(***************************************************************************)
(* What the run checks of Session, for any budget of retries and any       *)
(* number of sessions, events and faults.  Each property speaks of a few   *)
(* places of the runner; the invariant says what holds at the others, so   *)
(* that nothing reaches those places in another way.                       *)
(***************************************************************************)
EXTENDS Session, TLAPS

\* Where no core is, or one that has been waited for.
NoCoreAt == {"off", "start", "stophealth", "disable", "decide", "backoff", "ended"}

\* Outside connecting and its end nobody works for a session, and one that has
\* not begun to connect has done nothing yet.
QuietInv ==
  /\ pc \in {"idle", "exited", "testing", "release"} => run = "off" /\ health = "off"
  /\ pc = "testing" => attempt = 0 /\ gen = 0 /\ ready = "none" /\ ~restart

\* The core is out of the way before the runner goes on, and its context with it.
CoreInv ==
  /\ run \in NoCoreAt => core \in {"none", "reaped"}
  /\ core \in {"none", "reaped"} => ~genCtx
  /\ ~tun => run \in {"off", "start", "wait", "decide", "backoff", "ended"}

\* The budget is not spent while the runner is between a start and a backoff.
BudgetInv == run \notin {"off", "backoff", "ended"} => attempt < MaxRetries

\* A TUN session's checks are those of one core, and so is what they ask for.
ChecksInv ==
  /\ tun /\ health # "off" => run \in {"wait", "stophealth"}
  /\ tun /\ restart => run \in {"wait", "stophealth", "disable", "decide", "ended", "off"}
  /\ shown # 0 => tun

\* A setup runs into one thing at most, and an outage after the first is waited
\* out, or cut short with the core.
SetUpInv ==
  /\ run \in {"prepare", "enable", "kill"} => err = "none"
  /\ run = "offline" => err # "none"
  /\ run = "judge" /\ err = "noroute" /\ ready # "none" => ~genCtx
  /\ failed = "noroute" => ready = "err"

\* The routes go before the next core, and are marked as long as they are there;
\* a setup without an error has put the kill switch up.
HostInv ==
  /\ routes # "none" => tunRouted
  /\ chain => killSwitchOn
  /\ tun /\ run \in {"decide", "backoff"} => routes = "none"
  /\ tun /\ run = "start" /\ gen > 0 => routes = "none"
  /\ tun /\ run = "judge" /\ err = "none" /\ wanted /\ ready = "none" => chain /\ killSwitchOn

SessionInv ==
  /\ TypeOK
  /\ QuietInv
  /\ CoreInv
  /\ BudgetInv
  /\ ChecksInv
  /\ SetUpInv
  /\ HostInv
  /\ KillSwitchHolds
  /\ HealthIsOfThisCore
  /\ RestartHitsItsCore
  /\ OutageIsWaitedOut

-----------------------------------------------------------------------------
\* Before the first session nothing has been done.
LEMMA InitInv == Init => SessionInv
<1> SUFFICES ASSUME Init PROVE SessionInv
  OBVIOUS
<1>1. /\ ~tun /\ ~genCtx /\ ~restart /\ ~chain
      /\ \A b \in {sess, tun, wanted, signalled, genCtx, restart, tunRouted, chain,
                  killSwitchOn} : b \in BOOLEAN
  BY DEF Init
<1>2. TypeOK
  BY <1>1, SessionAssumption DEF Init, TypeOK
<1>3. QuietInv /\ CoreInv /\ BudgetInv /\ ChecksInv
  BY <1>1 DEF Init, QuietInv, CoreInv, NoCoreAt, BudgetInv, ChecksInv
<1>4. SetUpInv /\ HostInv
  BY <1>1 DEF Init, SetUpInv, HostInv
<1>5. KillSwitchHolds /\ HealthIsOfThisCore /\ RestartHitsItsCore /\ OutageIsWaitedOut
  BY <1>1 DEF Init, KillSwitchHolds, InSession, HealthIsOfThisCore, RestartHitsItsCore,
              OutageIsWaitedOut
<1> QED  BY <1>2, <1>3, <1>4, <1>5 DEF SessionInv

\* What is marked is taken out, or stays and stays marked.
LEMMA ReleaseKeeps == ASSUME SessionInv, Release \/ Exit PROVE SessionInv'
<1> USE SessionAssumption
    DEF SessionInv, TypeOK, QuietInv, NoCoreAt, CoreInv, BudgetInv, ChecksInv, SetUpInv, HostInv,
            KillSwitchHolds, InSession, HealthIsOfThisCore, RestartHitsItsCore, OutageIsWaitedOut,
            session, runner, lifecycle, checks, host, bounds
<1>1. /\ routes' # "none" => tunRouted'
      /\ chain' => killSwitchOn'
      /\ shown' = 0 /\ healthGen' = 0 /\ faults' \in Nat
      /\ routes' \in {"none", "part", "in"} /\ tunRouted' \in BOOLEAN
      /\ chain' \in BOOLEAN /\ killSwitchOn' \in BOOLEAN
  BY DEF Release, Exit, ReleaseHost, SwitchLeft
<1>2. CASE Release
  BY <1>1, <1>2 DEF Release
<1>3. CASE Exit
  BY <1>1, <1>3 DEF Exit
<1> QED  BY <1>2, <1>3

\* runSession: it starts a runner that has done nothing, and goes on past the waits
\* only when nobody works for the session.
LEMMA SessionKeeps ==
  ASSUME SessionInv,
         TestConfig \/ Connect \/ BringUp \/ ScreenCloses \/ CancelSession \/ WaitedOut
  PROVE  SessionInv'
<1> USE SessionAssumption
    DEF SessionInv, TypeOK, QuietInv, NoCoreAt, CoreInv, BudgetInv, ChecksInv, SetUpInv, HostInv,
            KillSwitchHolds, InSession, HealthIsOfThisCore, RestartHitsItsCore, OutageIsWaitedOut,
            session, runner, lifecycle, checks, host, bounds
<1>1. CASE TestConfig
  BY <1>1 DEF TestConfig
<1>2. CASE Connect
  BY <1>2 DEF Connect
<1>3. CASE BringUp
  BY <1>3 DEF BringUp
<1>4. CASE ScreenCloses
  BY <1>4 DEF ScreenCloses
<1>5. CASE CancelSession
  <2>1. ~sess' /\ ~genCtx' /\ sess' \in BOOLEAN /\ genCtx' \in BOOLEAN
    BY <1>5 DEF CancelSession
  <2> QED  BY <1>5, <2>1 DEF CancelSession
<1>6. CASE WaitedOut
  BY <1>6 DEF WaitedOut
<1> QED
  BY <1>1, <1>2, <1>3, <1>4, <1>5, <1>6

\* The runner, and the core it starts.
LEMMA RunnerKeeps ==
  ASSUME SessionInv, RunnerNext
  PROVE  SessionInv'
<1> USE SessionAssumption
    DEF SessionInv, TypeOK, QuietInv, NoCoreAt, CoreInv, BudgetInv, ChecksInv, SetUpInv, HostInv,
            KillSwitchHolds, InSession, HealthIsOfThisCore, RestartHitsItsCore, OutageIsWaitedOut,
            session, runner, lifecycle, checks, host, bounds
<1>1. CASE StartCore
  <2>1. genCtx' /\ genCtx' \in BOOLEAN /\ signalled' \in BOOLEAN
    BY <1>1 DEF StartCore
  <2> QED  BY <1>1, <2>1 DEF StartCore
<1>2. CASE StartFails
  BY <1>2 DEF StartFails
<1>3. CASE AwaitExit
  BY <1>3 DEF AwaitExit
<1>4. CASE SessionOver
  BY <1>4 DEF SessionOver
<1>5. CASE SetupFatal
  BY <1>5 DEF SetupFatal
<1>6. CASE TakeRestart
  <2>1. ~restart' /\ restart' \in BOOLEAN
    BY <1>6 DEF TakeRestart
  <2> QED  BY <1>6, <2>1 DEF TakeRestart
<1>7. CASE DiedAtOnce
  BY <1>7 DEF DiedAtOnce
<1>8. CASE Backoff
  BY <1>8 DEF Backoff
<1>9. CASE Retry
  BY <1>9 DEF Retry, MayRetry
<1>10. CASE BackoffCut
  BY <1>10 DEF BackoffCut
<1>11. CASE RunnerEnds
  <2>1. ~sess' /\ ~genCtx' /\ sess' \in BOOLEAN /\ genCtx' \in BOOLEAN
    BY <1>11 DEF RunnerEnds, EndsSession
  <2> QED  BY <1>11, <2>1 DEF RunnerEnds, EndsSession
<1> QED
  BY <1>1, <1>2, <1>3, <1>4, <1>5, <1>6, <1>7, <1>8, <1>9, <1>10, <1>11 DEF RunnerNext

\* The hooks: between a core's start and the wait for it nothing checks it, and
\* between its stop and the next start the routes go.
LEMMA HooksKeep ==
  ASSUME SessionInv, HooksNext
  PROVE  SessionInv'
<1> USE SessionAssumption
    DEF SessionInv, TypeOK, QuietInv, NoCoreAt, CoreInv, BudgetInv, ChecksInv, SetUpInv, HostInv,
            KillSwitchHolds, InSession, HealthIsOfThisCore, RestartHitsItsCore, OutageIsWaitedOut,
            session, runner, lifecycle, checks, host, bounds
<1>1. CASE Prepare
  BY <1>1 DEF Prepare
<1>2. CASE PrepareFails
  BY <1>2 DEF PrepareFails
<1>3. CASE EnableRouting
  BY <1>3 DEF EnableRouting
<1>4. CASE EnableFails
  BY <1>4 DEF EnableFails, Fault
<1>5. CASE NoRoute
  BY <1>5 DEF NoRoute, Event, WaitsForNetwork
<1>6. CASE TryAgain
  BY <1>6 DEF TryAgain
<1>7. CASE WaitCut
  BY <1>7 DEF WaitCut
<1>8. CASE EnableKillSwitch
  BY <1>8 DEF EnableKillSwitch
<1>9. CASE KillSwitchFails
  BY <1>9 DEF KillSwitchFails
<1>10. CASE SetUp
  BY <1>10 DEF SetUp
<1>11. CASE Symptom
  BY <1>11 DEF Symptom
<1>12. CASE SetUpFailed
  BY <1>12 DEF SetUpFailed
<1>13. CASE Report
  <2>1. ~genCtx' /\ genCtx' \in BOOLEAN
    BY <1>13 DEF Report
  <2> QED  BY <1>13, <2>1 DEF Report
<1>14. CASE StopHealth
  BY <1>14 DEF StopHealth, HealthIsOver, Reset
<1>15. CASE DisableRouting
  <2>1. tunRouted' \in BOOLEAN /\ chain' = chain
    BY <1>15 DEF DisableRouting, Between
  <2> QED  BY <1>15, <2>1 DEF DisableRouting, Between
<1>16. CASE DisableFails
  BY <1>16 DEF DisableFails, Fault, Uncleaned
<1> QED
  BY <1>1, <1>2, <1>3, <1>4, <1>5, <1>6, <1>7, <1>8,
     <1>9, <1>10, <1>11, <1>12, <1>13, <1>14, <1>15, <1>16
  DEF HooksNext

\* The health loop and the core's end.
LEMMA ChecksKeep ==
  ASSUME SessionInv,
         RecordHealth \/ RequestRestart \/ StopCore \/ HealthEnds
           \/ CoreDies \/ CoreIsTold \/ Reap
  PROVE  SessionInv'
<1> USE SessionAssumption
    DEF SessionInv, TypeOK, QuietInv, NoCoreAt, CoreInv, BudgetInv, ChecksInv, SetUpInv, HostInv,
            KillSwitchHolds, InSession, HealthIsOfThisCore, RestartHitsItsCore, OutageIsWaitedOut,
            session, runner, lifecycle, checks, host, bounds
<1>1. CASE RecordHealth
  BY <1>1 DEF RecordHealth
<1>2. CASE RequestRestart
  BY <1>2 DEF RequestRestart, Event
<1>3. CASE StopCore
  BY <1>3 DEF StopCore
<1>4. CASE HealthEnds
  BY <1>4 DEF HealthEnds, Stopped
<1>5. CASE CoreDies
  BY <1>5 DEF CoreDies, Event
<1>6. CASE CoreIsTold
  BY <1>6 DEF CoreIsTold
<1>7. CASE Reap
  <2>1. ~genCtx' /\ genCtx' \in BOOLEAN
    BY <1>7 DEF Reap
  <2> QED  BY <1>7, <2>1 DEF Reap
<1> QED
  BY <1>1, <1>2, <1>3, <1>4, <1>5, <1>6, <1>7

\* The user.
LEMMA UserKeeps ==
  ASSUME SessionInv, Begin \/ Cancel \/ Leave
  PROVE  SessionInv'
<1> USE SessionAssumption
    DEF SessionInv, TypeOK, QuietInv, NoCoreAt, CoreInv, BudgetInv, ChecksInv, SetUpInv, HostInv,
            KillSwitchHolds, InSession, HealthIsOfThisCore, RestartHitsItsCore, OutageIsWaitedOut,
            session, runner, lifecycle, checks, host, bounds
<1>1. CASE Begin
  <2>1. /\ sess' /\ ~restart' /\ ~genCtx'
        /\ sess' \in BOOLEAN /\ restart' \in BOOLEAN
        /\ genCtx' \in BOOLEAN /\ signalled' \in BOOLEAN
    BY <1>1 DEF Begin
  <2> QED  BY <1>1, <2>1 DEF Begin
<1>2. CASE Cancel
  <2>1. ~sess' /\ ~genCtx' /\ sess' \in BOOLEAN /\ genCtx' \in BOOLEAN
    BY <1>2 DEF Cancel
  <2> QED  BY <1>2, <2>1 DEF Cancel
<1>3. CASE Leave
  BY <1>3 DEF Leave
<1> QED
  BY <1>1, <1>2, <1>3

\* A step that changes nothing.
LEMMA StutterKeeps == ASSUME SessionInv, UNCHANGED vars PROVE SessionInv'
BY DEF vars, session, runner, lifecycle, checks, host, bounds, SessionInv, TypeOK, QuietInv,
       NoCoreAt, CoreInv, BudgetInv, ChecksInv, SetUpInv, HostInv, KillSwitchHolds, InSession,
       HealthIsOfThisCore, RestartHitsItsCore, OutageIsWaitedOut

\* The invariant the properties follow from.
THEOREM SessionInvariant == Spec => []SessionInv
<1>1. SessionInv /\ [Next]_vars => SessionInv'
  BY SessionKeeps, ReleaseKeeps, RunnerKeeps, HooksKeep, ChecksKeep, UserKeeps, StutterKeeps
  DEF Next, SessionNext, HealthNext, OthersNext
<1> QED  BY InitInv, <1>1, PTL DEF Spec

-----------------------------------------------------------------------------
\* The variables keep the values they are meant to take: no core is tried more
\* often in a row than the budget of RunWithRetryHooks allows.
THEOREM SessionTypeOK == Spec => []TypeOK
BY SessionInvariant, PTL DEF SessionInv

\* A kill switch that was asked for holds from the moment bring-up hears of the
\* first setup until releaseSession, over any number of cores.
THEOREM KillSwitchHoldsAlways == Spec => []KillSwitchHolds
BY SessionInvariant, PTL DEF SessionInv

\* A check's result that recordHealth lets through is of the core that runs.
THEOREM HealthIsOfThisCoreAlways == Spec => []HealthIsOfThisCore
BY SessionInvariant, PTL DEF SessionInv

\* RequestRestart of a TUN session's checks reaches the core they are about.
THEOREM RestartHitsItsCoreAlways == Spec => []RestartHitsItsCore
BY SessionInvariant, PTL DEF SessionInv

\* An outage ends a session only in its first setup.
THEOREM OutageIsWaitedOutAlways == Spec => []OutageIsWaitedOut
BY SessionInvariant, PTL DEF SessionInv

\* What a session leaves on the host is marked for releaseSession or cleanup.
THEOREM NothingIsForgottenAlways == Spec => []NothingIsForgotten
<1>1. SessionInv => NothingIsForgotten
  BY DEF SessionInv, QuietInv, CoreInv, NoCoreAt, HostInv, NothingIsForgotten, InSession, TypeOK
<1> QED  BY SessionInvariant, <1>1, PTL

\* afterStop clears the host before RunWithRetryHooks starts the next core.
THEOREM RestartsOverNothingAlways == Spec => RestartsOverNothing
<1>1. ASSUME SessionInv, [Next]_vars, tun, core' = "up", core # "up", gen > 0
      PROVE  routes = "none" /\ health = "off"
  <2>1. run = "start"
    BY <1>1 DEF Next, vars, session, runner, lifecycle, checks, host, bounds,
      SessionNext, TestConfig, Connect, BringUp, ScreenCloses, CancelSession, WaitedOut, Release,
      RunnerNext, StartCore, StartFails, AwaitExit, SessionOver, SetupFatal, TakeRestart,
      DiedAtOnce, Backoff, Retry, BackoffCut, RunnerEnds, HooksNext, Prepare, PrepareFails, EnableRouting,
      EnableFails, NoRoute, TryAgain, WaitCut, EnableKillSwitch, KillSwitchFails, SetUp, Symptom,
      SetUpFailed, Report, StopHealth, DisableRouting, DisableFails, HealthNext, RecordHealth,
      RequestRestart, StopCore, HealthEnds, OthersNext, Begin, Cancel, Leave, Exit, CoreDies,
      CoreIsTold, Reap
  <2> QED  BY <1>1, <2>1 DEF SessionInv, TypeOK, ChecksInv, HostInv
<1>2. SessionInv /\ [Next]_vars =>
        [tun /\ core' = "up" /\ core # "up" /\ gen > 0 => routes = "none" /\ health = "off"]_vars
  BY <1>1
<1> QED  BY SessionInvariant, <1>2, PTL DEF Spec, RestartsOverNothing

=============================================================================
