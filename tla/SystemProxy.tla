----------------------------- MODULE SystemProxy -----------------------------
(***************************************************************************)
(* The runs of the client (internal/app/app.go) and the desktop's system   *)
(* proxy, which a session takes over and gives back (internal/app          *)
(* proxycheck.go and session.go, internal/system proxy*.go): the lock that *)
(* keeps the runs apart, the mode a run starts in, the snapshot a session  *)
(* takes, the commands it writes its own address with, each of which the   *)
(* desktop may refuse, the restore with its retries, and what the next run *)
(* makes of a setting that a killed one left behind.                       *)
(*                                                                         *)
(* A desktop is the sequence of the stores it tries: GNOME's and KDE's in  *)
(* the order kdeFirst gives, or the registry.  A setting is its switch,    *)
(* the two addresses and the exceptions; a host with its port is one       *)
(* value.  Every run uses the same HTTP port, the usual one, and nothing   *)
(* else listens there or sets it.  Nobody else writes while a write of     *)
(* ours is under way.                                                      *)
(***************************************************************************)
EXTENDS Naturals, Sequences, FiniteSets, SequencesExt

CONSTANTS
  Runs,        \* processes of the client
  Desktops,    \* sequences of stores
  Found,       \* what the user's own setting may be
  Envs,        \* what a run may be started with: MODE, PROXY_SYSTEM, rights
  MaxSessions, \* of all runs: a bound
  MaxFaults,   \* commands refused, or times that all are: a bound
  MaxOthers    \* changes by the user: a bound

ASSUME SystemProxyAssumption ==
  /\ Desktops \subseteq {<<"windows">>, <<"gnome">>, <<"kde">>, <<"gnome", "kde">>, <<"kde", "gnome">>}
  /\ Found \subseteq [mode : {"on", "off", "auto", "none"}, http : {"none", "corp"},
                      https : {"none", "corp"}, bypass : {"none", "theirs"}]
  /\ Envs \subseteq [mode : {"proxy", "tun"}, system : BOOLEAN, rights : {"none", "root", "service"}]
  /\ MaxSessions \in Nat /\ MaxFaults \in Nat /\ MaxOthers \in Nat

VARIABLES
  desktop,         \* the stores there are
  settings,        \* the setting in each store
  lockfile, made,  \* the file under the lock's name, 0 for none; files made so far
  locks,           \* the locks held: file and run
  saved,           \* the mode in last_server.json
  pc, app, call,   \* of each run: where it is, its App, its command under way
  \* what is so, whoever knows: what the user's setting may be, and whether a run was
  \* killed with ours in force, or could not put the user's back ("no", "left",
  \* "cleared")
  users, struck,
  refusing,                 \* the store takes nothing for now
  sessions, faults, unread, others \* bounds

machine == <<desktop, settings>>
lock    == <<lockfile, made, locks>>
truth   == <<users, struck>>
bounds  == <<refusing, sessions, faults, unread, others>>
vars    == <<machine, lock, saved, pc, app, call, truth, bounds>>

Ours == "ours"
Keys == {"mode", "http", "https", "bypass"}
Windows == desktop = <<"windows">>
First   == desktop[1]

\* The registry has one address for both, may have no switch at all, and keeps
\* a PAC script elsewhere.
UsersSettings ==
  IF Windows THEN {[v EXCEPT !.https = "none"] : v \in {w \in Found : w.mode # "auto"}}
  ELSE {w \in Found : w.mode # "none"}

\* A value that was not read.  A setting never has it, a snapshot may.
Unread == "unread"

\* A snapshot knows where it is from: a mode means nothing to another desktop.
NoSnapshot == [from |-> "none", mode |-> Unread, http |-> Unread, https |-> Unread, bypass |-> Unread]
Snapshot(st) == [k \in Keys \cup {"from"} |-> IF k = "from" THEN st ELSE settings[st][k]]
Enabled(s) == s.mode = "on"

Idle == [for |-> "nothing", state |-> NoSnapshot, stores |-> <<>>, cmds |-> <<>>, began |-> FALSE, rolling |-> FALSE]

\* The App of a run, of which nothing is left when the process is gone.
NewApp(env, mode) ==
  [mode |-> mode, system |-> env.system, rights |-> env.rights, file |-> 0, kind |-> "proxy",
   touched |-> FALSE, failed |-> FALSE, original |-> NoSnapshot, ourServer |-> FALSE]

NoApp == NewApp([system |-> TRUE, rights |-> "none"], "proxy")

Init ==
  /\ desktop \in Desktops
  /\ \E v \in UsersSettings :
         settings = [st \in Range(desktop) |->
            IF st = First THEN v ELSE [mode |-> "off", http |-> "none", https |-> "none", bypass |-> "none"]]
  /\ users = {settings} /\ struck = "no"
  /\ lockfile = 0 /\ made = 0 /\ locks = {}
  /\ saved = "none"
  /\ pc = [r \in Runs |-> "off"] /\ call = [r \in Runs |-> Idle]
  /\ app = [r \in Runs |-> NoApp]
  /\ refusing = FALSE /\ sessions = 0 /\ faults = 0 /\ unread = 0 /\ others = 0

-----------------------------------------------------------------------------
\* Reading.

\* ReadProxyState, and what it makes of a value that cannot be read.  Windows
\* stops there and says so by an empty `from'; a Linux desktop that does not
\* answer is passed over for the next one.
UnreadRegistry ==
  LET s == Snapshot("windows")
  IN { NoSnapshot,
       [NoSnapshot EXCEPT !.mode = s.mode],
       [NoSnapshot EXCEPT !.mode = s.mode, !.http = s.http] }
UnreadDesktop ==
  LET s == Snapshot(First)
  IN { IF Len(desktop) = 1 THEN NoSnapshot ELSE Snapshot(desktop[2]),
       [s EXCEPT !.http = Unread, !.https = Unread],
       [s EXCEPT !.bypass = Unread] }

Reads(s) ==
  \/ s = Snapshot(First) /\ UNCHANGED unread
  \/ /\ faults + unread < MaxFaults /\ unread' = unread + 1
     /\ s \in IF Windows THEN UnreadRegistry ELSE UnreadDesktop
Readings == {Snapshot(First)} \cup IF Windows THEN UnreadRegistry ELSE UnreadDesktop

-----------------------------------------------------------------------------
\* Writing.  A command writes one value; refused, it is the end of the write
\* ("fail"), or is only logged ("next"), with the one after it ("both").

Cmd(key, val, miss) == [key |-> key, val |-> val, miss |-> miss]
Known(key, s, miss) == IF s[key] = Unread THEN <<>> ELSE <<Cmd(key, s[key], miss)>>

\* KDE keeps an address nobody set as an empty string, GNOME as ":0".
Blank(v, s) == v = Unread \/ (v = "none" /\ s.from # "gnome")
Server(s)       == IF s.http \in {"none", Unread} THEN Ours ELSE s.http
SecureServer(s) == IF Blank(s.https, s) THEN Server(s) ELSE s.https

\* writeGsettings and writeKDE, which differ in what a refused address costs.
ModeBack(st, s) == IF s.from = st /\ s.mode \in {"off", "auto"} THEN s.mode ELSE "off"
DesktopWrites(st, s) ==
  IF Enabled(s)
  THEN << Cmd("mode", "on", "fail"), Cmd("http", Server(s), "fail"), Cmd("https", SecureServer(s), "fail") >>
       \o Known("bypass", s, "fail")
  ELSE << Cmd("mode", ModeBack(st, s), "fail") >>
       \o Known("http", s, IF st = "gnome" THEN "both" ELSE "next") \o Known("https", s, "next")
       \o Known("bypass", s, "next")

RegistryWrites(s) == << Cmd("mode", s.mode, "fail"), Cmd("http", s.http, "fail"), Cmd("bypass", s.bypass, "fail") >>

Writes(st, s) == IF st = "windows" THEN RegistryWrites(s) ELSE DesktopWrites(st, s)

Write(for, s) ==
  [for |-> for, state |-> s, stores |-> desktop, cmds |-> Writes(First, s), began |-> FALSE, rolling |-> FALSE]

\* The next store a write that failed falls back on.
NextStore(c) ==
  LET rest == Tail(c.stores)
  IN IF rest = <<>> THEN [c EXCEPT !.stores = rest, !.cmds = <<>>, !.rolling = FALSE]
     ELSE [c EXCEPT !.stores = rest, !.cmds = Writes(Head(rest), c.state), !.rolling = FALSE, !.began = FALSE]

\* A half-written proxy is switched off before the next store is tried.
RollsBack(c) == ~Windows /\ Enabled(c.state) /\ c.began
Refused(c) ==
  CASE c.rolling                    -> NextStore(c)
    [] Head(c.cmds).miss = "next"   -> [c EXCEPT !.cmds = Tail(@)]
    [] Head(c.cmds).miss = "both"   -> [c EXCEPT !.cmds = Tail(Tail(@))]
    [] OTHER -> IF RollsBack(c) THEN [c EXCEPT !.cmds = <<Cmd("mode", "off", "next")>>, !.rolling = TRUE]
                ELSE NextStore(c)
Taken(c) == IF c.rolling THEN NextStore(c) ELSE [c EXCEPT !.cmds = Tail(@), !.began = TRUE]

Failed(c) == c.stores = <<>>
Over(c)   == c.for # "nothing" /\ c.cmds = <<>>

Fault == faults + unread < MaxFaults /\ faults' = faults + 1

Command(r) ==
  /\ call[r].cmds # <<>>
  /\ \/ LET cmd == Head(call[r].cmds)
        IN /\ ~refusing
           /\ settings' = [settings EXCEPT ![Head(call[r].stores)][cmd.key] = cmd.val]
           /\ call' = [call EXCEPT ![r] = Taken(@)]
           /\ app' = [app EXCEPT ![r].ourServer = @ \/ (Windows /\ call[r].for = "enable" /\ cmd.key = "http")]
           /\ UNCHANGED faults
     \/ /\ IF refusing THEN UNCHANGED faults ELSE Fault
        /\ call' = [call EXCEPT ![r] = Refused(@)]
        /\ UNCHANGED <<settings, app>>
  /\ UNCHANGED <<desktop, lock, saved, pc, truth, refusing, sessions, unread, others>>

\* The store takes nothing for a while (a policy, a bus that is gone): it starts
\* while a restore is owed, at any point of one or between two writes.
Refuse ==
  /\ ~refusing /\ Fault /\ refusing' = TRUE
  /\ \E r \in Runs : app[r].touched
  /\ \A r \in Runs : call[r].for \in {"nothing", "restore"}
  /\ UNCHANGED <<machine, lock, saved, pc, app, call, truth, sessions, unread, others>>

Accept ==
  /\ refusing /\ refusing' = FALSE
  /\ UNCHANGED <<machine, lock, saved, pc, app, call, truth, sessions, faults, unread, others>>

-----------------------------------------------------------------------------
\* A run from its start to the menu.

\* The mode it comes up in: the saved one before MODE, and only MODE is a demand.
MayRun(env, mode) == mode = "proxy" \/ env.rights # "none"
Wanted(env)       == IF saved = "none" THEN env.mode ELSE saved

\* It opens the lock file, making one if there is none.
Launch(r) ==
  /\ pc[r] = "off"
  /\ \E env \in Envs :
       LET mode == IF MayRun(env, Wanted(env)) THEN Wanted(env) ELSE "proxy"
       IN IF MayRun(env, Wanted(env)) \/ saved # "none"
          THEN /\ lockfile' = IF lockfile = 0 THEN made + 1 ELSE lockfile
               /\ made' = IF lockfile = 0 THEN made + 1 ELSE made
               /\ app' = [app EXCEPT ![r] = [NewApp(env, mode) EXCEPT !.file = lockfile']]
               /\ pc' = [pc EXCEPT ![r] = "opened"]
          ELSE pc' = [pc EXCEPT ![r] = "gone"] /\ UNCHANGED <<lockfile, made, app>>
  /\ UNCHANGED <<machine, locks, saved, call, truth, bounds>>

Gone(r) == pc' = [pc EXCEPT ![r] = "gone"] /\ app' = [app EXCEPT ![r] = NoApp]

\* A lock belongs to the open file, not to its name.
Free(f) == \A l \in locks : l[1] # f

TakeLock(r) ==
  /\ pc[r] = "opened"
  /\ IF Free(app[r].file)
     THEN /\ locks' = locks \cup {<<app[r].file, r>>}
          /\ pc' = [pc EXCEPT ![r] = "menu"] /\ UNCHANGED app
     ELSE Gone(r) /\ UNCHANGED locks
  /\ UNCHANGED <<machine, lockfile, made, saved, call, truth, bounds>>

\* The pid cannot be written, and the run gives the lock up again.
LockUnwritten(r) ==
  /\ pc[r] = "opened" /\ Free(app[r].file)
  /\ Fault /\ Gone(r)
  /\ UNCHANGED <<machine, lock, saved, call, truth, refusing, sessions, unread, others>>

-----------------------------------------------------------------------------
\* restoreSystemProxy, at the start of a session, at its end, in the release
\* after that, and in the cleanup at exit; what each goes on to.

Then(p) ==
  CASE p = "start" -> "resolve" [] p = "down" -> "release" [] p = "release" -> "menu" [] p = "exit" -> "unlock"
Restoring(p) == p \in {"start", "down", "release", "exit"}

\* proxyStillOurs: off is how the fallback left it.
StillOurs(s) == ~Enabled(s) \/ s.http = Ours

\* Nothing is owed any more; the snapshot is of no further use.
GivenBack(a) == [a EXCEPT !.touched = FALSE, !.failed = FALSE, !.original = NoSnapshot]

Restore(r) ==
  /\ Restoring(pc[r]) /\ call[r] = Idle
  /\ IF ~app[r].touched
     THEN pc' = [pc EXCEPT ![r] = Then(@)] /\ UNCHANGED <<app, call, unread>>
     ELSE \E s \in Readings :
            /\ IF app[r].failed THEN Reads(s) ELSE s = Snapshot(First) /\ UNCHANGED unread
            /\ IF app[r].failed /\ ~StillOurs(s)
               THEN /\ app' = [app EXCEPT ![r] = GivenBack(@)]
                    /\ pc' = [pc EXCEPT ![r] = Then(@)] /\ UNCHANGED call
               ELSE /\ call' = [call EXCEPT ![r] = Write("restore", app[r].original)]
                    /\ UNCHANGED <<app, pc>>
  /\ UNCHANGED <<machine, lock, saved, truth, refusing, sessions, faults, others>>

Goes(r, to, a) == pc' = [pc EXCEPT ![r] = to] /\ app' = [app EXCEPT ![r] = a] /\ call' = [call EXCEPT ![r] = Idle]

\* Mutant: a restore that failed is not owed any more.
GivenUp_Forgets(r, a) == IF Restoring(pc[r]) THEN Goes(r, Then(pc[r]), GivenBack(a)) ELSE Goes(r, "up", a)

\* Where a write that was not to be goes on, what the run remembers of it.
GivenUp(r, a) ==
  IF Restoring(pc[r]) THEN Goes(r, Then(pc[r]), [a EXCEPT !.failed = TRUE])
  ELSE Goes(r, "up", a)

\* forceDisable, when an exact restore has failed: what still names us goes.
ForceWrites == << Cmd("mode", "off", "fail"), Cmd("http", "none", "next") >>
ForceDisable(r) ==
  IF ~(Windows /\ app[r].ourServer) THEN GivenUp(r, app[r]) /\ UNCHANGED unread
  ELSE \E s \in {Snapshot(First), NoSnapshot} :
         /\ IF s = NoSnapshot THEN faults + unread < MaxFaults /\ unread' = unread + 1 ELSE UNCHANGED unread
         /\ IF s.http = Ours
            THEN call' = [call EXCEPT ![r] = [Write("force", s) EXCEPT !.cmds = ForceWrites]] /\ UNCHANGED <<pc, app>>
            ELSE GivenUp(r, [app[r] EXCEPT !.ourServer = FALSE])

Forced(r) ==
  /\ call[r].for = "force" /\ Over(call[r])
  /\ GivenUp(r, [app[r] EXCEPT !.ourServer = Failed(call[r])])
  /\ UNCHANGED <<machine, lock, saved, truth, bounds>>

Restored(r) ==
  /\ Restoring(pc[r]) /\ call[r].for = "restore" /\ Over(call[r])
  /\ IF Failed(call[r]) THEN ForceDisable(r)
     ELSE Goes(r, Then(pc[r]), GivenBack(app[r])) /\ UNCHANGED unread
  /\ UNCHANGED <<machine, lock, saved, truth, refusing, sessions, faults, others>>

-----------------------------------------------------------------------------
\* A session.

StartSession(r) ==
  /\ pc[r] = "menu" /\ pc' = [pc EXCEPT ![r] = "start"]
  /\ sessions < MaxSessions /\ sessions' = sessions + 1
  /\ UNCHANGED <<machine, lock, saved, app, call, truth, refusing, faults, unread, others>>

\* What the session is built on: TUN by its mode or, in the registry's world,
\* by the list of programs; the service's TUN needs nothing below.
Kinds(a) ==
  LET tun == IF a.rights = "service" THEN "remote" ELSE "tun"
  IN IF a.mode = "tun" THEN {tun}
     ELSE {"proxy"} \cup IF Windows /\ a.rights # "none" THEN {tun} ELSE {}

Resolve(r) ==
  /\ pc[r] = "resolve"
  /\ \E kind \in Kinds(app[r]) :
       /\ app' = [app EXCEPT ![r].kind = kind]
       /\ pc' = [pc EXCEPT ![r] = IF kind = "remote" THEN "up" ELSE "check"]
  /\ UNCHANGED <<machine, lock, saved, call, truth, bounds>>

\* The config cannot be built, or a port is taken.
NotStarted(r) ==
  /\ pc[r] = "resolve" /\ pc' = [pc EXCEPT ![r] = "menu"]
  /\ UNCHANGED <<machine, lock, saved, app, call, truth, bounds>>

Serving(q) == app[q].kind = "proxy" /\ pc[q] \in {"core", "up", "down"}
\* Mutant: the settings are not looked at before the session.
DeadOurs_Never(r, s) == FALSE

\* A TUN session has no HTTP port to know its own address by.
DeadOurs(r, s) == Enabled(s) /\ s.http = Ours /\ app[r].kind = "proxy" /\ \A q \in Runs : ~Serving(q)
Cleared == [from |-> "none", mode |-> "off", http |-> IF Windows THEN "none" ELSE Unread,
            https |-> Unread, bypass |-> IF Windows THEN "none" ELSE Unread]

WarnDeadLoopbackProxy(r) ==
  /\ pc[r] = "check" /\ call[r] = Idle
  /\ \E s \in Readings :
       /\ Reads(s)
       /\ IF DeadOurs(r, s) THEN call' = [call EXCEPT ![r] = Write("clear", Cleared)] /\ UNCHANGED pc
          ELSE pc' = [pc EXCEPT ![r] = "core"] /\ UNCHANGED call
  /\ UNCHANGED <<machine, lock, saved, app, truth, refusing, sessions, faults, others>>

ClearedDead(r) ==
  /\ call[r].for = "clear" /\ Over(call[r])
  /\ struck' = IF Failed(call[r]) THEN struck ELSE "cleared"
  /\ Goes(r, "core", app[r])
  /\ UNCHANGED <<machine, lock, saved, users, bounds>>

\* What Enable writes: the user's exceptions stay, the machine's own join them.
Exceptions(s) ==
  IF s.bypass \in {"none", Unread} THEN "local" ELSE IF Windows THEN "theirs and local" ELSE s.bypass
OurState(s) == [from |-> "none", mode |-> "on", http |-> Ours, https |-> Ours, bypass |-> Exceptions(s)]

\* One snapshot governs both ends; one still owed is kept.
Original(r, s) == IF app[r].touched THEN s = app[r].original /\ UNCHANGED unread ELSE Reads(s)

BringUp(r) ==
  /\ pc[r] = "core" /\ call[r] = Idle
  /\ IF app[r].kind # "proxy" \/ ~app[r].system
     THEN pc' = [pc EXCEPT ![r] = "up"] /\ UNCHANGED <<app, call, unread>>
     ELSE \E s \in Readings \cup {app[r].original} :
            /\ Original(r, s)
            /\ app' = [app EXCEPT ![r].original = s]
            /\ IF Windows /\ s.from = "none"
               THEN pc' = [pc EXCEPT ![r] = "up"] /\ UNCHANGED call
               ELSE call' = [call EXCEPT ![r] = Write("enable", OurState(s))] /\ UNCHANGED pc
  /\ UNCHANGED <<machine, lock, saved, truth, refusing, sessions, faults, others>>

\* The core does not come up, or the user has had enough.
BringUpFails(r) ==
  /\ pc[r] = "core" /\ call[r] = Idle /\ pc' = [pc EXCEPT ![r] = "down"]
  /\ UNCHANGED <<machine, lock, saved, app, call, truth, bounds>>

\* Mutant: an Enable that fails half way is not undone.
EnableUndoes_Never(c) == ~Windows

\* Nothing of the registry has been written when its first value is refused.
EnableUndoes(c) == Windows => c.began
Brought(r) ==
  /\ call[r].for = "enable" /\ Over(call[r])
  /\ IF ~Failed(call[r]) THEN Goes(r, "up", [app[r] EXCEPT !.touched = TRUE])
     ELSE IF EnableUndoes(call[r]) THEN call' = [call EXCEPT ![r] = Write("undo", app[r].original)] /\ UNCHANGED <<pc, app>>
     ELSE Goes(r, "up", app[r])
  /\ UNCHANGED <<machine, lock, saved, truth, bounds>>

Undone(r) ==
  /\ call[r].for = "undo" /\ Over(call[r])
  /\ IF Failed(call[r]) THEN ForceDisable(r)
     ELSE Goes(r, "up", [app[r] EXCEPT !.ourServer = FALSE]) /\ UNCHANGED unread
  /\ UNCHANGED <<machine, lock, saved, truth, refusing, sessions, faults, others>>

\* The user leaves, or the core dies.
End(r) ==
  /\ pc[r] = "up" /\ pc' = [pc EXCEPT ![r] = "down"]
  /\ UNCHANGED <<machine, lock, saved, app, call, truth, bounds>>

SwitchMode(r) ==
  /\ pc[r] = "up"
  /\ LET next == IF app[r].mode = "proxy" THEN "tun" ELSE "proxy"
     IN /\ next = "tun" => app[r].rights # "none"
        /\ app' = [app EXCEPT ![r].mode = next] /\ saved' = next
  /\ pc' = [pc EXCEPT ![r] = "down"]
  /\ UNCHANGED <<machine, lock, call, truth, bounds>>

-----------------------------------------------------------------------------
\* The end of a run.

Quit(r) ==
  /\ pc[r] = "menu" /\ pc' = [pc EXCEPT ![r] = "exit"]
  /\ UNCHANGED <<machine, lock, saved, app, call, truth, bounds>>

\* Mutant: cleanup removes the lock file.
LockFileLeft_Removed == 0

\* The lock file itself stays.
LockFileLeft == lockfile

Unlock(r) ==
  /\ pc[r] = "unlock"
  /\ Gone(r)
  /\ locks' = {l \in locks : l[2] # r} /\ lockfile' = LockFileLeft
  /\ struck' = IF app[r].touched THEN "left" ELSE struck
  /\ UNCHANGED <<machine, made, saved, call, users, bounds>>

Atwork(r) == pc[r] \notin {"off", "opened", "gone"}
InForce(r) == Atwork(r) /\ (app[r].touched \/ call[r] # Idle)

\* Killed at any point, and the lock goes with the process.
Kill(r) ==
  /\ Atwork(r)
  /\ Gone(r) /\ call' = [call EXCEPT ![r] = Idle]
  /\ locks' = {l \in locks : l[2] # r}
  /\ struck' = IF InForce(r) THEN "left" ELSE struck
  /\ UNCHANGED <<machine, lockfile, made, saved, users, bounds>>

-----------------------------------------------------------------------------
\* The user, or another program, sets the proxy.  What is set over a session's
\* own may be undone with it, and so may what is switched off while a restore is
\* still owed, or set after a session has tried that restore and before it is up;
\* anything else is the user's from then on.
Overridden(v) ==
  \E r \in Runs :
    /\ Atwork(r) /\ app[r].touched
    /\ ~app[r].failed \/ v.mode # "on" \/ pc[r] \in {"resolve", "check", "core"}

UserSets ==
  /\ others < MaxOthers /\ others' = others + 1
  /\ \A r \in Runs : call[r] = Idle
  /\ \E v \in UsersSettings :
       /\ settings' = [settings EXCEPT ![First] = v]
       /\ users' = IF Overridden(v) THEN users \cup {settings'} ELSE {settings'}
  /\ UNCHANGED <<desktop, lock, saved, pc, app, call, struck, refusing, sessions, faults, unread>>

Next ==
  \/ UserSets \/ Refuse \/ Accept
  \/ \E r \in Runs :
       \/ Launch(r) \/ TakeLock(r) \/ LockUnwritten(r)
       \/ StartSession(r) \/ Restore(r) \/ Restored(r) \/ Forced(r)
       \/ Resolve(r) \/ NotStarted(r) \/ WarnDeadLoopbackProxy(r) \/ ClearedDead(r)
       \/ BringUp(r) \/ BringUpFails(r) \/ Brought(r) \/ Undone(r)
       \/ End(r) \/ SwitchMode(r) \/ Command(r)
       \/ Quit(r) \/ Unlock(r) \/ Kill(r)

Spec == Init /\ [][Next]_vars

-----------------------------------------------------------------------------
NamesOurs == settings[First].mode = "on" /\ settings[First].http = Ours
AtRest    == \A r \in Runs : ~Atwork(r)
\* A refused command is made good by the retries, unless the write goes on to
\* the other desktop's store or the user has set something meanwhile; a Linux
\* snapshot that was not read is not.
Repairable ==
  /\ faults = 0 \/ (Len(desktop) = 1 /\ Cardinality(users) = 1)
  /\ unread = 0 \/ Windows
IsBack(u) ==
  /\ settings[First].mode = u[First].mode
  /\ settings[First].mode = "on" => settings[First].http = u[First].http
  /\ faults = 0 => settings = u

\* Two runs are never past the lock together, whichever of them opened the file
\* first and however the one before ended (acquireLock).
OneRunAtWork == \A q, r \in Runs : Atwork(q) /\ Atwork(r) => q = r

\* Once no run is at work, the desktop is as the user last set it, if none was
\* killed in the middle: whatever was refused on the way and tried again, and
\* whichever sessions came after.  What is only best-effort is so when nothing
\* was refused (restoreSystemProxy).
UsersComeBack ==
  AtRest /\ struck = "no" /\ Repairable => \E u \in users : IsBack(u)

\* A run that ends does not leave the desktop on a port nothing listens on, and
\* neither does one killed once its restore has gone through (teardown).
NotLeftOnOurs == AtRest /\ struck # "left" /\ Repairable => ~NamesOurs

\* What a killed run left behind is never taken for the user's own setting, to
\* be put back after the session (warnDeadLoopbackProxy).
LeftoverIsNotKept ==
  \A r \in Runs : Atwork(r) /\ app[r].touched /\ faults + unread = 0 =>
    ~(Enabled(app[r].original) /\ app[r].original.http = Ours)

\* Connecting again takes our own dead address away (README.md:359-361).
LeftoverGoes ==
  \A r \in Runs : pc[r] = "up" /\ ~app[r].touched /\ faults + unread = 0 => ~NamesOurs

=============================================================================
