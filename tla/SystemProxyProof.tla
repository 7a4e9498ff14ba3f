--------------------------- MODULE SystemProxyProof ---------------------------
(***************************************************************************)
(* Three things about SystemProxy, for any number of runs.  No two are     *)
(* ever past the lock together, however many are started, killed or        *)
(* refused: the lock is of a file, so what matters is that every run past  *)
(* it has the file that bears the lock's name.  Where nothing is refused,  *)
(* a session takes nobody's setting for ours, nor ours for the user's:     *)
(* what matters is what a write under way has already done of what it is   *)
(* for.  And there the user's setting comes back as it was: what matters   *)
(* is that a session's snapshot is of a setting of the user's, and that    *)
(* the commands of a restore say all of it and nothing else.               *)
(***************************************************************************)
EXTENDS SystemProxy, TLAPS

Places ==
  {"off", "opened", "menu", "start", "resolve", "check", "core", "up", "down", "release", "exit", "unlock", "gone"}

\* Where a command to the desktop may be under way.
Writing == {"start", "check", "core", "down", "release", "exit"}

\* An App has its fields, whatever is in them.
Fields == {"mode", "system", "rights", "file", "kind", "touched", "failed", "original", "ourServer"}
IsApp(a) == a = [k \in Fields |-> a[k]]

ShapeInv ==
  /\ lockfile \in Nat /\ made \in Nat
  /\ pc \in [Runs -> Places]
  /\ app = [r \in Runs |-> app[r]] /\ \A r \in Runs : IsApp(app[r])
  /\ call = [r \in Runs |-> call[r]]

\* No command is under way where a run could leave its place without it.
CallInv == \A r \in Runs : call[r] = Idle \/ pc[r] \in Writing

\* Whoever has opened the lock file has the one that bears its name.
FileInv == \A r \in Runs : pc[r] = "opened" \/ Atwork(r) => app[r].file = lockfile /\ lockfile # 0

\* A run past the lock holds it, and a file is locked once.
HeldInv == \A r \in Runs : Atwork(r) => <<app[r].file, r>> \in locks
OnceInv == \A q, r \in Runs, f \in Nat : <<f, q>> \in locks /\ <<f, r>> \in locks => q = r

LockInv == ShapeInv /\ CallInv /\ FileInv /\ HeldInv /\ OnceInv

-----------------------------------------------------------------------------
LEMMA LockInit == Init => LockInv
  <1> SUFFICES ASSUME Init PROVE LockInv
    OBVIOUS
  <1>1. ShapeInv
    BY DEF Init, ShapeInv, Places, NoApp, NewApp, IsApp, Fields
  <1>2. CallInv /\ FileInv /\ HeldInv /\ OnceInv
    BY DEF Init, CallInv, FileInv, HeldInv, OnceInv, Atwork
  <1> QED
    BY <1>1, <1>2 DEF LockInv

\* A run that goes on past the lock, with the same file and no lock changing hands.
Onward(r) ==
  /\ Atwork(r)
  /\ pc' = [pc EXCEPT ![r] = pc'[r]] /\ pc'[r] \in Places \ {"off", "opened", "gone"}
  /\ app' = [app EXCEPT ![r] = app'[r]] /\ IsApp(app'[r]) /\ app'[r].file = app[r].file
  /\ call' = [call EXCEPT ![r] = call'[r]] /\ (call'[r] = Idle \/ pc'[r] \in Writing)
  /\ UNCHANGED lock

LEMMA OnwardKeeps ==
  ASSUME LockInv, NEW r \in Runs, Onward(r)
  PROVE  LockInv'
  <1> USE DEF LockInv, ShapeInv
  <1>1. \A q \in Runs : app'[q].file = app[q].file /\ (q # r => pc'[q] = pc[q] /\ app'[q] = app[q] /\ call'[q] = call[q])
    BY DEF Onward
  <1>2. ShapeInv'
    <2>1. \A q \in Runs : IsApp(app[q])'
      BY <1>1 DEF Onward, IsApp
    <2>2. app' = [q \in Runs |-> app'[q]] /\ call' = [q \in Runs |-> call'[q]] /\ pc' \in [Runs -> Places]
      BY DEF Onward
    <2> QED
      BY <2>1, <2>2 DEF Onward, lock
  <1>3. CallInv'
    BY <1>1 DEF CallInv, Onward
  <1>4. FileInv' /\ HeldInv' /\ OnceInv'
    BY <1>1 DEF FileInv, HeldInv, OnceInv, Onward, lock, Atwork
  <1> QED
    BY <1>2, <1>3, <1>4

-----------------------------------------------------------------------------
\* Where a write goes on to: a place past the lock, with the App it belongs to.
SameApp(r, a) == IsApp(a) /\ a.file = app[r].file
Beyond == Places \ {"off", "opened", "gone"}

LEMMA GoesOnward ==
  ASSUME LockInv, NEW r \in Runs, Atwork(r), NEW to \in Beyond, NEW a, SameApp(r, a),
         Goes(r, to, a), UNCHANGED lock
  PROVE  Onward(r)
  BY DEF Goes, Onward, LockInv, ShapeInv, SameApp, Beyond

LEMMA WritingAtWork ==
  ASSUME LockInv, NEW r \in Runs, call[r] # Idle
  PROVE  Atwork(r) /\ pc[r] \in Writing
  BY DEF LockInv, CallInv, Writing, Atwork

LEMMA OverIsWriting ==
  ASSUME NEW c, Over(c)
  PROVE  c # Idle
  BY DEF Over, Idle

LEMMA ThenIsBeyond ==
  ASSUME NEW p, Restoring(p)
  PROVE  Then(p) \in Beyond
  BY DEF Restoring, Then, Beyond, Places

LEMMA GivenUpOnward ==
  ASSUME LockInv, NEW r \in Runs, call[r] # Idle, NEW a, SameApp(r, a), GivenUp(r, a), UNCHANGED lock
  PROVE  Onward(r)
  <1>1. Atwork(r)
    BY WritingAtWork
  <1>2. CASE Restoring(pc[r])
    <2>1. Goes(r, Then(pc[r]), [a EXCEPT !.failed = TRUE])
      BY <1>2 DEF GivenUp
    <2>2. SameApp(r, [a EXCEPT !.failed = TRUE])
      BY DEF SameApp, IsApp, Fields
    <2> QED
      BY <1>1, <1>2, <2>1, <2>2, ThenIsBeyond, GoesOnward
  <1>3. CASE ~Restoring(pc[r])
    <2>1. Goes(r, "up", a) /\ "up" \in Beyond
      BY <1>3 DEF GivenUp, Beyond, Places
    <2> QED
      BY <1>1, <2>1, GoesOnward
  <1> QED
    BY <1>2, <1>3

\* A run whose write goes on with another, or ends where it is.
LEMMA CallOnward ==
  ASSUME LockInv, NEW r \in Runs, Atwork(r), pc[r] \in Writing, NEW c,
         call' = [call EXCEPT ![r] = c], UNCHANGED <<pc, app>>, UNCHANGED lock
  PROVE  Onward(r)
  BY DEF LockInv, ShapeInv, Onward, Atwork, Places, Writing

LEMMA ForceDisableOnward ==
  ASSUME LockInv, NEW r \in Runs, call[r] # Idle, ForceDisable(r), UNCHANGED lock
  PROVE  Onward(r)
  <1>1. Atwork(r) /\ pc[r] \in Writing /\ IsApp(app[r])
    BY WritingAtWork DEF LockInv, ShapeInv
  <1>2. SameApp(r, app[r]) /\ SameApp(r, [app[r] EXCEPT !.ourServer = FALSE])
    BY <1>1 DEF SameApp, IsApp, Fields
  <1>3. \/ GivenUp(r, app[r])
        \/ GivenUp(r, [app[r] EXCEPT !.ourServer = FALSE])
        \/ \E c : call' = [call EXCEPT ![r] = c] /\ UNCHANGED <<pc, app>>
    BY DEF ForceDisable
  <1> QED
    BY <1>1, <1>2, <1>3, GivenUpOnward, CallOnward

-----------------------------------------------------------------------------
\* The steps of a run past the lock.

LEMMA RestoreOnward ==
  ASSUME LockInv, NEW r \in Runs, Restore(r)
  PROVE  Onward(r)
  <1>1. Atwork(r) /\ pc[r] \in Writing /\ IsApp(app[r]) /\ Restoring(pc[r]) /\ UNCHANGED lock
    BY DEF Restore, Restoring, Writing, Atwork, LockInv, ShapeInv
  <1>2. SameApp(r, GivenBack(app[r])) /\ SameApp(r, app[r])
    BY <1>1 DEF SameApp, GivenBack, IsApp, Fields
  <1>3. Then(pc[r]) \in Beyond
    BY <1>1, ThenIsBeyond
  <1>4. \/ pc' = [pc EXCEPT ![r] = Then(@)] /\ UNCHANGED <<app, call>>
        \/ /\ app' = [app EXCEPT ![r] = GivenBack(@)]
           /\ pc' = [pc EXCEPT ![r] = Then(@)] /\ UNCHANGED call
        \/ \E c : call' = [call EXCEPT ![r] = c] /\ UNCHANGED <<pc, app>>
    BY DEF Restore
  <1>5. CASE pc' = [pc EXCEPT ![r] = Then(@)] /\ UNCHANGED <<app, call>>
    <2>1. call[r] = Idle
      BY DEF Restore
    <2> QED
      BY <1>1, <1>2, <1>3, <1>5, <2>1 DEF Onward, LockInv, ShapeInv, SameApp, Beyond
  <1>6. CASE /\ app' = [app EXCEPT ![r] = GivenBack(@)]
             /\ pc' = [pc EXCEPT ![r] = Then(@)] /\ UNCHANGED call
    <2>1. call[r] = Idle
      BY DEF Restore
    <2> QED
      BY <1>1, <1>2, <1>3, <1>6, <2>1 DEF Onward, LockInv, ShapeInv, SameApp, Beyond
  <1> QED
    BY <1>1, <1>4, <1>5, <1>6, CallOnward

LEMMA WritesOnward ==
  ASSUME LockInv, NEW r \in Runs, Restored(r) \/ Forced(r) \/ ClearedDead(r) \/ Brought(r) \/ Undone(r)
  PROVE  Onward(r)
  <1>1. call[r] # Idle /\ UNCHANGED lock /\ IsApp(app[r])
    BY OverIsWriting DEF Restored, Forced, ClearedDead, Brought, Undone, LockInv, ShapeInv
  <1>2. Atwork(r) /\ pc[r] \in Writing
    BY <1>1, WritingAtWork
  <1>3. SameApp(r, app[r]) /\ SameApp(r, GivenBack(app[r]))
    BY <1>1 DEF SameApp, GivenBack, IsApp, Fields
  <1>4. \A b : SameApp(r, [app[r] EXCEPT !.ourServer = b]) /\ SameApp(r, [app[r] EXCEPT !.touched = b])
    BY <1>1 DEF SameApp, IsApp, Fields
  <1>5. "up" \in Beyond /\ "core" \in Beyond
    BY DEF Beyond, Places
  <1>6. CASE Restored(r)
    <2>1. ForceDisable(r) \/ Goes(r, Then(pc[r]), GivenBack(app[r]))
      BY <1>6 DEF Restored
    <2>2. Then(pc[r]) \in Beyond
      BY <1>6, ThenIsBeyond DEF Restored
    <2> QED
      BY <1>1, <1>2, <1>3, <2>1, <2>2, ForceDisableOnward, GoesOnward
  <1>7. CASE Forced(r)
    BY <1>1, <1>4, <1>7, GivenUpOnward DEF Forced
  <1>8. CASE ClearedDead(r)
    BY <1>1, <1>2, <1>3, <1>5, <1>8, GoesOnward DEF ClearedDead
  <1>9. CASE Brought(r)
    <2>1. \/ \E a : SameApp(r, a) /\ Goes(r, "up", a)
          \/ \E c : call' = [call EXCEPT ![r] = c] /\ UNCHANGED <<pc, app>>
      BY <1>3, <1>4, <1>9 DEF Brought
    <2> QED
      BY <1>1, <1>2, <1>5, <2>1, GoesOnward, CallOnward
  <1>10. CASE Undone(r)
    BY <1>1, <1>2, <1>4, <1>5, <1>10, ForceDisableOnward, GoesOnward DEF Undone
  <1> QED
    BY <1>6, <1>7, <1>8, <1>9, <1>10

LEMMA MovesOnward ==
  ASSUME LockInv, NEW r \in Runs,
         StartSession(r) \/ NotStarted(r) \/ BringUpFails(r) \/ End(r) \/ Quit(r)
  PROVE  Onward(r)
  <1>1. UNCHANGED <<app, call>> /\ UNCHANGED lock
    BY DEF StartSession, NotStarted, BringUpFails, End, Quit
  <1>2. \E to \in Beyond : pc' = [pc EXCEPT ![r] = to]
    BY DEF StartSession, NotStarted, BringUpFails, End, Quit, Beyond, Places
  <1>3. pc[r] \in {"menu", "resolve", "up"} \/ (pc[r] = "core" /\ call[r] = Idle)
    BY DEF StartSession, NotStarted, BringUpFails, End, Quit
  <1>4. Atwork(r) /\ call[r] = Idle
    BY <1>3 DEF LockInv, CallInv, Writing, Atwork
  <1> QED
    BY <1>1, <1>2, <1>4 DEF Onward, LockInv, ShapeInv, Beyond

LEMMA SessionOnward ==
  ASSUME LockInv, NEW r \in Runs, Resolve(r) \/ SwitchMode(r) \/ WarnDeadLoopbackProxy(r) \/ BringUp(r)
  PROVE  Onward(r)
  <1> USE DEF LockInv, ShapeInv
  <1>1. CASE Resolve(r)
    <2>1. PICK kind : app' = [app EXCEPT ![r].kind = kind]
                      /\ pc' = [pc EXCEPT ![r] = IF kind = "remote" THEN "up" ELSE "check"]
      BY <1>1 DEF Resolve
    <2>2. Atwork(r) /\ call[r] = Idle /\ UNCHANGED <<call, lock>>
      BY <1>1 DEF Resolve, CallInv, Writing, Atwork
    <2>3. IsApp(app'[r]) /\ app'[r].file = app[r].file /\ app' = [app EXCEPT ![r] = app'[r]]
      BY <2>1 DEF IsApp, Fields
    <2> QED
      BY <2>1, <2>2, <2>3 DEF Onward, Places
  <1>2. CASE SwitchMode(r)
    <2>1. PICK next : app' = [app EXCEPT ![r].mode = next]
      BY <1>2 DEF SwitchMode
    <2>2. Atwork(r) /\ call[r] = Idle /\ UNCHANGED <<call, lock>> /\ pc' = [pc EXCEPT ![r] = "down"]
      BY <1>2 DEF SwitchMode, CallInv, Writing, Atwork
    <2>3. IsApp(app'[r]) /\ app'[r].file = app[r].file /\ app' = [app EXCEPT ![r] = app'[r]]
      BY <2>1 DEF IsApp, Fields
    <2> QED
      BY <2>2, <2>3 DEF Onward, Places
  <1>3. CASE WarnDeadLoopbackProxy(r)
    <2>1. pc[r] = "check" /\ call[r] = Idle /\ UNCHANGED <<app, lock>>
      BY <1>3 DEF WarnDeadLoopbackProxy
    <2>2. \/ \E c : call' = [call EXCEPT ![r] = c] /\ UNCHANGED pc
          \/ pc' = [pc EXCEPT ![r] = "core"] /\ UNCHANGED call
      BY <1>3 DEF WarnDeadLoopbackProxy
    <2> QED
      BY <2>1, <2>2 DEF Onward, Places, Atwork, Writing
  <1>4. CASE BringUp(r)
    <2>1. pc[r] = "core" /\ call[r] = Idle /\ UNCHANGED lock
      BY <1>4 DEF BringUp
    <2>2. UNCHANGED app \/ \E s : app' = [app EXCEPT ![r].original = s]
      BY <1>4 DEF BringUp
    <2>3. \/ \E c : call' = [call EXCEPT ![r] = c] /\ UNCHANGED pc
          \/ pc' = [pc EXCEPT ![r] = "up"] /\ UNCHANGED call
      BY <1>4 DEF BringUp
    <2>4. IsApp(app'[r]) /\ app'[r].file = app[r].file /\ app' = [app EXCEPT ![r] = app'[r]]
      BY <2>2 DEF IsApp, Fields
    <2> QED
      BY <2>1, <2>3, <2>4 DEF Onward, Places, Atwork, Writing
  <1> QED
    BY <1>1, <1>2, <1>3, <1>4

LEMMA CommandOnward ==
  ASSUME LockInv, NEW r \in Runs, Command(r)
  PROVE  Onward(r)
  <1> USE DEF LockInv, ShapeInv
  <1>1. call[r] # Idle
    BY DEF Command, Idle
  <1>2. Atwork(r) /\ pc[r] \in Writing /\ UNCHANGED <<pc, lock>>
    BY <1>1, WritingAtWork DEF Command
  <1>3. \E c : call' = [call EXCEPT ![r] = c]
    BY DEF Command
  <1>4. UNCHANGED app \/ \E b : app' = [app EXCEPT ![r].ourServer = b]
    BY DEF Command
  <1>5. IsApp(app'[r]) /\ app'[r].file = app[r].file /\ app' = [app EXCEPT ![r] = app'[r]]
    BY <1>4 DEF IsApp, Fields
  <1> QED
    BY <1>2, <1>3, <1>5 DEF Onward, Places, Atwork, Writing

-----------------------------------------------------------------------------
\* The steps that open the file, take the lock or give it up.

LEMMA LaunchKeeps ==
  ASSUME LockInv, NEW r \in Runs, Launch(r)
  PROVE  LockInv'
  <1> USE DEF LockInv, ShapeInv
  <1>1. pc[r] = "off" /\ call[r] = Idle /\ UNCHANGED <<locks, call>>
    BY DEF Launch, CallInv, Writing
  <1>2. PICK env, mode :
          \/ /\ lockfile' = IF lockfile = 0 THEN made + 1 ELSE lockfile
             /\ made' = IF lockfile = 0 THEN made + 1 ELSE made
             /\ app' = [app EXCEPT ![r] = [NewApp(env, mode) EXCEPT !.file = lockfile']]
             /\ pc' = [pc EXCEPT ![r] = "opened"]
          \/ pc' = [pc EXCEPT ![r] = "gone"] /\ UNCHANGED <<lockfile, made, app>>
    BY DEF Launch
  <1>3. CASE pc' = [pc EXCEPT ![r] = "gone"] /\ UNCHANGED <<lockfile, made, app>>
    <2>1. ShapeInv' /\ CallInv'
      BY <1>1, <1>3 DEF Places, CallInv
    <2> QED
      BY <1>1, <1>3, <2>1 DEF FileInv, HeldInv, OnceInv, Atwork
  <1>4. CASE /\ lockfile' = IF lockfile = 0 THEN made + 1 ELSE lockfile
             /\ made' = IF lockfile = 0 THEN made + 1 ELSE made
             /\ app' = [app EXCEPT ![r] = [NewApp(env, mode) EXCEPT !.file = lockfile']]
             /\ pc' = [pc EXCEPT ![r] = "opened"]
    <2>1. /\ IsApp(app'[r]) /\ app'[r].file = lockfile' /\ pc'[r] = "opened"
          /\ \A q \in Runs \ {r} : app'[q] = app[q] /\ pc'[q] = pc[q]
      BY <1>4 DEF NewApp, IsApp, Fields
    <2>2. lockfile' \in Nat \ {0} /\ made' \in Nat
      BY <1>4
    <2>3. lockfile # 0 => lockfile' = lockfile
      BY <1>4
    <2>4. ShapeInv'
      <3>1. \A q \in Runs : IsApp(app[q])'
        BY <2>1 DEF IsApp
      <3>2. app' = [q \in Runs |-> app'[q]] /\ pc' \in [Runs -> Places]
        BY <1>4 DEF Places
      <3> QED
        BY <1>1, <2>2, <3>1, <3>2
    <2>5. CallInv'
      BY <1>1, <2>1 DEF CallInv
    <2>6. FileInv'
      BY <2>1, <2>2, <2>3 DEF FileInv, Atwork
    <2>7. HeldInv' /\ OnceInv'
      BY <1>1, <2>1 DEF HeldInv, OnceInv, Atwork
    <2> QED
      BY <2>4, <2>5, <2>6, <2>7
  <1> QED
    BY <1>2, <1>3, <1>4

LEMMA TakeLockKeeps ==
  ASSUME LockInv, NEW r \in Runs, TakeLock(r), Free(app[r].file)
  PROVE  LockInv'
  <1> USE DEF LockInv, ShapeInv
  <1>1. /\ pc[r] = "opened" /\ pc' = [pc EXCEPT ![r] = "menu"]
        /\ locks' = locks \cup {<<app[r].file, r>>}
        /\ UNCHANGED <<app, call, lockfile, made>>
    BY DEF TakeLock
  <1>2. ShapeInv' /\ CallInv' /\ FileInv' /\ HeldInv'
    BY <1>1 DEF Places, Writing, CallInv, FileInv, HeldInv, Atwork
  <1>3. \A q \in Runs : <<app[r].file, q>> \notin locks
    BY DEF Free
  <1>4. OnceInv'
    BY <1>1, <1>3 DEF OnceInv
  <1> QED
    BY <1>2, <1>4

\* A run that goes, with the locks it held.
Leaves(r) ==
  /\ Gone(r) /\ UNCHANGED <<lockfile, made>>
  /\ locks' \in {locks, {l \in locks : l[2] # r}}
  /\ call' = [call EXCEPT ![r] = Idle]

LEMMA LeavesKeeps ==
  ASSUME LockInv, NEW r \in Runs, Leaves(r)
  PROVE  LockInv'
  <1> USE DEF LockInv, ShapeInv
  <1>1. /\ pc' = [pc EXCEPT ![r] = "gone"] /\ app' = [app EXCEPT ![r] = NoApp]
        /\ call' = [call EXCEPT ![r] = Idle] /\ UNCHANGED <<lockfile, made>>
    BY DEF Leaves, Gone
  <1>2. \A q \in Runs \ {r} : app'[q] = app[q] /\ pc'[q] = pc[q] /\ call'[q] = call[q]
    BY <1>1
  <1>3. ShapeInv'
    <2>1. \A q \in Runs : IsApp(app[q])'
      BY <1>1, <1>2 DEF NoApp, NewApp, IsApp, Fields
    <2>2. app' = [q \in Runs |-> app'[q]] /\ call' = [q \in Runs |-> call'[q]] /\ pc' \in [Runs -> Places]
      BY <1>1 DEF Places
    <2> QED
      BY <1>1, <2>1, <2>2
  <1>4. CallInv' /\ FileInv'
    BY <1>1, <1>2 DEF CallInv, FileInv, Atwork
  <1>5. \A q \in Runs \ {r} : \A f : <<f, q>> \in locks' <=> <<f, q>> \in locks
    BY DEF Leaves
  <1>6. \A f : <<f, r>> \in locks' => <<f, r>> \in locks
    BY DEF Leaves
  <1>7. HeldInv' /\ OnceInv'
    BY <1>1, <1>2, <1>5, <1>6 DEF HeldInv, OnceInv, Atwork
  <1> QED
    BY <1>3, <1>4, <1>7

LEMMA LeavingLeaves ==
  ASSUME LockInv, NEW r \in Runs,
         (TakeLock(r) /\ ~Free(app[r].file)) \/ LockUnwritten(r) \/ Unlock(r) \/ Kill(r)
  PROVE  Leaves(r)
  <1> USE DEF LockInv, ShapeInv
  <1>1. CASE TakeLock(r) /\ ~Free(app[r].file)
    <2>1. call[r] = Idle /\ Gone(r) /\ UNCHANGED <<lock, call>>
      BY <1>1 DEF TakeLock, CallInv, Writing, lock
    <2> QED
      BY <2>1 DEF Leaves, lock
  <1>2. CASE LockUnwritten(r)
    <2>1. call[r] = Idle /\ Gone(r) /\ UNCHANGED <<lock, call>>
      BY <1>2 DEF LockUnwritten, CallInv, Writing
    <2> QED
      BY <2>1 DEF Leaves, lock
  <1>3. CASE Unlock(r)
    <2>1. call[r] = Idle /\ Gone(r) /\ UNCHANGED <<call, lockfile, made>> /\ locks' = {l \in locks : l[2] # r}
      BY <1>3 DEF Unlock, CallInv, Writing, LockFileLeft
    <2> QED
      BY <2>1 DEF Leaves
  <1>4. CASE Kill(r)
    BY <1>4 DEF Kill, Leaves
  <1> QED
    BY <1>1, <1>2, <1>3, <1>4

-----------------------------------------------------------------------------
LEMMA StutterKeeps ==
  ASSUME LockInv, UNCHANGED <<lock, pc, app, call>>
  PROVE  LockInv'
  BY DEF LockInv, ShapeInv, CallInv, FileInv, HeldInv, OnceInv, IsApp, Atwork, lock

LEMMA LockNext ==
  ASSUME LockInv, [Next]_vars
  PROVE  LockInv'
  <1>1. CASE UserSets \/ Refuse \/ Accept \/ UNCHANGED vars
    BY <1>1, StutterKeeps DEF UserSets, Refuse, Accept, vars
  <1>2. ASSUME NEW r \in Runs,
               \/ Launch(r) \/ TakeLock(r) \/ LockUnwritten(r)
               \/ StartSession(r) \/ Restore(r) \/ Restored(r) \/ Forced(r)
               \/ Resolve(r) \/ NotStarted(r) \/ WarnDeadLoopbackProxy(r) \/ ClearedDead(r)
               \/ BringUp(r) \/ BringUpFails(r) \/ Brought(r) \/ Undone(r)
               \/ End(r) \/ SwitchMode(r) \/ Command(r)
               \/ Quit(r) \/ Unlock(r) \/ Kill(r)
        PROVE  LockInv'
    <2>1. CASE Launch(r)
      BY <2>1, LaunchKeeps
    <2>2. CASE TakeLock(r)
      BY <2>2, TakeLockKeeps, LeavingLeaves, LeavesKeeps
    <2>3. CASE LockUnwritten(r) \/ Unlock(r) \/ Kill(r)
      BY <2>3, LeavingLeaves, LeavesKeeps
    <2>4. CASE StartSession(r) \/ NotStarted(r) \/ BringUpFails(r) \/ End(r) \/ Quit(r)
      BY <2>4, MovesOnward, OnwardKeeps
    <2>5. CASE Resolve(r) \/ SwitchMode(r) \/ WarnDeadLoopbackProxy(r) \/ BringUp(r)
      BY <2>5, SessionOnward, OnwardKeeps
    <2>6. CASE Restored(r) \/ Forced(r) \/ ClearedDead(r) \/ Brought(r) \/ Undone(r)
      BY <2>6, WritesOnward, OnwardKeeps
    <2>7. CASE Restore(r) \/ Command(r)
      BY <2>7, RestoreOnward, CommandOnward, OnwardKeeps
    <2> QED
      BY <1>2, <2>1, <2>2, <2>3, <2>4, <2>5, <2>6, <2>7
  <1> QED
    BY <1>1, <1>2 DEF Next

\* The file under the lock's name is the one every run past the lock has locked:
\* nothing removes it, so no later run makes another (acquireLock, cleanup).
THEOREM LockInvariance == Spec => []LockInv
  <1>1. Init => LockInv
    BY LockInit
  <1>2. LockInv /\ [Next]_vars => LockInv'
    BY LockNext
  <1> QED
    BY <1>1, <1>2, PTL DEF Spec

\* Two runs are never past the lock together, however many there are, whichever
\* opened the file first and however the one before ended (acquireLock).
THEOREM OneRunAtWorkAlways == Spec => []OneRunAtWork
  <1>1. LockInv => OneRunAtWork
    BY DEF LockInv, ShapeInv, FileInv, HeldInv, OnceInv, OneRunAtWork
  <1> QED
    BY <1>1, LockInvariance, PTL

-----------------------------------------------------------------------------
\* While nothing is refused and everything is read, a write says what it means:
\* what follows is about such a history, with any number of everything else.
Calm == faults = 0 /\ unread = 0

Stores    == {"windows", "gnome", "kde"}
Words     == {"on", "off", "auto", "none", "corp", "theirs", "local", "theirs and local", Ours, Unread}
Misses    == {"fail", "next", "both"}
Settings  == [mode : Words, http : Words, https : Words, bypass : Words]
Snapshots == [from : Stores \cup {"none"}, mode : Words, http : Words, https : Words, bypass : Words]
Cmds      == [key : Keys, val : Words, miss : Misses]

Host == settings[First]
HostInv == desktop \in Desktops /\ settings \in [Range(desktop) -> Settings]

\* An address is one a restore gives back as it was.
Named(s) == s.http \notin {"none", Unread}
OnOurs(s) == s.mode = "on" /\ s.http = Ours

\* A command of a write towards s sets the switch as s has it, and its address.
Aims(s, cmd) ==
  /\ cmd.key = "mode" => (cmd.val = "on" <=> Enabled(s))
  /\ cmd.key = "http" /\ Enabled(s) /\ Named(s) => cmd.val = s.http
Fits(s, cmds) == cmds \in Seq(Cmds) /\ \A i \in 1..Len(cmds) : Aims(s, cmds[i])

\* What has no command left is as s has it.
Ahead(cmds, key) == \E i \in 1..Len(cmds) : cmds[i].key = key
Reached(host, s, cmds) ==
  /\ Ahead(cmds, "mode") \/ (host.mode = "on" <=> Enabled(s))
  /\ Enabled(s) /\ Named(s) => Ahead(cmds, "http") \/ host.http = s.http

\* A write under way, what it is for and where its run is.
Underway(r) ==
  /\ call[r] = [k \in {"for", "state", "stores", "cmds", "began", "rolling"} |-> call[r][k]]
  /\ call[r].stores = desktop /\ ~call[r].rolling
  /\ call[r].state \in Snapshots
  /\ Fits(call[r].state, call[r].cmds) /\ Reached(Host, call[r].state, call[r].cmds)
  /\ \/ call[r].for = "clear" /\ pc[r] = "check" /\ ~Enabled(call[r].state)
     \/ call[r].for = "enable" /\ pc[r] = "core" /\ ~app[r].touched /\ call[r].state = OurState(app[r].original)
     \/ call[r].for = "restore" /\ pc[r] = "down" /\ app[r].touched /\ call[r].state = app[r].original
CallsInv == \A r \in Runs : call[r] = Idle \/ Underway(r)

\* A snapshot is held from the write of ours to the end of the session.
Holds(r) == app[r].touched \/ call[r].for = "enable"
Owes(r) ==
  /\ app[r].touched \in BOOLEAN /\ ~app[r].failed /\ app[r].original \in Snapshots
  /\ app[r].touched => pc[r] \in {"up", "down"}
AppInv == \A r \in Runs : Owes(r)

\* A session comes to its write with no address of ours before it.
Kept(r) ==
  /\ Holds(r) => ~OnOurs(app[r].original)
  /\ pc[r] = "core" /\ call[r] = Idle /\ app[r].kind = "proxy" => ~OnOurs(Host)
KeptInv == \A r \in Runs : Kept(r)

\* Unless a run was killed with ours in force, ours is there in a session only.
AtEase == \A r \in Runs : call[r] = Idle
HasAddress(r) == Holds(r) /\ Enabled(app[r].original) => Named(app[r].original) /\ app[r].original.http # Ours
BackInv ==
  /\ AtEase /\ Host.mode = "on" => Named(Host)
  /\ AtEase /\ OnOurs(Host) => \E r \in Runs : app[r].touched
  /\ \A r \in Runs : HasAddress(r)

\* The user's proxy, when it is on, has an address for HTTP.
Addressed == \A v \in Found : v.mode = "on" => v.http # "none"

CalmInv == HostInv /\ CallsInv /\ AppInv /\ KeptInv /\ (Addressed /\ struck # "left" => BackInv)
CountInv == faults \in Nat /\ unread \in Nat /\ (refusing => faults # 0)
SettingInv == LockInv /\ CountInv /\ (Calm => CalmInv)

-----------------------------------------------------------------------------
\* What a write is made of.
LEMMA FitsConcat ==
  ASSUME NEW s, NEW a, NEW b, Fits(s, a), Fits(s, b)
  PROVE  Fits(s, a \o b)
  <1>1. a \in Seq(Cmds) /\ b \in Seq(Cmds) /\ a \o b \in Seq(Cmds)
    BY DEF Fits
  <1>2. \A i \in 1..Len(a \o b) : \/ i \in 1..Len(a) /\ (a \o b)[i] = a[i]
                                  \/ i - Len(a) \in 1..Len(b) /\ (a \o b)[i] = b[i - Len(a)]
    BY <1>1
  <1> QED
    BY <1>1, <1>2 DEF Fits

LEMMA AheadConcat ==
  ASSUME NEW a \in Seq(Cmds), NEW b \in Seq(Cmds), NEW key, Ahead(a, key)
  PROVE  Ahead(a \o b, key)
  <1>1. Len(a) \in Nat /\ Len(b) \in Nat /\ Len(a \o b) = Len(a) + Len(b)
    OBVIOUS
  <1>2. \A i \in 1..Len(a) : (a \o b)[i] = a[i]
    OBVIOUS
  <1> QED
    BY <1>1, <1>2 DEF Ahead

LEMMA KnownFits ==
  ASSUME NEW s \in Snapshots, NEW key \in {"http", "https", "bypass"}, NEW miss \in Misses
  PROVE  Fits(s, Known(key, s, miss))
  <1>1. Cmd(key, s[key], miss) \in Cmds
    BY DEF Cmd, Cmds, Snapshots, Keys
  <1>2. Aims(s, Cmd(key, s[key], miss))
    BY DEF Aims, Cmd, Snapshots
  <1>3. Known(key, s, miss) = <<>> \/ Known(key, s, miss) = <<Cmd(key, s[key], miss)>>
    BY DEF Known
  <1>4. Fits(s, <<>>)
    BY DEF Fits
  <1>5. \A cmd \in Cmds : Aims(s, cmd) => Fits(s, <<cmd>>)
    BY DEF Fits
  <1> QED
    BY <1>1, <1>2, <1>3, <1>4, <1>5

LEMMA ModeFits ==
  ASSUME NEW s \in Snapshots, NEW val \in Words, NEW miss \in Misses, val = "on" <=> Enabled(s)
  PROVE  Fits(s, <<Cmd("mode", val, miss)>>)
  <1>1. Cmd("mode", val, miss) \in Cmds /\ Aims(s, Cmd("mode", val, miss))
    BY DEF Aims, Cmd, Cmds, Keys
  <1> QED
    BY <1>1 DEF Fits

\* The first command of a write is its switch, and the address is among the others.
LEMMA DesktopFits ==
  ASSUME NEW s \in Snapshots, NEW st, NEW host
  PROVE  /\ Fits(s, DesktopWrites(st, s))
         /\ Reached(host, s, DesktopWrites(st, s))
  <1>1. CASE Enabled(s)
    <2> DEFINE a == << Cmd("mode", "on", "fail"), Cmd("http", Server(s), "fail"), Cmd("https", SecureServer(s), "fail") >>
               b == Known("bypass", s, "fail")
    <2>1. Server(s) \in Words /\ SecureServer(s) \in Words
      BY DEF Server, SecureServer, Snapshots, Words
    <2>2. \A i \in 1..3 : a[i] \in Cmds /\ Aims(s, a[i])
      <3>1. Named(s) => Server(s) = s.http
        BY DEF Named, Server
      <3>2. a[1] \in Cmds /\ a[2] \in Cmds /\ a[3] \in Cmds
        BY <2>1 DEF Cmd, Cmds, Keys, Misses, Words
      <3>3. Aims(s, a[1]) /\ Aims(s, a[2]) /\ Aims(s, a[3])
        BY <1>1, <3>1 DEF Cmd, Aims
      <3> QED
        BY <3>2, <3>3
    <2>3. Fits(s, a)
      BY <2>2 DEF Fits
    <2>4. Fits(s, b)
      BY KnownFits DEF Misses
    <2>5. DesktopWrites(st, s) = a \o b
      BY <1>1 DEF DesktopWrites
    <2>6. a \in Seq(Cmds) /\ b \in Seq(Cmds) /\ Len(a) = 3
      BY <2>3, <2>4 DEF Fits
    <2> HIDE DEF b
    <2>7. Ahead(a, "mode") /\ Ahead(a, "http")
      BY <2>6 DEF Ahead, Cmd
    <2>8. Reached(host, s, a \o b)
      BY <2>6, <2>7, AheadConcat DEF Reached
    <2> QED
      BY <2>3, <2>4, <2>5, <2>8, FitsConcat
  <1>2. CASE ~Enabled(s)
    <2> DEFINE a == << Cmd("mode", ModeBack(st, s), "fail") >>
               b == Known("http", s, IF st = "gnome" THEN "both" ELSE "next")
               c == Known("https", s, "next")
               d == Known("bypass", s, "next")
    <2>1. ModeBack(st, s) \in {"off", "auto"}
      BY DEF ModeBack
    <2>2. Fits(s, a)
      BY <1>2, <2>1, ModeFits DEF Misses, Words
    <2>3. Fits(s, b) /\ Fits(s, c) /\ Fits(s, d)
      BY KnownFits DEF Misses
    <2>4. DesktopWrites(st, s) = a \o b \o c \o d
      BY <1>2 DEF DesktopWrites
    <2>5. a \in Seq(Cmds) /\ b \in Seq(Cmds) /\ c \in Seq(Cmds) /\ d \in Seq(Cmds) /\ Len(a) = 1 /\ a[1].key = "mode"
      BY <2>2, <2>3 DEF Fits, Cmd
    <2> HIDE DEF a, b, c, d
    <2>7. Ahead(a \o b \o c \o d, "mode")
      <3>1. Ahead(a, "mode")
        BY <2>5 DEF Ahead
      <3>2. a \o b \in Seq(Cmds) /\ a \o b \o c \in Seq(Cmds)
        BY <2>5
      <3> QED
        BY <2>5, <3>1, <3>2, AheadConcat
    <2>8. Fits(s, a \o b \o c \o d)
      BY <2>2, <2>3, FitsConcat
    <2> QED
      BY <1>2, <2>4, <2>7, <2>8 DEF Reached
  <1> QED
    BY <1>1, <1>2

LEMMA WritesFit ==
  ASSUME NEW s \in Snapshots, NEW st, NEW host
  PROVE  Fits(s, Writes(st, s)) /\ Reached(host, s, Writes(st, s))
  <1>1. CASE st = "windows"
    <2> DEFINE a == RegistryWrites(s)
    <2>1. Len(a) = 3 /\ a[1] = Cmd("mode", s.mode, "fail") /\ a[2] = Cmd("http", s.http, "fail") /\ a[3] = Cmd("bypass", s.bypass, "fail")
      BY DEF RegistryWrites
    <2>2. \A i \in 1..3 : a[i] \in Cmds /\ Aims(s, a[i])
      BY <2>1 DEF Cmd, Cmds, Aims, Snapshots, Enabled, Keys, Misses
    <2>3. a \in Seq(Cmds)
      BY <2>2 DEF RegistryWrites
    <2>4. Ahead(a, "mode") /\ Ahead(a, "http")
      BY <2>1 DEF Ahead, Cmd
    <2> QED
      BY <1>1, <2>1, <2>2, <2>3, <2>4 DEF Writes, Fits, Reached
  <1>2. CASE st # "windows"
    BY <1>2, DesktopFits DEF Writes
  <1> QED
    BY <1>1, <1>2

-----------------------------------------------------------------------------
\* The steps of a calm history.
LEMMA HostRead ==
  ASSUME HostInv
  PROVE  /\ First \in Range(desktop) /\ First \in Stores /\ Head(desktop) = First
         /\ Host \in Settings
         /\ Snapshot(First) \in Snapshots
         /\ Snapshot(First).from = First /\ Snapshot(First).mode = Host.mode /\ Snapshot(First).http = Host.http
  <1>1. First \in Range(desktop) /\ First \in Stores /\ Head(desktop) = First
    BY SystemProxyAssumption DEF HostInv, First, Range, Stores
  <1>2. Host \in Settings
    BY <1>1 DEF HostInv, Host
  <1>3. Snapshot(First) = [from |-> First, mode |-> Host.mode, http |-> Host.http, https |-> Host.https, bypass |-> Host.bypass]
    BY DEF Snapshot, Keys, Host
  <1> QED
    BY <1>1, <1>2, <1>3 DEF Settings, Snapshots

LEMMA Alone ==
  ASSUME LockInv, CalmInv, NEW r \in Runs, Atwork(r)
  PROVE  \A q \in Runs \ {r} : ~Atwork(q) /\ call[q] = Idle /\ ~app[q].touched /\ ~Holds(q)
  <1> SUFFICES ASSUME NEW q \in Runs \ {r}
               PROVE  ~Atwork(q) /\ call[q] = Idle /\ ~app[q].touched /\ ~Holds(q)
    OBVIOUS
  <1>1. ~Atwork(q)
    BY DEF LockInv, ShapeInv, FileInv, HeldInv, OnceInv
  <1>2. call[q] = Idle
    BY <1>1, WritingAtWork
  <1>3. ~app[q].touched
    BY <1>1 DEF CalmInv, AppInv, Owes, Atwork
  <1> QED
    BY <1>1, <1>2, <1>3 DEF Holds, Idle

\* A step of a run past the lock is a matter of that run and the host.
Own(r) ==
  /\ UNCHANGED desktop
  /\ pc' = [pc EXCEPT ![r] = pc'[r]] /\ app' = [app EXCEPT ![r] = app'[r]] /\ call' = [call EXCEPT ![r] = call'[r]]
Returns(r) ==
  /\ call[r] = Idle /\ Host.mode = "on" => Named(Host) /\ (Host.http = Ours => app[r].touched)
  /\ HasAddress(r)

LEMMA OwnKeeps ==
  ASSUME LockInv, CalmInv, NEW r \in Runs, Atwork(r), Own(r),
         HostInv', call'[r] = Idle \/ Underway(r)', Owes(r)', Kept(r)', Addressed /\ struck' # "left" => Returns(r)'
  PROVE  CalmInv'
  <1>1. \A q \in Runs \ {r} : ~Atwork(q) /\ call[q] = Idle /\ ~app[q].touched /\ ~Holds(q)
    BY Alone
  <1>2. \A q \in Runs \ {r} : pc'[q] = pc[q] /\ app'[q] = app[q] /\ call'[q] = call[q]
    BY DEF Own, LockInv, ShapeInv
  <1>3. CallsInv'
    BY <1>1, <1>2 DEF CallsInv
  <1>4. AppInv'
    BY <1>2 DEF CalmInv, AppInv, Owes
  <1>5. KeptInv'
    BY <1>1, <1>2 DEF KeptInv, Kept, Holds, Atwork
  <1>6. Addressed /\ struck' # "left" => BackInv'
    BY <1>1, <1>2 DEF BackInv, Returns, AtEase, HasAddress, Holds, OnOurs
  <1> QED
    BY <1>3, <1>4, <1>5, <1>6 DEF CalmInv

\* A step that writes nothing, at a place without a write.
Quiet(r) ==
  /\ UNCHANGED <<desktop, settings, struck, call>> /\ call[r] = Idle
  /\ pc' = [pc EXCEPT ![r] = pc'[r]] /\ pc'[r] # "core"
  /\ app' = [app EXCEPT ![r] = app'[r]]
  /\ ~app'[r].failed /\ app'[r].original \in Snapshots /\ app'[r].touched = app[r].touched
  /\ app[r].touched => app'[r].original = app[r].original /\ pc'[r] \in {"up", "down"}

LEMMA QuietKeeps ==
  ASSUME LockInv, CalmInv, NEW r \in Runs, Quiet(r)
  PROVE  CalmInv'
  <1>1. \A q \in Runs \ {r} : pc'[q] = pc[q] /\ app'[q] = app[q]
    BY DEF Quiet, LockInv, ShapeInv
  <1>2. UNCHANGED <<Host, desktop, call>> /\ call[r] = Idle
    BY DEF Quiet, Host, First
  <1>3. HostInv'
    BY <1>2 DEF Quiet, CalmInv, HostInv
  <1>4. CallsInv'
    <2> SUFFICES ASSUME NEW q \in Runs, call[q] # Idle
                 PROVE  Underway(q)'
      BY <1>2 DEF CallsInv
    <2>1. pc'[q] = pc[q] /\ app'[q] = app[q] /\ Underway(q)
      BY <1>1, <1>2 DEF CalmInv, CallsInv
    <2>2. OurState(app[q].original)' = OurState(app[q].original)
      BY <1>2, <2>1 DEF OurState, Exceptions, Windows
    <2> QED
      BY <1>2, <2>1, <2>2 DEF Underway
  <1>5. AppInv'
    BY <1>1 DEF Quiet, CalmInv, AppInv, Owes
  <1>6. \A q \in Runs : Holds(q)' = Holds(q) /\ (Holds(q) => app'[q].original = app[q].original)
    BY <1>1, <1>2 DEF Quiet, Holds, Idle
  <1>7. KeptInv'
    BY <1>1, <1>2, <1>6 DEF Quiet, CalmInv, KeptInv, Kept
  <1>8. ASSUME Addressed, struck' # "left" PROVE BackInv'
    <2>1. BackInv
      BY <1>8 DEF Quiet, CalmInv
    <2>2. AtEase' = AtEase /\ \A q \in Runs : app'[q].touched = app[q].touched
      BY <1>1, <1>2 DEF AtEase, Quiet
    <2> QED
      BY <1>2, <1>6, <2>1, <2>2 DEF BackInv, HasAddress
  <1> QED
    BY <1>3, <1>4, <1>5, <1>7, <1>8 DEF CalmInv

LEMMA MovesQuiet ==
  ASSUME LockInv, CalmInv, NEW r \in Runs,
         StartSession(r) \/ NotStarted(r) \/ BringUpFails(r) \/ End(r) \/ Quit(r)
  PROVE  Quiet(r)
  <1> USE DEF LockInv, ShapeInv
  <1>1. UNCHANGED <<desktop, settings, struck, call, app>>
    BY DEF StartSession, NotStarted, BringUpFails, End, Quit, machine, truth
  <1>2. \/ pc[r] \in {"menu", "resolve", "core"} /\ \E to \in {"start", "menu", "down", "exit"} : pc' = [pc EXCEPT ![r] = to]
        \/ pc[r] = "up" /\ pc' = [pc EXCEPT ![r] = "down"]
    BY DEF StartSession, NotStarted, BringUpFails, End, Quit
  <1>3. call[r] = Idle
    BY DEF StartSession, NotStarted, BringUpFails, End, Quit, CallInv, Writing
  <1>4. Owes(r)
    BY DEF CalmInv, AppInv
  <1> QED
    BY <1>1, <1>2, <1>3, <1>4 DEF Quiet, Owes

LEMMA ResolveQuiet ==
  ASSUME LockInv, CalmInv, NEW r \in Runs, Resolve(r)
  PROVE  Quiet(r)
  <1> USE DEF LockInv, ShapeInv
  <1>1. PICK kind : app' = [app EXCEPT ![r].kind = kind]
                    /\ pc' = [pc EXCEPT ![r] = IF kind = "remote" THEN "up" ELSE "check"]
    BY DEF Resolve
  <1>2. UNCHANGED <<desktop, settings, struck, call>> /\ pc[r] = "resolve" /\ call[r] = Idle
    BY DEF Resolve, machine, truth, CallInv, Writing
  <1>3. Owes(r) /\ IsApp(app[r])
    BY DEF CalmInv, AppInv
  <1>4. app'[r].touched = app[r].touched /\ app'[r].failed = app[r].failed /\ app'[r].original = app[r].original
    BY <1>1, <1>3 DEF IsApp, Fields
  <1> QED
    BY <1>1, <1>2, <1>3, <1>4 DEF Quiet, Owes

LEMMA SwitchModeQuiet ==
  ASSUME LockInv, CalmInv, NEW r \in Runs, SwitchMode(r)
  PROVE  Quiet(r)
  <1> USE DEF LockInv, ShapeInv
  <1>1. PICK next : app' = [app EXCEPT ![r].mode = next] /\ pc' = [pc EXCEPT ![r] = "down"]
    BY DEF SwitchMode
  <1>2. UNCHANGED <<desktop, settings, struck, call>> /\ pc[r] = "up" /\ call[r] = Idle
    BY DEF SwitchMode, machine, truth, CallInv, Writing
  <1>3. Owes(r) /\ IsApp(app[r])
    BY DEF CalmInv, AppInv
  <1>4. app'[r].touched = app[r].touched /\ app'[r].failed = app[r].failed /\ app'[r].original = app[r].original
    BY <1>1, <1>3 DEF IsApp, Fields
  <1> QED
    BY <1>1, <1>2, <1>3, <1>4 DEF Quiet, Owes

LEMMA NoAppIsQuiet ==
  /\ NoSnapshot \in Snapshots
  /\ NoApp.touched = FALSE /\ NoApp.failed = FALSE /\ NoApp.original \in Snapshots
  /\ \A env, mode, file :
       LET a == [NewApp(env, mode) EXCEPT !.file = file]
       IN a.touched = FALSE /\ a.failed = FALSE /\ a.original \in Snapshots
  BY DEF NoApp, NewApp, NoSnapshot, Snapshots, Words

LEMMA LaunchQuiet ==
  ASSUME LockInv, CalmInv, NEW r \in Runs, Launch(r)
  PROVE  Quiet(r)
  <1> USE DEF LockInv, ShapeInv
  <1>1. PICK env, mode :
          \/ /\ app' = [app EXCEPT ![r] = [NewApp(env, mode) EXCEPT !.file = lockfile']]
             /\ pc' = [pc EXCEPT ![r] = "opened"]
          \/ pc' = [pc EXCEPT ![r] = "gone"] /\ UNCHANGED app
    BY DEF Launch
  <1>2. UNCHANGED <<desktop, settings, struck, call>> /\ pc[r] = "off" /\ call[r] = Idle
    BY DEF Launch, machine, truth, CallInv, Writing
  <1>3. Owes(r)
    BY DEF CalmInv, AppInv
  <1>4. ~app[r].touched
    BY <1>2, <1>3 DEF Owes
  <1>5. CASE pc' = [pc EXCEPT ![r] = "gone"] /\ UNCHANGED app
    BY <1>2, <1>3, <1>4, <1>5 DEF Quiet, Owes
  <1>6. CASE /\ app' = [app EXCEPT ![r] = [NewApp(env, mode) EXCEPT !.file = lockfile']]
             /\ pc' = [pc EXCEPT ![r] = "opened"]
    <2>1. app'[r] = [NewApp(env, mode) EXCEPT !.file = lockfile']
      BY <1>6
    <2>2. app'[r].touched = FALSE /\ app'[r].failed = FALSE /\ app'[r].original \in Snapshots
      BY <2>1, NoAppIsQuiet
    <2>3. app' = [app EXCEPT ![r] = app'[r]] /\ pc' = [pc EXCEPT ![r] = pc'[r]] /\ pc'[r] = "opened"
      BY <1>6
    <2>4. app[r].touched = FALSE
      BY <1>3, <1>4 DEF Owes
    <2> QED
      BY <1>2, <2>2, <2>3, <2>4 DEF Quiet
  <1> QED
    BY <1>1, <1>5, <1>6

\* A run that goes with nothing of its own in force.
LEMMA LeavingQuiet ==
  ASSUME LockInv, CalmInv, NEW r \in Runs,
         TakeLock(r) \/ Unlock(r) \/ (Kill(r) /\ ~InForce(r))
  PROVE  Quiet(r)
  <1> USE DEF LockInv, ShapeInv
  <1>1. Owes(r)
    BY DEF CalmInv, AppInv
  <1>2. CASE TakeLock(r)
    <2>1. UNCHANGED <<desktop, settings, struck, call>> /\ pc[r] = "opened" /\ call[r] = Idle
      BY <1>2 DEF TakeLock, machine, truth, CallInv, Writing
    <2>2. (pc' = [pc EXCEPT ![r] = "menu"] /\ UNCHANGED app) \/ Gone(r)
      BY <1>2 DEF TakeLock
    <2> QED
      BY <1>1, <2>1, <2>2, NoAppIsQuiet DEF Quiet, Owes, Gone
  <1>3. CASE Unlock(r)
    <2>1. UNCHANGED <<desktop, settings, call>> /\ pc[r] = "unlock" /\ call[r] = Idle /\ Gone(r)
      BY <1>3 DEF Unlock, machine, CallInv, Writing
    <2>2. ~app[r].touched
      BY <1>1, <2>1 DEF Owes
    <2>3. UNCHANGED struck
      BY <1>3, <2>2 DEF Unlock
    <2> QED
      BY <1>1, <2>1, <2>2, <2>3, NoAppIsQuiet DEF Quiet, Owes, Gone
  <1>4. CASE Kill(r) /\ ~InForce(r)
    <2>1. ~app[r].touched /\ call[r] = Idle
      BY <1>4 DEF InForce, Kill
    <2>2. UNCHANGED <<desktop, settings, struck, call>> /\ Gone(r)
      BY <1>4, <2>1 DEF Kill, machine
    <2> QED
      BY <1>1, <2>1, <2>2, NoAppIsQuiet DEF Quiet, Owes, Gone
  <1> QED
    BY <1>2, <1>3, <1>4

LEMMA KillKeeps ==
  ASSUME LockInv, CalmInv, NEW r \in Runs, Kill(r), InForce(r)
  PROVE  CalmInv'
  <1> USE DEF LockInv, ShapeInv
  <1>1. /\ UNCHANGED <<desktop, settings>> /\ Atwork(r) /\ struck' = "left"
        /\ pc' = [pc EXCEPT ![r] = "gone"] /\ app' = [app EXCEPT ![r] = NoApp] /\ call' = [call EXCEPT ![r] = Idle]
    BY DEF Kill, Gone, machine
  <1>2. Own(r) /\ pc'[r] = "gone" /\ app'[r] = NoApp /\ call'[r] = Idle
    BY <1>1 DEF Own
  <1>3. HostInv'
    BY <1>1 DEF CalmInv, HostInv
  <1>4. Owes(r)'
    BY <1>2, NoAppIsQuiet DEF Owes
  <1>5. Kept(r)'
    BY <1>2, NoAppIsQuiet DEF Kept, Holds, Idle
  <1> QED
    BY <1>1, <1>2, <1>3, <1>4, <1>5, OwnKeeps

\* What the user sets is no address of ours.
LEMMA UserSetsKeeps ==
  ASSUME LockInv, CalmInv, UserSets
  PROVE  CalmInv'
  <1>1. PICK v \in UsersSettings : settings' = [settings EXCEPT ![First] = v]
    BY DEF UserSets
  <1>2. UNCHANGED <<desktop, pc, app, call, struck>> /\ \A r \in Runs : call[r] = Idle
    BY DEF UserSets
  <1>3. v \in Settings /\ v.http \in {"none", "corp"} /\ (Addressed /\ v.mode = "on" => v.http # "none")
    <2>1. v \in Found \/ \E w \in Found : v = [w EXCEPT !.https = "none"]
      BY DEF UsersSettings
    <2> QED
      BY <2>1, SystemProxyAssumption DEF Settings, Words, Addressed
  <1>4. Host' = v /\ HostInv'
    <2>1. First \in Range(desktop) /\ First' = First
      BY <1>2, HostRead DEF CalmInv, First
    <2> QED
      BY <1>1, <1>2, <1>3, <2>1 DEF CalmInv, HostInv, Host
  <1>5. ~OnOurs(Host') /\ (Addressed /\ Host'.mode = "on" => Named(Host'))
    BY <1>3, <1>4 DEF OnOurs, Named, Ours, Unread
  <1>6. CallsInv' /\ AppInv'
    BY <1>2 DEF CallsInv, CalmInv, AppInv, Owes
  <1>7. \A r \in Runs : Holds(r)' = Holds(r)
    BY <1>2 DEF Holds
  <1>8. KeptInv'
    BY <1>2, <1>5, <1>7 DEF CalmInv, KeptInv, Kept
  <1>9. ASSUME Addressed, struck' # "left" PROVE BackInv'
    BY <1>2, <1>5, <1>7, <1>9 DEF CalmInv, BackInv, HasAddress
  <1> QED
    BY <1>4, <1>6, <1>8, <1>9 DEF CalmInv

-----------------------------------------------------------------------------
\* The writes: how each begins, goes on and ends.
LEMMA WriteBegins ==
  ASSUME NEW r \in Runs, ShapeInv, NEW for, NEW s \in Snapshots, UNCHANGED <<desktop, settings>>,
         call' = [call EXCEPT ![r] = Write(for, s)],
         \/ for = "clear" /\ pc'[r] = "check" /\ ~Enabled(s)
         \/ for = "enable" /\ pc'[r] = "core" /\ ~app'[r].touched /\ s = OurState(app'[r].original)
         \/ for = "restore" /\ pc'[r] = "down" /\ app'[r].touched /\ s = app'[r].original
  PROVE  Underway(r)' /\ call'[r].for = for /\ call'[r] # Idle
  <1>1. call'[r] = [for |-> for, state |-> s, stores |-> desktop, cmds |-> Writes(First, s), began |-> FALSE, rolling |-> FALSE]
    BY DEF Write, ShapeInv
  <1>2. Fits(s, Writes(First, s)) /\ Reached(Host', s, Writes(First, s))
    BY WritesFit
  <1> DEFINE c == call'[r]
  <1>3. /\ c = [k \in {"for", "state", "stores", "cmds", "began", "rolling"} |-> c[k]]
        /\ c.for = for /\ c.state = s /\ c.stores = desktop' /\ c.cmds = Writes(First, s) /\ ~c.rolling
    BY <1>1
  <1>4. OurState(app'[r].original) = OurState(app[r].original)'
    BY DEF OurState, Exceptions, Windows
  <1>5. c # Idle
    BY <1>3 DEF Idle
  <1> QED
    BY <1>2, <1>3, <1>4, <1>5 DEF Underway

LEMMA WriteDone ==
  ASSUME CalmInv, NEW r \in Runs, Over(call[r])
  PROVE  /\ Underway(r) /\ call[r] # Idle /\ ~Failed(call[r]) /\ call[r].cmds = <<>>
         /\ Host.mode = "on" <=> Enabled(call[r].state)
         /\ Enabled(call[r].state) /\ Named(call[r].state) => Host.http = call[r].state.http
  <1>1. call[r] # Idle /\ Underway(r) /\ call[r].cmds = <<>>
    BY OverIsWriting DEF CalmInv, CallsInv, Over
  <1>2. ~Failed(call[r])
    BY <1>1, SystemProxyAssumption DEF CalmInv, HostInv, Underway, Failed
  <1>3. \A key : ~Ahead(call[r].cmds, key)
    BY <1>1 DEF Ahead
  <1> QED
    BY <1>1, <1>2, <1>3 DEF Underway, Reached

LEMMA WarnKeeps ==
  ASSUME LockInv, CalmInv, CountInv, Calm', NEW r \in Runs, WarnDeadLoopbackProxy(r)
  PROVE  CalmInv'
  <1> USE DEF LockInv, ShapeInv
  <1>1. /\ UNCHANGED <<desktop, settings, app, struck>> /\ pc[r] = "check" /\ call[r] = Idle /\ Atwork(r)
        /\ Owes(r) /\ ~app[r].touched /\ ~Holds(r)
    BY DEF WarnDeadLoopbackProxy, machine, truth, Atwork, CalmInv, AppInv, Owes, Holds, Idle
  <1>2. \A s : Reads(s) => s = Snapshot(First)
    BY DEF Reads, CountInv, Calm
  <1>3. HostInv' /\ Snapshot(First).mode = Host.mode /\ Snapshot(First).http = Host.http /\ Host' = Host
    BY <1>1, HostRead DEF CalmInv, HostInv, Host, First
  <1>4. CASE call' = [call EXCEPT ![r] = Write("clear", Cleared)] /\ UNCHANGED pc
    <2>1. Cleared \in Snapshots /\ ~Enabled(Cleared)
      BY DEF Cleared, Snapshots, Words, Enabled
    <2>2. Underway(r)' /\ call'[r].for = "clear" /\ call'[r] # Idle
      BY <1>1, <1>4, <2>1, WriteBegins
    <2>3. ~Holds(r)' /\ Owes(r)' /\ Kept(r)' /\ Returns(r)'
      BY <1>1, <1>4, <2>2 DEF Holds, Owes, Kept, Returns, HasAddress
    <2>4. Own(r)
      BY <1>1, <1>4 DEF Own
    <2> QED
      BY <1>1, <1>3, <2>2, <2>3, <2>4, OwnKeeps
  <1>5. CASE pc' = [pc EXCEPT ![r] = "core"] /\ UNCHANGED call /\ ~DeadOurs(r, Snapshot(First))
    <2>1. \A q \in Runs : ~Serving(q)
      BY <1>1, Alone DEF Serving, Atwork
    <2>2. app[r].kind = "proxy" => ~OnOurs(Host)
      BY <1>3, <1>5, <2>1 DEF DeadOurs, OnOurs, Enabled
    <2>3. Own(r) /\ ~Holds(r)' /\ Owes(r)' /\ Kept(r)'
      BY <1>1, <1>3, <1>5, <2>2 DEF Own, Holds, Owes, Kept
    <2>4. ASSUME Addressed, struck' # "left" PROVE Returns(r)'
      <3>1. AtEase /\ \A q \in Runs : ~app[q].touched
        BY <1>1, Alone DEF AtEase
      <3>2. BackInv
        BY <1>1, <2>4 DEF CalmInv
      <3> QED
        BY <1>3, <2>3, <3>1, <3>2 DEF BackInv, Returns, HasAddress, OnOurs
    <2> QED
      BY <1>1, <1>3, <1>5, <2>3, <2>4, OwnKeeps
  <1> QED
    BY <1>2, <1>4, <1>5 DEF WarnDeadLoopbackProxy

LEMMA ClearedDeadKeeps ==
  ASSUME LockInv, CalmInv, NEW r \in Runs, ClearedDead(r)
  PROVE  CalmInv'
  <1> USE DEF LockInv, ShapeInv
  <1>1. call[r].for = "clear" /\ Over(call[r]) /\ Goes(r, "core", app[r]) /\ UNCHANGED <<desktop, settings>>
    BY DEF ClearedDead, machine
  <1>2. call[r] # Idle /\ pc[r] = "check" /\ Host.mode # "on"
    BY <1>1, WriteDone DEF Underway
  <1>3. Atwork(r) /\ Owes(r) /\ ~app[r].touched
    BY <1>2 DEF Atwork, CalmInv, AppInv, Owes
  <1>4. Own(r) /\ call'[r] = Idle /\ app'[r] = app[r] /\ Host' = Host /\ HostInv'
    BY <1>1 DEF Own, Goes, CalmInv, HostInv, Host, First
  <1>5. ~Holds(r)' /\ Owes(r)'
    BY <1>3, <1>4 DEF Holds, Owes, Idle
  <1>6. Kept(r)' /\ Returns(r)'
    BY <1>2, <1>4, <1>5 DEF Kept, Returns, HasAddress, OnOurs
  <1> QED
    BY <1>3, <1>4, <1>5, <1>6, OwnKeeps

LEMMA BringUpKeeps ==
  ASSUME LockInv, CalmInv, CountInv, Calm', NEW r \in Runs, BringUp(r)
  PROVE  CalmInv'
  <1> USE DEF LockInv, ShapeInv
  <1>1. /\ UNCHANGED <<desktop, settings, struck>> /\ pc[r] = "core" /\ call[r] = Idle /\ Atwork(r)
        /\ Owes(r) /\ ~app[r].touched /\ IsApp(app[r])
    BY DEF BringUp, machine, truth, Atwork, CalmInv, AppInv, Owes
  <1>2. CASE pc' = [pc EXCEPT ![r] = "up"] /\ UNCHANGED <<app, call>>
    <2>1. Quiet(r)
      BY <1>1, <1>2 DEF Quiet, Owes
    <2> QED
      BY <2>1, QuietKeeps
  <1>3. ASSUME app[r].kind = "proxy", NEW s, Original(r, s), app' = [app EXCEPT ![r].original = s],
               IF Windows /\ s.from = "none" THEN TRUE
               ELSE call' = [call EXCEPT ![r] = Write("enable", OurState(s))] /\ UNCHANGED pc
        PROVE  CalmInv'
    <2>1. s = Snapshot(First)
      BY <1>1, <1>3 DEF Original, Reads, CountInv, Calm
    <2>2. s \in Snapshots /\ s.from \in Stores /\ s.mode = Host.mode /\ s.http = Host.http /\ Host' = Host /\ HostInv'
      BY <1>1, <2>1, HostRead DEF CalmInv, HostInv, Host, First
    <2>3. call' = [call EXCEPT ![r] = Write("enable", OurState(s))] /\ UNCHANGED pc
      BY <1>3, <2>2 DEF Stores
    <2>4. app'[r].original = s /\ app'[r].touched = app[r].touched /\ app'[r].failed = app[r].failed
      BY <1>1, <1>3 DEF IsApp, Fields
    <2>5. OurState(s) \in Snapshots
      BY <2>2 DEF OurState, Exceptions, Snapshots, Words
    <2>6. Underway(r)' /\ call'[r].for = "enable" /\ call'[r] # Idle
      <3>1. OurState(s) = OurState(app'[r].original)
        BY <2>4
      <3> QED
        BY <1>1, <2>3, <2>4, <2>5, <3>1, WriteBegins
    <2>7. Own(r) /\ Owes(r)'
      BY <1>1, <1>3, <2>2, <2>3, <2>4 DEF Own, Owes
    <2>8. Kept(r)'
      BY <1>1, <1>3, <2>2, <2>4, <2>6 DEF CalmInv, KeptInv, Kept, OnOurs
    <2>9. ASSUME Addressed, struck' # "left" PROVE Returns(r)'
      <3>1. AtEase /\ \A q \in Runs : ~app[q].touched
        BY <1>1, Alone DEF AtEase
      <3>2. BackInv
        BY <1>1, <2>9 DEF CalmInv
      <3>3. Enabled(s) => Named(s) /\ s.http # Ours
        BY <2>2, <3>1, <3>2 DEF BackInv, Enabled, OnOurs, Named
      <3> QED
        BY <2>4, <2>6, <3>3 DEF Returns, HasAddress
    <2> QED
      BY <1>1, <2>2, <2>6, <2>7, <2>8, <2>9, OwnKeeps
  <1> QED
    <2>1. CASE app[r].kind # "proxy" \/ ~app[r].system
      BY <1>2, <2>1 DEF BringUp
    <2>2. CASE ~(app[r].kind # "proxy" \/ ~app[r].system)
      <3>1. PICK s : /\ Original(r, s) /\ app' = [app EXCEPT ![r].original = s]
                     /\ IF Windows /\ s.from = "none" THEN TRUE
                        ELSE call' = [call EXCEPT ![r] = Write("enable", OurState(s))] /\ UNCHANGED pc
        BY <2>2 DEF BringUp
      <3> QED
        BY <1>3, <2>2, <3>1
    <2> QED
      BY <2>1, <2>2

LEMMA BroughtKeeps ==
  ASSUME LockInv, CalmInv, NEW r \in Runs, Brought(r)
  PROVE  CalmInv'
  <1> USE DEF LockInv, ShapeInv
  <1>1. call[r].for = "enable" /\ Over(call[r]) /\ UNCHANGED <<desktop, settings, struck>>
    BY DEF Brought, machine, truth
  <1>2. /\ call[r] # Idle /\ ~Failed(call[r]) /\ pc[r] = "core" /\ call[r].state = OurState(app[r].original)
        /\ Host.mode = "on" <=> Enabled(call[r].state)
        /\ Enabled(call[r].state) /\ Named(call[r].state) => Host.http = call[r].state.http
    BY <1>1, WriteDone DEF Underway
  <1>3. Goes(r, "up", [app[r] EXCEPT !.touched = TRUE])
    BY <1>2 DEF Brought
  <1>4. Host.http = Ours
    BY <1>2 DEF OurState, Enabled, Named, Ours, Unread
  <1>5. Atwork(r) /\ Owes(r) /\ Kept(r) /\ IsApp(app[r]) /\ Holds(r)
    BY <1>1, <1>2 DEF Atwork, CalmInv, AppInv, KeptInv, Holds
  <1>6. /\ Own(r) /\ call'[r] = Idle /\ pc'[r] = "up" /\ Host' = Host /\ HostInv'
        /\ app'[r].touched = TRUE /\ app'[r].failed = app[r].failed /\ app'[r].original = app[r].original
    BY <1>1, <1>3, <1>5 DEF Own, Goes, CalmInv, HostInv, Host, First, IsApp, Fields
  <1>7. Owes(r)' /\ Kept(r)'
    BY <1>5, <1>6 DEF Owes, Kept
  <1>8. ASSUME Addressed, struck' # "left" PROVE Returns(r)'
    <2>1. HasAddress(r)
      BY <1>1, <1>8 DEF CalmInv, BackInv
    <2> QED
      BY <1>4, <1>5, <1>6, <2>1 DEF Returns, HasAddress, Named, Ours, Unread
  <1> QED
    BY <1>5, <1>6, <1>7, <1>8, OwnKeeps

LEMMA RestoreKeeps ==
  ASSUME LockInv, CalmInv, NEW r \in Runs, Restore(r)
  PROVE  CalmInv'
  <1> USE DEF LockInv, ShapeInv
  <1>1. UNCHANGED <<desktop, settings, struck>> /\ Restoring(pc[r]) /\ call[r] = Idle /\ Owes(r) /\ Kept(r) /\ Atwork(r)
    BY DEF Restore, machine, truth, CalmInv, AppInv, KeptInv, Restoring, Atwork
  <1>2. CASE ~app[r].touched
    <2>1. pc' = [pc EXCEPT ![r] = Then(pc[r])] /\ UNCHANGED <<app, call>>
      BY <1>2 DEF Restore
    <2>2. Then(pc[r]) # "core"
      BY <1>1 DEF Then, Restoring
    <2>3. Quiet(r)
      BY <1>1, <1>2, <2>1, <2>2 DEF Quiet, Owes
    <2> QED
      BY <2>3, QuietKeeps
  <1>3. CASE app[r].touched
    <2>1. pc[r] = "down" /\ ~app[r].failed /\ app[r].original \in Snapshots
      BY <1>1, <1>3 DEF Owes, Restoring
    <2>2. call' = [call EXCEPT ![r] = Write("restore", app[r].original)] /\ UNCHANGED <<app, pc>>
      BY <1>3, <2>1 DEF Restore
    <2>3. Underway(r)' /\ call'[r].for = "restore" /\ call'[r] # Idle
      BY <1>1, <1>3, <2>1, <2>2, WriteBegins
    <2>4. Own(r) /\ HostInv' /\ Owes(r)' /\ Holds(r) /\ Kept(r)'
      BY <1>1, <1>3, <2>1, <2>2, <2>3 DEF Own, CalmInv, HostInv, Owes, Holds, Kept
    <2>5. ASSUME Addressed, struck' # "left" PROVE Returns(r)'
      <3>1. HasAddress(r)
        BY <1>1, <2>5 DEF CalmInv, BackInv
      <3> QED
        BY <2>2, <2>3, <2>4, <3>1 DEF Returns, HasAddress
    <2> QED
      BY <1>1, <2>3, <2>4, <2>5, OwnKeeps
  <1> QED
    BY <1>2, <1>3

LEMMA RestoredKeeps ==
  ASSUME LockInv, CalmInv, NEW r \in Runs, Restored(r)
  PROVE  CalmInv'
  <1> USE DEF LockInv, ShapeInv
  <1>1. call[r].for = "restore" /\ Over(call[r]) /\ UNCHANGED <<desktop, settings, struck>>
    BY DEF Restored, machine, truth
  <1>2. /\ call[r] # Idle /\ ~Failed(call[r]) /\ pc[r] = "down" /\ app[r].touched /\ call[r].state = app[r].original
        /\ Host.mode = "on" <=> Enabled(call[r].state)
        /\ Enabled(call[r].state) /\ Named(call[r].state) => Host.http = call[r].state.http
    BY <1>1, WriteDone DEF Underway
  <1>3. Goes(r, "release", GivenBack(app[r]))
    BY <1>2 DEF Restored, Then
  <1>4. Atwork(r) /\ IsApp(app[r])
    BY <1>2 DEF Atwork
  <1>5. /\ Own(r) /\ call'[r] = Idle /\ pc'[r] = "release" /\ Host' = Host /\ HostInv'
        /\ app'[r].touched = FALSE /\ app'[r].failed = FALSE /\ app'[r].original = NoSnapshot
    BY <1>1, <1>3, <1>4 DEF Own, Goes, GivenBack, CalmInv, HostInv, Host, First, IsApp, Fields
  <1>6. ~Holds(r)' /\ Owes(r)' /\ Kept(r)'
    <2>1. NoSnapshot \in Snapshots /\ Idle.for # "enable"
      BY DEF NoSnapshot, Snapshots, Words, Idle
    <2>2. ~Holds(r)'
      BY <1>5, <2>1 DEF Holds
    <2> QED
      BY <1>5, <2>1, <2>2 DEF Owes, Kept
  <1>7. ASSUME Addressed, struck' # "left" PROVE Returns(r)'
    <2>1. HasAddress(r) /\ Holds(r)
      BY <1>1, <1>2, <1>7 DEF CalmInv, BackInv, Holds
    <2> QED
      BY <1>2, <1>5, <1>6, <2>1 DEF Returns, HasAddress, Named
  <1> QED
    BY <1>4, <1>5, <1>6, <1>7, OwnKeeps

\* A command that is taken sets what it says, and the rest is still ahead.
LEMMA TailFits ==
  ASSUME NEW s, NEW cmds, Fits(s, cmds), cmds # <<>>
  PROVE  /\ Fits(s, Tail(cmds)) /\ Head(cmds) \in Cmds /\ Aims(s, Head(cmds))
         /\ \A key : Ahead(cmds, key) => Head(cmds).key = key \/ Ahead(Tail(cmds), key)
  <1>1. cmds \in Seq(Cmds) /\ Len(cmds) \in Nat /\ Len(cmds) >= 1 /\ Head(cmds) = cmds[1] /\ cmds[1] \in Cmds
    BY DEF Fits
  <1>2. Tail(cmds) \in Seq(Cmds) /\ Len(Tail(cmds)) = Len(cmds) - 1 /\ \A i \in 1..Len(Tail(cmds)) : Tail(cmds)[i] = cmds[i + 1]
    BY <1>1
  <1>3. Fits(s, Tail(cmds))
    BY <1>1, <1>2 DEF Fits
  <1>4. ASSUME NEW key, Ahead(cmds, key), Head(cmds).key # key PROVE Ahead(Tail(cmds), key)
    <2>1. PICK i \in 1..Len(cmds) : cmds[i].key = key
      BY <1>4 DEF Ahead
    <2>2. i # 1 /\ i - 1 \in 1..Len(Tail(cmds)) /\ Tail(cmds)[i - 1] = cmds[i]
      BY <1>1, <1>2, <1>4, <2>1
    <2> QED
      BY <2>1, <2>2 DEF Ahead
  <1> QED
    BY <1>1, <1>3, <1>4 DEF Fits

LEMMA CommandKeeps ==
  ASSUME LockInv, CalmInv, CountInv, Calm', NEW r \in Runs, Command(r)
  PROVE  CalmInv'
  <1> USE DEF LockInv, ShapeInv
  <1> DEFINE c == call[r]
             cmd == Head(c.cmds)
             s == c.state
  <1>1. c.cmds # <<>> /\ UNCHANGED <<desktop, pc, struck>> /\ c # Idle /\ Underway(r) /\ Atwork(r)
    BY WritingAtWork DEF Command, truth, Idle, CalmInv, CallsInv
  <1>2. First \in Range(desktop) /\ Head(desktop) = First /\ Host \in Settings /\ settings \in [Range(desktop) -> Settings]
    BY HostRead DEF CalmInv, HostInv
  <1>3. /\ settings' = [settings EXCEPT ![First][cmd.key] = cmd.val]
        /\ call' = [call EXCEPT ![r] = Taken(c)]
        /\ \E b : app' = [app EXCEPT ![r].ourServer = b]
    <2>1. ~refusing /\ faults' # faults + 1
      BY DEF Command, Fault, CountInv, Calm
    <2>2. c.stores = desktop
      BY <1>1 DEF Underway
    <2> QED
      BY <1>2, <2>1, <2>2 DEF Command, Fault
  <1>4. /\ Fits(s, Tail(c.cmds)) /\ cmd \in Cmds /\ Aims(s, cmd)
        /\ \A key : Ahead(c.cmds, key) => cmd.key = key \/ Ahead(Tail(c.cmds), key)
    BY <1>1, TailFits DEF Underway
  <1>5. Host' = [Host EXCEPT ![cmd.key] = cmd.val] /\ HostInv'
    <2>1. [Host EXCEPT ![cmd.key] = cmd.val] \in Settings
      BY <1>2, <1>4 DEF Settings, Cmds, Keys
    <2>2. settings' = [settings EXCEPT ![First] = [Host EXCEPT ![cmd.key] = cmd.val]]
      BY <1>3 DEF Host
    <2>3. First' = First
      BY <1>1 DEF First
    <2> QED
      BY <1>1, <1>2, <2>1, <2>2, <2>3 DEF CalmInv, HostInv, Host
  <1>6. Reached(Host', s, Tail(c.cmds))
    <2>1. Reached(Host, s, c.cmds)
      BY <1>1 DEF Underway
    <2>2. /\ cmd.key = "mode" => Host'.mode = cmd.val
          /\ cmd.key = "http" => Host'.http = cmd.val
          /\ cmd.key # "mode" => Host'.mode = Host.mode
          /\ cmd.key # "http" => Host'.http = Host.http
      BY <1>2, <1>4, <1>5 DEF Settings, Cmds, Keys
    <2> QED
      BY <1>4, <2>1, <2>2 DEF Reached, Aims
  <1>7. /\ call'[r] = [c EXCEPT !.cmds = Tail(c.cmds), !.began = TRUE]
        /\ c = [k \in {"for", "state", "stores", "cmds", "began", "rolling"} |-> c[k]]
    BY <1>1, <1>3 DEF Taken, Underway
  <1>8. /\ call'[r] = [k \in {"for", "state", "stores", "cmds", "began", "rolling"} |-> call'[r][k]]
        /\ call'[r].for = c.for /\ call'[r].state = s /\ call'[r].stores = c.stores
        /\ call'[r].cmds = Tail(c.cmds) /\ call'[r].rolling = c.rolling
    BY <1>7
  <1>9. /\ app' = [app EXCEPT ![r] = app'[r]]
        /\ app'[r].touched = app[r].touched /\ app'[r].failed = app[r].failed /\ app'[r].original = app[r].original
    <2>1. IsApp(app[r])
      OBVIOUS
    <2> QED
      BY <1>3, <2>1 DEF IsApp, Fields
  <1>10. OurState(app[r].original)' = OurState(app[r].original)
    BY <1>1, <1>9 DEF OurState, Exceptions, Windows
  <1>11. Underway(r)' /\ call'[r] # Idle
    <2> DEFINE d == call'[r]
    <2>1. /\ d = [k \in {"for", "state", "stores", "cmds", "began", "rolling"} |-> d[k]]
          /\ d.stores = desktop' /\ ~d.rolling /\ d.state \in Snapshots
          /\ d.for \in {"clear", "enable", "restore"}
      BY <1>1, <1>8 DEF Underway
    <2>2. Fits(d.state, d.cmds) /\ Reached(Host', d.state, d.cmds)
      BY <1>4, <1>6, <1>8
    <2>3. \/ d.for = "clear" /\ pc'[r] = "check" /\ ~Enabled(d.state)
          \/ d.for = "enable" /\ pc'[r] = "core" /\ ~app'[r].touched /\ d.state = OurState(app[r].original)'
          \/ d.for = "restore" /\ pc'[r] = "down" /\ app'[r].touched /\ d.state = app'[r].original
      BY <1>1, <1>8, <1>9, <1>10 DEF Underway
    <2>4. d # Idle
      BY <2>1 DEF Idle
    <2> QED
      BY <2>1, <2>2, <2>3, <2>4 DEF Underway
  <1>12. Own(r) /\ Owes(r)' /\ Kept(r)' /\ Holds(r)' = Holds(r)
    BY <1>1, <1>3, <1>8, <1>9, <1>11 DEF Own, CalmInv, AppInv, Owes, KeptInv, Kept, Holds
  <1>13. ASSUME Addressed, struck' # "left" PROVE Returns(r)'
    <2>1. HasAddress(r)
      BY <1>1, <1>13 DEF CalmInv, BackInv
    <2> QED
      BY <1>9, <1>11, <1>12, <2>1 DEF Returns, HasAddress
  <1> QED
    BY <1>1, <1>5, <1>11, <1>12, <1>13, OwnKeeps

-----------------------------------------------------------------------------
LEMMA CountNext ==
  ASSUME CountInv, [Next]_vars
  PROVE  CountInv' /\ (Calm' => Calm)
  <1> DEFINE Counts == /\ faults' \in {faults, faults + 1} /\ unread' \in {unread, unread + 1}
                       /\ refusing' = refusing \/ refusing' = FALSE \/ faults' = faults + 1
  <1>1. ASSUME UserSets \/ Refuse \/ Accept \/ UNCHANGED vars PROVE Counts
    <2>1. CASE UserSets \/ Accept
      BY <2>1 DEF UserSets, Accept
    <2>2. CASE Refuse
      BY <2>2 DEF Refuse, Fault
    <2>3. CASE UNCHANGED vars
      BY <2>3 DEF vars, bounds
    <2> QED
      BY <1>1, <2>1, <2>2, <2>3
  <1>2. ASSUME NEW r \in Runs, Restore(r) \/ Restored(r) \/ WarnDeadLoopbackProxy(r) \/ BringUp(r) \/ Undone(r)
        PROVE  Counts
    <2>1. \A s : Reads(s) => unread' \in {unread, unread + 1}
      BY DEF Reads
    <2>2. ForceDisable(r) => unread' \in {unread, unread + 1}
      BY DEF ForceDisable
    <2>3. \A s : Original(r, s) => unread' \in {unread, unread + 1}
      BY <2>1 DEF Original
    <2> QED
      BY <1>2, <2>1, <2>2, <2>3 DEF Restore, Restored, WarnDeadLoopbackProxy, BringUp, Undone
  <1>3. ASSUME NEW r \in Runs, Command(r) \/ LockUnwritten(r) \/ StartSession(r)
        PROVE  Counts
    BY <1>3 DEF Command, LockUnwritten, StartSession, Fault
  <1>4. ASSUME NEW r \in Runs, Launch(r) \/ TakeLock(r) \/ Forced(r) \/ Resolve(r) \/ NotStarted(r) \/ ClearedDead(r)
                                \/ BringUpFails(r) \/ Brought(r) \/ End(r) \/ SwitchMode(r) \/ Quit(r) \/ Unlock(r) \/ Kill(r)
        PROVE  Counts
    BY <1>4 DEF Launch, TakeLock, Forced, Resolve, NotStarted, ClearedDead, BringUpFails, Brought, End, SwitchMode, Quit,
       Unlock, Kill, bounds
  <1>5. Counts
    <2>1. CASE Next
      BY <1>1, <1>2, <1>3, <1>4, <2>1 DEF Next
    <2> QED
      BY <1>1, <2>1
  <1> QED
    BY <1>5 DEF CountInv, Calm

LEMMA CalmNext ==
  ASSUME LockInv, CountInv, CalmInv, Calm', [Next]_vars
  PROVE  CalmInv'
  <1>1. CASE UserSets
    BY <1>1, UserSetsKeeps
  <1>2. CASE Refuse
    BY <1>2 DEF Refuse, Fault, CountInv, Calm
  <1>3. CASE Accept \/ UNCHANGED vars
    <2>1. UNCHANGED <<desktop, settings, pc, app, call, struck>>
      BY <1>3 DEF Accept, vars, machine, truth
    <2>2. HostInv' /\ Host' = Host
      BY <2>1 DEF CalmInv, HostInv, Host, First
    <2>3. CallsInv'
      <3>1. \A r \in Runs : OurState(app[r].original)' = OurState(app[r].original)
        BY <2>1 DEF OurState, Exceptions, Windows
      <3> QED
        BY <2>1, <2>2, <3>1 DEF CalmInv, CallsInv, Underway
    <2>4. AppInv' /\ KeptInv'
      BY <2>1, <2>2 DEF CalmInv, AppInv, Owes, KeptInv, Kept, Holds
    <2>5. BackInv => BackInv'
      BY <2>1, <2>2 DEF BackInv, HasAddress, Holds, AtEase
    <2> QED
      BY <2>1, <2>2, <2>3, <2>4, <2>5 DEF CalmInv
  <1>4. ASSUME NEW r \in Runs,
               \/ Launch(r) \/ TakeLock(r) \/ LockUnwritten(r)
               \/ StartSession(r) \/ Restore(r) \/ Restored(r) \/ Forced(r)
               \/ Resolve(r) \/ NotStarted(r) \/ WarnDeadLoopbackProxy(r) \/ ClearedDead(r)
               \/ BringUp(r) \/ BringUpFails(r) \/ Brought(r) \/ Undone(r)
               \/ End(r) \/ SwitchMode(r) \/ Command(r)
               \/ Quit(r) \/ Unlock(r) \/ Kill(r)
        PROVE  CalmInv'
    <2>1. CASE StartSession(r) \/ NotStarted(r) \/ BringUpFails(r) \/ End(r) \/ Quit(r)
      BY <2>1, MovesQuiet, QuietKeeps
    <2>2. CASE Launch(r) \/ Resolve(r) \/ SwitchMode(r)
      BY <2>2, LaunchQuiet, ResolveQuiet, SwitchModeQuiet, QuietKeeps
    <2>3. CASE TakeLock(r) \/ Unlock(r) \/ Kill(r)
      BY <2>3, LeavingQuiet, QuietKeeps, KillKeeps
    <2>4. CASE Restore(r) \/ Restored(r) \/ Brought(r) \/ ClearedDead(r)
      BY <2>4, RestoreKeeps, RestoredKeeps, BroughtKeeps, ClearedDeadKeeps
    <2>5. CASE WarnDeadLoopbackProxy(r) \/ BringUp(r) \/ Command(r)
      BY <2>5, WarnKeeps, BringUpKeeps, CommandKeeps
    <2>6. CASE LockUnwritten(r)
      BY <2>6 DEF LockUnwritten, Fault, CountInv, Calm
    <2>7. CASE Forced(r) \/ Undone(r)
      BY <2>7, WriteDone DEF Forced, Undone, Underway
    <2> QED
      BY <1>4, <2>1, <2>2, <2>3, <2>4, <2>5, <2>6, <2>7
  <1> QED
    BY <1>1, <1>2, <1>3, <1>4 DEF Next

LEMMA CalmInit == Init => CountInv /\ CalmInv
  <1> SUFFICES ASSUME Init PROVE CountInv /\ CalmInv
    OBVIOUS
  <1>1. CountInv
    BY DEF Init, CountInv
  <1>2. desktop \in Desktops /\ First \in Range(desktop)
    BY SystemProxyAssumption DEF Init, First, Range
  <1>3. PICK v \in UsersSettings :
          settings = [st \in Range(desktop) |->
            IF st = First THEN v ELSE [mode |-> "off", http |-> "none", https |-> "none", bypass |-> "none"]]
    BY DEF Init
  <1>4. v \in Settings /\ v.http \in {"none", "corp"} /\ (Addressed /\ v.mode = "on" => v.http # "none")
    <2>1. v \in Found \/ \E w \in Found : v = [w EXCEPT !.https = "none"]
      BY DEF UsersSettings
    <2> QED
      BY <2>1, SystemProxyAssumption DEF Settings, Words, Addressed
  <1>5. HostInv /\ Host = v
    <2>1. [mode |-> "off", http |-> "none", https |-> "none", bypass |-> "none"] \in Settings
      BY DEF Settings, Words
    <2> QED
      BY <1>2, <1>3, <1>4, <2>1 DEF HostInv, Host
  <1>6. \A r \in Runs : pc[r] = "off" /\ call[r] = Idle /\ app[r] = NoApp
    BY DEF Init
  <1>7. CallsInv /\ AppInv
    BY <1>6, NoAppIsQuiet DEF CallsInv, AppInv, Owes
  <1>8. \A r \in Runs : ~Holds(r)
    BY <1>6, NoAppIsQuiet DEF Holds, Idle
  <1>9. KeptInv
    BY <1>6, <1>8 DEF KeptInv, Kept
  <1>10. Addressed => BackInv
    BY <1>4, <1>5, <1>8 DEF BackInv, HasAddress, OnOurs, Named, Ours, Unread
  <1> QED
    BY <1>1, <1>5, <1>7, <1>9, <1>10 DEF CalmInv

\* In a history without a refusal, what is on the desktop, what each write has
\* done of it and what a session remembers belong together.
THEOREM SettingInvariance == Spec => []SettingInv
  <1>1. Init => SettingInv
    BY LockInit, CalmInit DEF SettingInv
  <1>2. SettingInv /\ [Next]_vars => SettingInv'
    BY LockNext, CountNext, CalmNext DEF SettingInv
  <1> QED
    BY <1>1, <1>2, PTL DEF Spec

\* What a killed run left behind is never taken for the user's own setting, for
\* any number of runs, sessions and changes by the user (warnDeadLoopbackProxy).
THEOREM LeftoverIsNotKeptAlways == Spec => []LeftoverIsNotKept
  <1>1. SettingInv => LeftoverIsNotKept
    <2>1. CountInv => (faults + unread = 0 => Calm)
      BY DEF CountInv, Calm
    <2> QED
      BY <2>1 DEF SettingInv, CalmInv, KeptInv, Kept, Holds, OnOurs, Enabled, LeftoverIsNotKept
  <1> QED
    BY <1>1, SettingInvariance, PTL

\* Where nothing is refused, and the user's proxy has an address for HTTP when it is
\* on, no run leaves the desktop on a port nothing listens on, unless one was killed
\* in the middle and none has cleaned up after it (teardown).
GoesCleanly == Addressed /\ Calm => NotLeftOnOurs

THEOREM GoesCleanlyAlways == Spec => []GoesCleanly
  <1>1. SettingInv => GoesCleanly
    <2> SUFFICES ASSUME SettingInv, Addressed, Calm, AtRest, struck # "left", NamesOurs
                 PROVE  FALSE
      BY DEF GoesCleanly, NotLeftOnOurs
    <2>1. CalmInv /\ BackInv
      BY DEF SettingInv, CalmInv
    <2>2. AtEase
      BY WritingAtWork DEF AtEase, AtRest, SettingInv
    <2>3. PICK r \in Runs : app[r].touched
      BY <2>1, <2>2 DEF BackInv, NamesOurs, OnOurs, Host
    <2> QED
      BY <2>1, <2>3 DEF CalmInv, AppInv, Owes, AtRest, Atwork
  <1> QED
    BY <1>1, SettingInvariance, PTL

-----------------------------------------------------------------------------
\* The user's setting comes back as it was. On a Linux desktop a restore writes ours
\* where the user's proxy has no address for HTTP, and KDE's for HTTP where it has none
\* for HTTPS: the user's has what would be written over.
AddressesKept ==
  \A v \in UsersSettings :
    v.mode = "on" /\ ~Windows => v.http # "none" /\ (First = "gnome" \/ v.https # "none")

\* The host with a snapshot put back.
Bare(s) == [k \in Keys |-> s[k]]
WithBack(s) == [settings EXCEPT ![First] = Bare(s)]

\* A restore's commands say what its snapshot says, and what has none ahead is so.
Straight(s, cmds) == \A i \in 1..Len(cmds) : cmds[i].val = s[cmds[i].key]
Level(host, s, cmds) == \A k \in Keys : Ahead(cmds, k) \/ host[k] = s[k]
Exactly(r) ==
  call[r].for = "restore" =>
    Straight(call[r].state, call[r].cmds) /\ Level(Host, call[r].state, call[r].cmds)

\* The registry has no address for HTTPS, and no command sets one.
Lone(r) == Windows => \A i \in 1..Len(call[r].cmds) : call[r].cmds[i].key # "https"

\* What a session holds is a setting of the user's; while none does, that is there.
Theirs(r) == Holds(r) => app[r].original.from = First /\ WithBack(app[r].original) \in users
Whole(r) == call[r].for # "clear" /\ Theirs(r) /\ Exactly(r) /\ Lone(r)

OfUser(u) == u[First] \in UsersSettings
UsersInv ==
  /\ \A u \in users : OfUser(u)
  /\ Windows => Host.https = "none"
  /\ (\A r \in Runs : ~Holds(r)) => settings \in users
  /\ \A r \in Runs : Whole(r)
BackAsWasInv == AddressesKept /\ Calm /\ struck = "no" => UsersInv

LEMMA UsersWords ==
  ASSUME NEW v \in UsersSettings
  PROVE  /\ v.http \in {"none", "corp"} /\ v.https \in {"none", "corp"} /\ v.bypass \in {"none", "theirs"}
         /\ v = [k \in Keys |-> v[k]]
         /\ Windows => v.https = "none"
         /\ ~Windows => v.mode \in {"on", "off", "auto"}
  <1>1. CASE Windows
    <2>1. PICK w \in Found : v = [w EXCEPT !.https = "none"]
      BY <1>1 DEF UsersSettings
    <2>2. w \in [mode : {"on", "off", "auto", "none"}, http : {"none", "corp"},
                 https : {"none", "corp"}, bypass : {"none", "theirs"}]
      BY SystemProxyAssumption
    <2>3. v.http = w.http /\ v.https = "none" /\ v.bypass = w.bypass /\ v.mode = w.mode
      BY <2>1, <2>2
    <2>4. v = [k \in Keys |-> v[k]]
      BY <2>1, <2>2 DEF Keys
    <2> QED
      BY <1>1, <2>2, <2>3, <2>4
  <1>2. CASE ~Windows
    <2>1. v \in Found /\ v.mode # "none"
      BY <1>2 DEF UsersSettings
    <2>2. v \in [mode : {"on", "off", "auto", "none"}, http : {"none", "corp"},
                 https : {"none", "corp"}, bypass : {"none", "theirs"}]
      BY <2>1, SystemProxyAssumption
    <2>3. v = [k \in Keys |-> v[k]]
      BY <2>2 DEF Keys
    <2> QED
      BY <1>2, <2>1, <2>2, <2>3
  <1> QED
    BY <1>1, <1>2

\* The registry's writes leave the address for HTTPS alone.
LEMMA WritesAreLone ==
  ASSUME NEW s, Windows
  PROVE  \A i \in 1..Len(Writes(First, s)) : Writes(First, s)[i].key # "https"
  <1>1. First = "windows"
    BY DEF Windows, First
  <1>2. Writes(First, s) = << Cmd("mode", s.mode, "fail"), Cmd("http", s.http, "fail"), Cmd("bypass", s.bypass, "fail") >>
    BY <1>1 DEF Writes, RegistryWrites
  <1> QED
    BY <1>2 DEF Cmd

\* What is known of four commands, one for each key.
LEMMA FourAreLevel ==
  ASSUME NEW s, NEW host, NEW m1, NEW m2, NEW m3, NEW m4, NEW cmds, Len(cmds) = 4,
         cmds[1] = Cmd("mode", s.mode, m1), cmds[2] = Cmd("http", s.http, m2),
         cmds[3] = Cmd("https", s.https, m3), cmds[4] = Cmd("bypass", s.bypass, m4)
  PROVE  Straight(s, cmds) /\ Level(host, s, cmds)
  <1>1. Straight(s, cmds)
    BY DEF Straight, Cmd
  <1>2. Ahead(cmds, "mode") /\ Ahead(cmds, "http") /\ Ahead(cmds, "https") /\ Ahead(cmds, "bypass")
    BY DEF Ahead, Cmd
  <1> QED
    BY <1>1, <1>2 DEF Level, Keys

\* A setting of the user's, when it is read from the store, is written as it was.
LEMMA WritesAreStraight ==
  ASSUME NEW s, HostInv, s.from = First, Bare(s) \in UsersSettings, AddressesKept, NEW host,
         Windows => host.https = "none"
  PROVE  Straight(s, Writes(First, s)) /\ Level(host, s, Writes(First, s))
  <1> DEFINE cmds == Writes(First, s)
  <1>1. s.mode = Bare(s).mode /\ s.http = Bare(s).http /\ s.https = Bare(s).https /\ s.bypass = Bare(s).bypass
    BY DEF Bare, Keys
  <1>2. /\ s.http \in {"none", "corp"} /\ s.https \in {"none", "corp"} /\ s.bypass \in {"none", "theirs"}
        /\ Windows => s.https = "none"
        /\ ~Windows => s.mode \in {"on", "off", "auto"}
        /\ s.mode = "on" /\ ~Windows => s.http # "none" /\ (First = "gnome" \/ s.https # "none")
    BY <1>1, UsersWords DEF AddressesKept
  <1>3. CASE First = "windows"
    <2>1. cmds = << Cmd("mode", s.mode, "fail"), Cmd("http", s.http, "fail"), Cmd("bypass", s.bypass, "fail") >>
      BY <1>3 DEF Writes, RegistryWrites
    <2>2. Windows
      BY <1>3, SystemProxyAssumption DEF Windows, First, HostInv
    <2>3. Straight(s, cmds)
      BY <2>1 DEF Straight, Cmd
    <2>4. Ahead(cmds, "mode") /\ Ahead(cmds, "http") /\ Ahead(cmds, "bypass")
      BY <2>1 DEF Ahead, Cmd
    <2> QED
      BY <1>2, <2>2, <2>3, <2>4 DEF Level, Keys
  <1>4. CASE First # "windows"
    <2>1. ~Windows
      BY <1>4 DEF Windows, First
    <2>2. \A miss : \A key \in {"http", "https", "bypass"} : Known(key, s, miss) = << Cmd(key, s[key], miss) >>
      BY <1>2 DEF Known, Unread
    <2>3. cmds = DesktopWrites(First, s)
      BY <1>4 DEF Writes
    <2>4. CASE s.mode = "on"
      <3>1. Server(s) = s.http /\ SecureServer(s) = s.https
        BY <1>2, <2>1, <2>4 DEF Server, SecureServer, Blank, Unread
      <3>2. cmds = << Cmd("mode", s.mode, "fail"), Cmd("http", s.http, "fail"), Cmd("https", s.https, "fail") >>
                     \o << Cmd("bypass", s.bypass, "fail") >>
        BY <2>2, <2>3, <2>4, <3>1 DEF DesktopWrites, Enabled
      <3> HIDE DEF cmds
      <3>3. /\ Len(cmds) = 4 /\ cmds[1] = Cmd("mode", s.mode, "fail") /\ cmds[2] = Cmd("http", s.http, "fail")
            /\ cmds[3] = Cmd("https", s.https, "fail") /\ cmds[4] = Cmd("bypass", s.bypass, "fail")
        BY <3>2
      <3> QED
        <4>1. Straight(s, cmds) /\ Level(host, s, cmds)
          BY <3>3, FourAreLevel
        <4> QED
          BY <4>1 DEF cmds
    <2>5. CASE s.mode # "on"
      <3>1. ModeBack(First, s) = s.mode
        BY <1>2, <2>1, <2>5 DEF ModeBack
      <3> DEFINE miss == IF First = "gnome" THEN "both" ELSE "next"
      <3>2. cmds = << Cmd("mode", s.mode, "fail") >> \o << Cmd("http", s.http, miss) >>
                     \o << Cmd("https", s.https, "next") >> \o << Cmd("bypass", s.bypass, "next") >>
        BY <2>2, <2>3, <2>5, <3>1 DEF DesktopWrites, Enabled
      <3> HIDE DEF miss, cmds
      <3>3. /\ Len(cmds) = 4 /\ cmds[1] = Cmd("mode", s.mode, "fail") /\ cmds[2] = Cmd("http", s.http, miss)
            /\ cmds[3] = Cmd("https", s.https, "next") /\ cmds[4] = Cmd("bypass", s.bypass, "next")
        BY <3>2
      <3> QED
        <4>1. Straight(s, cmds) /\ Level(host, s, cmds)
          BY <3>3, FourAreLevel
        <4> QED
          BY <4>1 DEF cmds
    <2> QED
      BY <2>4, <2>5
  <1> QED
    BY <1>3, <1>4

\* A step of a run past the lock, again, is a matter of that run and the host.
LEMMA OwnWhole ==
  ASSUME LockInv, CalmInv, NEW r \in Runs, Atwork(r), Own(r),
         \A u \in users' : OfUser(u)', (Windows => Host.https = "none")',
         ~Holds(r)' => settings' \in users', Whole(r)'
  PROVE  UsersInv'
  <1>1. \A q \in Runs \ {r} : call[q] = Idle /\ ~Holds(q)
    BY Alone
  <1>2. \A q \in Runs \ {r} : app'[q] = app[q] /\ call'[q] = call[q]
    BY DEF Own, LockInv, ShapeInv
  <1>3. \A q \in Runs \ {r} : ~Holds(q)'
    BY <1>1, <1>2 DEF Holds
  <1>4. ASSUME NEW q \in Runs \ {r} PROVE Whole(q)'
    <2>1. call'[q] = Idle
      BY <1>1, <1>2
    <2>2. call'[q].for = "nothing" /\ Len(call'[q].cmds) = 0
      BY <2>1 DEF Idle
    <2> QED
      BY <1>3, <2>2 DEF Whole, Theirs, Exactly, Lone
  <1> QED
    BY <1>3, <1>4 DEF UsersInv

LEMMA QuietUsers ==
  ASSUME LockInv, CalmInv, UsersInv, NEW r \in Runs, Quiet(r), users' = users
  PROVE  UsersInv'
  <1>1. \A q \in Runs \ {r} : app'[q] = app[q]
    BY DEF Quiet, LockInv, ShapeInv
  <1>2. UNCHANGED <<Host, First, Windows, settings, desktop, call>> /\ call[r] = Idle
    BY DEF Quiet, Host, First, Windows
  <1>3. \A q \in Runs : Holds(q)' = Holds(q) /\ (Holds(q) => app'[q].original = app[q].original)
    BY <1>1, <1>2 DEF Quiet, Holds, Idle
  <1>4. \A u \in users : OfUser(u)'
    BY <1>2 DEF UsersInv, OfUser, UsersSettings
  <1>5. ASSUME NEW q \in Runs PROVE Whole(q)'
    <2>1. Whole(q)
      BY DEF UsersInv
    <2>2. Theirs(q)'
      <3>1. SUFFICES ASSUME Holds(q)' PROVE app'[q].original.from = First' /\ WithBack(app[q].original)' \in users'
        BY <1>3 DEF Theirs
      <3>2. WithBack(app[q].original)' = WithBack(app'[q].original)
        BY <1>2, <1>3, <3>1 DEF WithBack, Bare
      <3> QED
        BY <1>2, <1>3, <2>1, <3>1, <3>2 DEF Whole, Theirs
    <2> QED
      BY <1>2, <2>1, <2>2 DEF Whole, Exactly, Lone
  <1> QED
    BY <1>2, <1>3, <1>4, <1>5 DEF UsersInv

LEMMA UserSetsUsers ==
  ASSUME LockInv, CalmInv, UsersInv, UserSets
  PROVE  UsersInv'
  <1>1. PICK v \in UsersSettings : /\ settings' = [settings EXCEPT ![First] = v]
                                   /\ users' = IF Overridden(v) THEN users \cup {settings'} ELSE {settings'}
    BY DEF UserSets
  <1>2. UNCHANGED <<desktop, pc, app, call>> /\ \A r \in Runs : call[r] = Idle
    BY DEF UserSets
  <1>3. UNCHANGED <<First, Windows, UsersSettings>>
    BY <1>2 DEF First, Windows, UsersSettings
  <1>4. settings \in [Range(desktop) -> Settings] /\ First \in Range(desktop)
    BY HostRead DEF CalmInv, HostInv
  <1>5. Host' = v /\ settings'[First'] \in UsersSettings'
    BY <1>1, <1>3, <1>4 DEF Host
  <1>6. \A u \in users' : OfUser(u)'
    BY <1>1, <1>3, <1>5 DEF UsersInv, OfUser
  <1>7. (Windows => Host.https = "none")'
    BY <1>3, <1>5, UsersWords
  <1>8. settings' \in users'
    BY <1>1
  <1>9. ASSUME NEW r \in Runs PROVE Whole(r)'
    <2>1. call'[r] = Idle
      BY <1>2
    <2>2. call'[r].for = "nothing" /\ Len(call'[r].cmds) = 0
      BY <2>1 DEF Idle
    <2>3. ASSUME Holds(r)' PROVE (app[r].original.from = First /\ WithBack(app[r].original) \in users)'
      <3>1. app[r].touched /\ Holds(r)
        BY <1>2, <2>2, <2>3 DEF Holds
      <3>2. Owes(r) /\ Whole(r)
        BY DEF CalmInv, AppInv, UsersInv
      <3>3. Overridden(v)
        BY <3>1, <3>2 DEF Owes, Overridden, Atwork
      <3>4. WithBack(app[r].original)' = WithBack(app[r].original)
        BY <1>1, <1>2, <1>3, <1>4 DEF WithBack
      <3> QED
        BY <1>1, <1>2, <1>3, <3>1, <3>2, <3>3, <3>4 DEF Whole, Theirs
    <2> QED
      BY <2>2, <2>3 DEF Whole, Theirs, Exactly, Lone
  <1> QED
    BY <1>6, <1>7, <1>8, <1>9 DEF UsersInv

\* A session comes to its check with the user's setting on the host, so it clears nothing.
LEMMA WarnUsers ==
  ASSUME LockInv, CalmInv, CountInv, Calm', UsersInv, NEW r \in Runs, WarnDeadLoopbackProxy(r)
  PROVE  UsersInv'
  <1> USE DEF LockInv, ShapeInv
  <1>1. /\ UNCHANGED <<desktop, settings, app, users>> /\ pc[r] = "check" /\ call[r] = Idle /\ Atwork(r)
        /\ Owes(r) /\ ~app[r].touched /\ ~Holds(r)
    BY DEF WarnDeadLoopbackProxy, machine, truth, Atwork, CalmInv, AppInv, Owes, Holds, Idle
  <1>2. \A s : Reads(s) => s = Snapshot(First)
    BY DEF Reads, CountInv, Calm
  <1>3. Snapshot(First).http = Host.http
    BY HostRead DEF CalmInv
  <1>4. settings \in users
    BY <1>1, Alone DEF UsersInv
  <1>5. Host.http # Ours
    <2>1. Host \in UsersSettings
      BY <1>4 DEF UsersInv, OfUser, Host
    <2> QED
      BY <2>1, UsersWords DEF Ours
  <1>6. pc' = [pc EXCEPT ![r] = "core"] /\ UNCHANGED call
    BY <1>2, <1>3, <1>5 DEF WarnDeadLoopbackProxy, DeadOurs
  <1>7. UNCHANGED <<Host, First, Windows, UsersSettings>> /\ Own(r) /\ ~Holds(r)'
    BY <1>1, <1>6 DEF Host, First, Windows, UsersSettings, Own, Holds
  <1>8. Whole(r)'
    BY <1>1, <1>6, <1>7 DEF UsersInv, Whole, Theirs, Exactly, Lone
  <1> QED
    BY <1>1, <1>4, <1>7, <1>8, OwnWhole DEF UsersInv, OfUser

\* What a session takes a snapshot of is the user's.
LEMMA BringUpUsers ==
  ASSUME LockInv, CalmInv, CountInv, Calm', UsersInv, NEW r \in Runs, BringUp(r)
  PROVE  UsersInv'
  <1> USE DEF LockInv, ShapeInv
  <1>1. /\ UNCHANGED <<desktop, settings, struck, users>> /\ pc[r] = "core" /\ call[r] = Idle /\ Atwork(r)
        /\ Owes(r) /\ ~app[r].touched /\ IsApp(app[r])
    BY DEF BringUp, machine, truth, Atwork, CalmInv, AppInv, Owes
  <1>2. CASE pc' = [pc EXCEPT ![r] = "up"] /\ UNCHANGED <<app, call>>
    <2>1. Quiet(r)
      BY <1>1, <1>2 DEF Quiet, Owes
    <2> QED
      BY <1>1, <2>1, QuietUsers
  <1>3. ASSUME NEW s, Original(r, s), app' = [app EXCEPT ![r].original = s],
               IF Windows /\ s.from = "none" THEN TRUE
               ELSE call' = [call EXCEPT ![r] = Write("enable", OurState(s))] /\ UNCHANGED pc
        PROVE  UsersInv'
    <2>1. s = Snapshot(First)
      BY <1>1, <1>3 DEF Original, Reads, CountInv, Calm
    <2>2. s.from = First /\ First \in Stores
      BY <2>1, HostRead DEF CalmInv
    <2>3. call' = [call EXCEPT ![r] = Write("enable", OurState(s))] /\ UNCHANGED pc
      BY <1>3, <2>2 DEF Stores
    <2>4. app'[r].original = s /\ app'[r].touched = app[r].touched
      BY <1>1, <1>3 DEF IsApp, Fields
    <2>5. settings \in users
      <3>1. ~Holds(r)
        BY <1>1 DEF Holds, Idle
      <3> QED
        BY <1>1, <3>1, Alone DEF UsersInv
    <2>6. WithBack(s) = settings
      <3>1. Host = [k \in Keys |-> Host[k]]
        BY <2>5, UsersWords DEF UsersInv, OfUser, Host
      <3>2. Bare(s) = Host
        BY <2>1, <3>1 DEF Bare, Snapshot, Host, Keys
      <3> QED
        BY <3>2 DEF WithBack, Host, CalmInv, HostInv
    <2>7. UNCHANGED <<Host, First, Windows, UsersSettings>> /\ Own(r)
      BY <1>1, <1>3, <2>3 DEF Host, First, Windows, UsersSettings, Own
    <2>8. call'[r].for = "enable" /\ call'[r].cmds = Writes(First, OurState(s))
      BY <2>3 DEF Write
    <2>9. Holds(r)' /\ Theirs(r)'
      <3>1. WithBack(app[r].original)' = WithBack(s)
        BY <1>1, <2>4, <2>7 DEF WithBack
      <3> QED
        BY <1>1, <2>2, <2>4, <2>5, <2>6, <2>7, <2>8, <3>1 DEF Holds, Theirs
    <2>10. Whole(r)'
      BY <2>7, <2>8, <2>9, WritesAreLone DEF Whole, Exactly, Lone
    <2> QED
      BY <1>1, <2>5, <2>7, <2>10, OwnWhole DEF UsersInv, OfUser
  <1> QED
    BY <1>2, <1>3 DEF BringUp

LEMMA BroughtUsers ==
  ASSUME LockInv, CalmInv, UsersInv, NEW r \in Runs, Brought(r)
  PROVE  UsersInv'
  <1> USE DEF LockInv, ShapeInv
  <1>1. call[r].for = "enable" /\ Over(call[r]) /\ UNCHANGED <<desktop, settings, users>>
    BY DEF Brought, machine, truth
  <1>2. call[r] # Idle /\ ~Failed(call[r]) /\ pc[r] = "core"
    BY <1>1, WriteDone DEF Underway
  <1>3. Goes(r, "up", [app[r] EXCEPT !.touched = TRUE])
    BY <1>2 DEF Brought
  <1>4. Atwork(r) /\ IsApp(app[r]) /\ Holds(r) /\ Whole(r)
    BY <1>1, <1>2 DEF Atwork, Holds, UsersInv
  <1>5. /\ Own(r) /\ call'[r] = Idle /\ UNCHANGED <<Host, First, Windows, UsersSettings>>
        /\ app'[r].touched = TRUE /\ app'[r].original = app[r].original
    BY <1>1, <1>3, <1>4 DEF Own, Goes, Host, First, Windows, UsersSettings, IsApp, Fields
  <1>6. Holds(r)' /\ Theirs(r)'
    <2>1. WithBack(app[r].original)' = WithBack(app[r].original)
      BY <1>1, <1>5 DEF WithBack
    <2> QED
      BY <1>1, <1>4, <1>5, <2>1 DEF Holds, Whole, Theirs
  <1>7. call'[r].for = "nothing" /\ Len(call'[r].cmds) = 0
    BY <1>5 DEF Idle
  <1>8. Whole(r)'
    BY <1>6, <1>7 DEF Whole, Exactly, Lone
  <1> QED
    BY <1>1, <1>4, <1>5, <1>6, <1>8, OwnWhole DEF UsersInv, OfUser

\* The host with a user's setting put back has it in the store that is written.
LEMMA BackIsUsers ==
  ASSUME CalmInv, UsersInv, NEW r \in Runs, Holds(r)
  PROVE  app[r].original.from = First /\ Bare(app[r].original) \in UsersSettings
  <1>1. app[r].original.from = First /\ WithBack(app[r].original) \in users
    BY DEF UsersInv, Whole, Theirs
  <1>2. WithBack(app[r].original)[First] = Bare(app[r].original)
    BY HostRead DEF CalmInv, HostInv, WithBack
  <1> QED
    BY <1>1, <1>2 DEF UsersInv, OfUser

LEMMA RestoreUsers ==
  ASSUME LockInv, CalmInv, UsersInv, AddressesKept, NEW r \in Runs, Restore(r)
  PROVE  UsersInv'
  <1> USE DEF LockInv, ShapeInv
  <1>1. UNCHANGED <<desktop, settings, struck, users>> /\ Restoring(pc[r]) /\ call[r] = Idle /\ Owes(r) /\ Atwork(r)
    BY DEF Restore, machine, truth, CalmInv, AppInv, Restoring, Atwork
  <1>2. CASE ~app[r].touched
    <2>1. pc' = [pc EXCEPT ![r] = Then(pc[r])] /\ UNCHANGED <<app, call>>
      BY <1>2 DEF Restore
    <2>2. Then(pc[r]) # "core"
      BY <1>1 DEF Then, Restoring
    <2>3. Quiet(r)
      BY <1>1, <1>2, <2>1, <2>2 DEF Quiet, Owes
    <2> QED
      BY <1>1, <2>3, QuietUsers
  <1>3. CASE app[r].touched
    <2> DEFINE s == app[r].original
    <2>1. pc[r] = "down" /\ ~app[r].failed
      BY <1>1, <1>3 DEF Owes, Restoring
    <2>2. call' = [call EXCEPT ![r] = Write("restore", s)] /\ UNCHANGED <<app, pc>>
      BY <1>3, <2>1 DEF Restore
    <2>3. Holds(r) /\ Whole(r) /\ (Windows => Host.https = "none")
      BY <1>3 DEF Holds, UsersInv
    <2>4. s.from = First /\ Bare(s) \in UsersSettings
      BY <2>3, BackIsUsers
    <2>5. UNCHANGED <<Host, First, Windows, UsersSettings>> /\ Own(r)
      BY <1>1, <2>2 DEF Host, First, Windows, UsersSettings, Own
    <2>6. call'[r].for = "restore" /\ call'[r].state = s /\ call'[r].cmds = Writes(First, s)
      BY <2>2 DEF Write
    <2>7. Straight(s, Writes(First, s)) /\ Level(Host, s, Writes(First, s))
      BY <2>3, <2>4, WritesAreStraight DEF CalmInv
    <2>8. Exactly(r)' /\ Lone(r)'
      BY <2>5, <2>6, <2>7, WritesAreLone DEF Exactly, Lone, Straight, Level
    <2>9. Holds(r)' /\ Theirs(r)'
      <3>1. WithBack(app[r].original)' = WithBack(s)
        BY <1>1, <2>2, <2>5 DEF WithBack
      <3> QED
        BY <1>1, <1>3, <2>2, <2>3, <2>5, <3>1 DEF Holds, Whole, Theirs
    <2>10. Whole(r)'
      BY <2>6, <2>8, <2>9 DEF Whole
    <2> QED
      BY <1>1, <2>3, <2>5, <2>9, <2>10, OwnWhole DEF UsersInv, OfUser
  <1> QED
    BY <1>2, <1>3

LEMMA RestoredUsers ==
  ASSUME LockInv, CalmInv, UsersInv, NEW r \in Runs, Restored(r)
  PROVE  UsersInv'
  <1> USE DEF LockInv, ShapeInv
  <1>1. call[r].for = "restore" /\ Over(call[r]) /\ UNCHANGED <<desktop, settings, users>>
    BY DEF Restored, machine, truth
  <1>2. /\ call[r] # Idle /\ ~Failed(call[r]) /\ call[r].cmds = <<>> /\ pc[r] = "down" /\ app[r].touched
        /\ call[r].state = app[r].original
    BY <1>1, WriteDone DEF Underway
  <1>3. Goes(r, "release", GivenBack(app[r]))
    BY <1>2 DEF Restored, Then
  <1>4. Atwork(r) /\ IsApp(app[r]) /\ Holds(r) /\ Whole(r) /\ (Windows => Host.https = "none")
    BY <1>2 DEF Atwork, Holds, UsersInv
  <1>5. /\ Own(r) /\ call'[r] = Idle /\ UNCHANGED <<Host, First, Windows, UsersSettings>>
        /\ app'[r].touched = FALSE
    BY <1>1, <1>3, <1>4 DEF Own, Goes, GivenBack, Host, First, Windows, UsersSettings, IsApp, Fields
  <1>6. settings \in users
    <2> DEFINE s == app[r].original
    <2>1. \A k \in Keys : Host[k] = s[k]
      <3>1. \A k : ~Ahead(call[r].cmds, k)
        BY <1>2 DEF Ahead
      <3> QED
        BY <1>1, <1>2, <1>4, <3>1 DEF Whole, Exactly, Level
    <2>2. Host = Bare(s)
      <3>1. Host \in Settings
        BY HostRead DEF CalmInv
      <3>2. Host = [k \in Keys |-> Host[k]]
        BY <3>1 DEF Settings, Keys
      <3>3. Bare(s) = [k \in Keys |-> Host[k]]
        BY <2>1 DEF Bare
      <3> QED
        BY <3>2, <3>3
    <2>3. WithBack(s) = settings
      BY <2>2 DEF WithBack, Host, CalmInv, HostInv
    <2> QED
      BY <1>4, <2>3 DEF Whole, Theirs
  <1>7. call'[r].for = "nothing" /\ Len(call'[r].cmds) = 0
    BY <1>5 DEF Idle
  <1>8. Whole(r)'
    BY <1>5, <1>7 DEF Whole, Theirs, Holds, Exactly, Lone
  <1> QED
    BY <1>1, <1>4, <1>5, <1>6, <1>8, OwnWhole DEF UsersInv, OfUser

\* A command that is taken leaves those after it, with one thing less ahead.
LEMMA TailIsLevel ==
  ASSUME NEW s, NEW cmds \in Seq(Cmds), cmds # <<>>, NEW host \in Settings, Straight(s, cmds), Level(host, s, cmds)
  PROVE  Straight(s, Tail(cmds)) /\ Level([host EXCEPT ![Head(cmds).key] = Head(cmds).val], s, Tail(cmds))
  <1> DEFINE cmd == Head(cmds)
             after == [host EXCEPT ![cmd.key] = cmd.val]
  <1>1. Len(cmds) \in Nat /\ Len(cmds) >= 1 /\ cmd = cmds[1] /\ cmd \in Cmds
    OBVIOUS
  <1>2. Len(Tail(cmds)) = Len(cmds) - 1 /\ \A i \in 1..Len(Tail(cmds)) : Tail(cmds)[i] = cmds[i + 1]
    BY <1>1
  <1>3. Straight(s, Tail(cmds)) /\ cmd.val = s[cmd.key]
    BY <1>1, <1>2 DEF Straight
  <1>4. ASSUME NEW k \in Keys, ~Ahead(Tail(cmds), k) PROVE after[k] = s[k]
    <2>1. CASE k = cmd.key
      BY <1>3, <2>1 DEF Settings, Keys
    <2>2. CASE k # cmd.key
      <3>1. ~Ahead(cmds, k)
        <4>1. ASSUME NEW i \in 1..Len(cmds), cmds[i].key = k PROVE FALSE
          <5>1. i # 1 /\ i - 1 \in 1..Len(Tail(cmds)) /\ Tail(cmds)[i - 1] = cmds[i]
            BY <1>1, <1>2, <2>2, <4>1
          <5> QED
            BY <1>4, <4>1, <5>1 DEF Ahead
        <4> QED
          BY <4>1 DEF Ahead
      <3> QED
        BY <2>2, <3>1 DEF Level, Settings, Keys
    <2> QED
      BY <2>1, <2>2
  <1> QED
    BY <1>3, <1>4 DEF Level

LEMMA CommandUsers ==
  ASSUME LockInv, CalmInv, CountInv, Calm', UsersInv, NEW r \in Runs, Command(r)
  PROVE  UsersInv'
  <1> USE DEF LockInv, ShapeInv
  <1> DEFINE c == call[r]
             cmd == Head(c.cmds)
             s == c.state
  <1>1. /\ c.cmds # <<>> /\ UNCHANGED <<desktop, pc, users>> /\ c # Idle /\ Underway(r) /\ Atwork(r) /\ Whole(r)
        /\ Windows => Host.https = "none"
    BY WritingAtWork DEF Command, truth, Idle, CalmInv, CallsInv, UsersInv
  <1>2. First \in Range(desktop) /\ Head(desktop) = First /\ Host \in Settings /\ settings \in [Range(desktop) -> Settings]
    BY HostRead DEF CalmInv, HostInv
  <1>3. /\ settings' = [settings EXCEPT ![First][cmd.key] = cmd.val]
        /\ call' = [call EXCEPT ![r] = Taken(c)]
        /\ \E b : app' = [app EXCEPT ![r].ourServer = b]
    <2>1. ~refusing /\ faults' # faults + 1
      BY DEF Command, Fault, CountInv, Calm
    <2>2. c.stores = desktop
      BY <1>1 DEF Underway
    <2> QED
      BY <1>2, <2>1, <2>2 DEF Command, Fault
  <1>4. c.cmds \in Seq(Cmds) /\ cmd \in Cmds /\ Len(c.cmds) \in Nat /\ Len(c.cmds) >= 1 /\ cmd = c.cmds[1]
    BY <1>1 DEF Underway, Fits
  <1>5. /\ settings' = [settings EXCEPT ![First] = [Host EXCEPT ![cmd.key] = cmd.val]]
        /\ Host' = [Host EXCEPT ![cmd.key] = cmd.val]
        /\ UNCHANGED <<First, Windows, UsersSettings>>
    BY <1>1, <1>2, <1>3 DEF Host, First, Windows, UsersSettings
  <1>6. /\ call'[r] = [c EXCEPT !.cmds = Tail(c.cmds), !.began = TRUE]
        /\ c = [k \in {"for", "state", "stores", "cmds", "began", "rolling"} |-> c[k]]
    BY <1>1, <1>3 DEF Taken, Underway
  <1>7. call'[r].for = c.for /\ call'[r].state = s /\ call'[r].cmds = Tail(c.cmds)
    BY <1>6
  <1>8. /\ app' = [app EXCEPT ![r] = app'[r]]
        /\ app'[r].touched = app[r].touched /\ app'[r].original = app[r].original
    <2>1. IsApp(app[r])
      OBVIOUS
    <2> QED
      BY <1>3, <2>1 DEF IsApp, Fields
  <1>9. Own(r) /\ Holds(r) /\ Holds(r)'
    <2>1. Holds(r)
      BY <1>1 DEF Whole, Underway, Holds
    <2> QED
      BY <1>1, <1>3, <1>7, <1>8, <2>1 DEF Own, Holds
  <1>10. Theirs(r)'
    <2>1. WithBack(app[r].original)' = WithBack(app[r].original)
      BY <1>1, <1>2, <1>5, <1>8 DEF WithBack
    <2> QED
      BY <1>1, <1>5, <1>8, <1>9, <2>1 DEF Whole, Theirs
  <1>11. Exactly(r)'
    <2>1. SUFFICES ASSUME c.for = "restore" PROVE Straight(s, Tail(c.cmds)) /\ Level(Host', s, Tail(c.cmds))
      BY <1>7 DEF Exactly, Straight, Level
    <2>2. Straight(s, c.cmds) /\ Level(Host, s, c.cmds)
      BY <1>1, <2>1 DEF Whole, Exactly
    <2> QED
      BY <1>1, <1>2, <1>4, <1>5, <2>2, TailIsLevel
  <1>12. Lone(r)' /\ (Windows => cmd.key # "https")
    <2>1. Len(Tail(c.cmds)) = Len(c.cmds) - 1 /\ \A i \in 1..Len(Tail(c.cmds)) : Tail(c.cmds)[i] = c.cmds[i + 1]
      BY <1>4
    <2> QED
      BY <1>1, <1>4, <1>5, <1>7, <2>1 DEF Whole, Lone
  <1>13. (Windows => Host.https = "none")'
    BY <1>1, <1>2, <1>4, <1>5, <1>12 DEF Settings, Cmds
  <1>14. Whole(r)'
    BY <1>1, <1>7, <1>10, <1>11, <1>12 DEF Whole
  <1> QED
    BY <1>1, <1>5, <1>9, <1>13, <1>14, OwnWhole DEF UsersInv, OfUser

\* Of the steps only a kill in force says that something was left, for good unless
\* a later session clears it.
LEMMA StruckNext ==
  ASSUME [Next]_vars, struck' = "no"
  PROVE  struck = "no"
  <1>1. ASSUME NEW r \in Runs, ClearedDead(r) \/ Kill(r) \/ Unlock(r) PROVE struck = "no"
    BY <1>1 DEF ClearedDead, Kill, Unlock
  <1>2. ASSUME NEW r \in Runs,
               \/ Launch(r) \/ TakeLock(r) \/ LockUnwritten(r)
               \/ StartSession(r) \/ Restore(r) \/ Restored(r) \/ Forced(r)
               \/ Resolve(r) \/ NotStarted(r) \/ WarnDeadLoopbackProxy(r)
        PROVE  UNCHANGED struck
    BY <1>2 DEF Launch, TakeLock, LockUnwritten, StartSession, Restore, Restored, Forced, Resolve, NotStarted,
       WarnDeadLoopbackProxy, truth
  <1>3. ASSUME NEW r \in Runs,
               BringUp(r) \/ BringUpFails(r) \/ Brought(r) \/ Undone(r) \/ End(r) \/ SwitchMode(r) \/ Command(r) \/ Quit(r)
        PROVE  UNCHANGED struck
    BY <1>3 DEF BringUp, BringUpFails, Brought, Undone, End, SwitchMode, Command, Quit, truth
  <1>4. ASSUME UserSets \/ Refuse \/ Accept \/ UNCHANGED vars PROVE UNCHANGED struck
    BY <1>4 DEF UserSets, Refuse, Accept, vars, truth
  <1> QED
    BY <1>1, <1>2, <1>3, <1>4 DEF Next

LEMMA DesktopNext ==
  ASSUME [Next]_vars
  PROVE  UNCHANGED desktop
  <1>1. ASSUME NEW r \in Runs,
               \/ Launch(r) \/ TakeLock(r) \/ LockUnwritten(r)
               \/ StartSession(r) \/ Restore(r) \/ Restored(r) \/ Forced(r)
               \/ Resolve(r) \/ NotStarted(r) \/ WarnDeadLoopbackProxy(r)
        PROVE  UNCHANGED desktop
    BY <1>1 DEF Launch, TakeLock, LockUnwritten, StartSession, Restore, Restored, Forced, Resolve, NotStarted,
       WarnDeadLoopbackProxy, machine
  <1>2. ASSUME NEW r \in Runs,
               \/ ClearedDead(r) \/ BringUp(r) \/ BringUpFails(r) \/ Brought(r) \/ Undone(r) \/ End(r)
               \/ SwitchMode(r) \/ Command(r) \/ Quit(r) \/ Unlock(r) \/ Kill(r)
        PROVE  UNCHANGED desktop
    BY <1>2 DEF ClearedDead, BringUp, BringUpFails, Brought, Undone, End, SwitchMode, Command, Quit, Unlock, Kill, machine
  <1>3. ASSUME UserSets \/ Refuse \/ Accept \/ UNCHANGED vars PROVE UNCHANGED desktop
    BY <1>3 DEF UserSets, Refuse, Accept, vars, machine
  <1> QED
    BY <1>1, <1>2, <1>3 DEF Next

LEMMA UsersNext ==
  ASSUME LockInv, CountInv, CalmInv, Calm', AddressesKept, UsersInv, struck' = "no", [Next]_vars
  PROVE  UsersInv'
  <1>1. CASE UserSets
    BY <1>1, UserSetsUsers
  <1>2. CASE Refuse
    BY <1>2 DEF Refuse, Fault, CountInv, Calm
  <1>3. CASE Accept \/ UNCHANGED vars
    <2>1. UNCHANGED <<desktop, settings, app, call, users>>
      BY <1>3 DEF Accept, vars, machine, truth
    <2>2. UNCHANGED <<Host, First, Windows, UsersSettings>>
      BY <2>1 DEF Host, First, Windows, UsersSettings
    <2>3. ASSUME NEW r \in Runs PROVE Holds(r)' = Holds(r) /\ (Whole(r) => Whole(r)')
      <3>1. WithBack(app[r].original)' = WithBack(app[r].original)
        BY <2>1, <2>2 DEF WithBack
      <3> QED
        BY <2>1, <2>2, <3>1 DEF Holds, Whole, Theirs, Exactly, Lone
    <2> QED
      BY <2>1, <2>2, <2>3 DEF UsersInv, OfUser
  <1>4. ASSUME NEW r \in Runs,
               \/ Launch(r) \/ TakeLock(r) \/ LockUnwritten(r)
               \/ StartSession(r) \/ Restore(r) \/ Restored(r) \/ Forced(r)
               \/ Resolve(r) \/ NotStarted(r) \/ WarnDeadLoopbackProxy(r) \/ ClearedDead(r)
               \/ BringUp(r) \/ BringUpFails(r) \/ Brought(r) \/ Undone(r)
               \/ End(r) \/ SwitchMode(r) \/ Command(r)
               \/ Quit(r) \/ Unlock(r) \/ Kill(r)
        PROVE  UsersInv'
    <2>1. CASE StartSession(r) \/ NotStarted(r) \/ BringUpFails(r) \/ End(r) \/ Quit(r)
      <3>1. UNCHANGED users
        BY <2>1 DEF StartSession, NotStarted, BringUpFails, End, Quit, truth
      <3> QED
        BY <2>1, <3>1, MovesQuiet, QuietUsers
    <2>2. CASE Launch(r) \/ Resolve(r) \/ SwitchMode(r)
      <3>1. UNCHANGED users
        BY <2>2 DEF Launch, Resolve, SwitchMode, truth
      <3> QED
        BY <2>2, <3>1, LaunchQuiet, ResolveQuiet, SwitchModeQuiet, QuietUsers
    <2>3. CASE TakeLock(r) \/ Unlock(r) \/ Kill(r)
      <3>1. UNCHANGED users /\ ~(Kill(r) /\ InForce(r))
        BY <2>3 DEF TakeLock, Unlock, Kill, truth
      <3> QED
        BY <2>3, <3>1, LeavingQuiet, QuietUsers
    <2>4. CASE Restore(r) \/ Restored(r) \/ Brought(r)
      BY <2>4, RestoreUsers, RestoredUsers, BroughtUsers
    <2>5. CASE WarnDeadLoopbackProxy(r) \/ BringUp(r) \/ Command(r)
      BY <2>5, WarnUsers, BringUpUsers, CommandUsers
    <2>6. CASE LockUnwritten(r)
      BY <2>6 DEF LockUnwritten, Fault, CountInv, Calm
    <2>7. CASE Forced(r) \/ Undone(r)
      BY <2>7, WriteDone DEF Forced, Undone, Underway
    <2>8. CASE ClearedDead(r)
      BY <2>8 DEF ClearedDead, UsersInv, Whole
    <2> QED
      BY <1>4, <2>1, <2>2, <2>3, <2>4, <2>5, <2>6, <2>7, <2>8
  <1> QED
    BY <1>1, <1>2, <1>3, <1>4 DEF Next

LEMMA UsersInit == Init => UsersInv
  <1> SUFFICES ASSUME Init PROVE UsersInv
    OBVIOUS
  <1>1. desktop \in Desktops /\ First \in Range(desktop)
    BY SystemProxyAssumption DEF Init, First, Range
  <1>2. PICK v \in UsersSettings :
          settings = [st \in Range(desktop) |->
            IF st = First THEN v ELSE [mode |-> "off", http |-> "none", https |-> "none", bypass |-> "none"]]
    BY DEF Init
  <1>3. Host = v /\ users = {settings}
    BY <1>1, <1>2 DEF Host, Init
  <1>4. Windows => Host.https = "none"
    BY <1>3, UsersWords
  <1>5. ASSUME NEW r \in Runs PROVE ~Holds(r) /\ Whole(r)
    <2>1. call[r] = Idle /\ app[r] = NoApp
      BY DEF Init
    <2>2. call[r].for = "nothing" /\ Len(call[r].cmds) = 0
      BY <2>1 DEF Idle
    <2>3. ~Holds(r)
      BY <2>1, <2>2, NoAppIsQuiet DEF Holds
    <2> QED
      BY <2>2, <2>3 DEF Whole, Theirs, Exactly, Lone
  <1> QED
    BY <1>3, <1>4, <1>5 DEF UsersInv, OfUser, Host

\* In a history without a refusal and with no run killed in force, a session has
\* taken its snapshot of a setting of the user's, which a restore writes back whole.
THEOREM BackAsWasInvariance == Spec => [](SettingInv /\ BackAsWasInv)
  <1>1. Init => SettingInv /\ BackAsWasInv
    BY LockInit, CalmInit, UsersInit DEF SettingInv, BackAsWasInv
  <1>2. SettingInv /\ BackAsWasInv /\ [Next]_vars => (SettingInv /\ BackAsWasInv)'
    <2> SUFFICES ASSUME SettingInv, BackAsWasInv, [Next]_vars PROVE SettingInv' /\ BackAsWasInv'
      OBVIOUS
    <2>1. SettingInv'
      BY LockNext, CountNext, CalmNext DEF SettingInv
    <2>2. ASSUME AddressesKept', Calm', struck' = "no" PROVE UsersInv'
      <3>1. Calm /\ struck = "no" /\ AddressesKept
        BY <2>2, CountNext, StruckNext, DesktopNext DEF SettingInv, AddressesKept, UsersSettings, Windows, First
      <3> QED
        BY <2>2, <3>1, UsersNext DEF SettingInv, BackAsWasInv
    <2> QED
      BY <2>1, <2>2 DEF BackAsWasInv
  <1> QED
    BY <1>1, <1>2, PTL DEF Spec

\* Where nothing is refused, and the user's proxy has the addresses a restore would
\* else make up, the desktop is as the user last set it once no run is at work, if
\* none was killed in the middle (restoreSystemProxy).
BackCalmly == AddressesKept /\ Calm => UsersComeBack

THEOREM BackCalmlyAlways == Spec => []BackCalmly
  <1>1. SettingInv /\ BackAsWasInv => BackCalmly
    <2> SUFFICES ASSUME SettingInv, BackAsWasInv, AddressesKept, Calm, AtRest, struck = "no"
                 PROVE  \E u \in users : IsBack(u)
      BY DEF BackCalmly, UsersComeBack
    <2>1. CalmInv /\ UsersInv
      BY DEF SettingInv, BackAsWasInv
    <2>2. ASSUME NEW r \in Runs PROVE ~Holds(r)
      <3>1. call[r] = Idle
        BY WritingAtWork DEF AtRest, SettingInv
      <3>2. ~app[r].touched
        BY <2>1 DEF CalmInv, AppInv, Owes, AtRest, Atwork
      <3> QED
        BY <3>1, <3>2 DEF Holds, Idle
    <2>3. settings \in users
      BY <2>1, <2>2 DEF UsersInv
    <2> QED
      BY <2>3 DEF IsBack
  <1> QED
    BY <1>1, BackAsWasInvariance, PTL

=============================================================================
