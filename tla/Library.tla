------------------------------ MODULE Library ------------------------------
(***************************************************************************)
(* The user's subscriptions: the list on disk and its sealing              *)
(* (internal/subscription/store.go), the saved answers of the panels       *)
(* (cache.go), the databases each panel wants (internal/app/geo.go), and   *)
(* the menu that opens, refreshes, adds and deletes them                   *)
(* (internal/app/navigate.go, internal/tui/subs.go).                       *)
(*                                                                         *)
(* A load, a refresh and an addition each run beside the screen; one that  *)
(* the user leaves goes on until it looks at its context.  A subscription  *)
(* stands for its URL, what its panel answers and its pair of databases.   *)
(* What is said of the list in the data dir holds of one kept plain beside *)
(* the program, which is that of a run without a key.                      *)
(***************************************************************************)
EXTENDS Naturals, Sequences, SequencesExt, FiniteSets

CONSTANTS
  Subs,       \* subscriptions
  WithGeo,    \* those whose panel has databases of its own
  Core,       \* the directory of the core's own databases
  None,
  MaxTasks    \* loads, refreshes and additions at once: a bound

ASSUME LibraryAssumption ==
  /\ IsFiniteSet(Subs) /\ WithGeo \subseteq Subs
  /\ Core \notin Subs /\ None \notin Subs /\ None \notin Seq(Subs)
  /\ MaxTasks \in Nat \ {0}

VARIABLES
  \* on disk: the list in its two forms, the saved answers, the databases
  plain, sealed, copies, dirs,
  \* the program
  up,
  keyed,     \* the OS keeps a key for the user
  \* a.nav and App; nav.subs is read again after whatever changes the list
  loaded,    \* whose profiles are in nav.profiles
  stale,     \* and they are a saved answer
  geoDir,    \* whose databases are in use
  \* the screen
  screen,    \* "subs", "loading" or "list"
  shown,     \* the subscriptions it lists
  choice,
  waits,     \* the task it waits for, 0 for none
  open,      \* the subscription of the list screen
  rows,      \* whose servers it lists
  \* what runs beside it
  task,
  \* ghosts
  wanted,    \* what the user has added and not deleted
  strayed    \* something cut off or left behind has had an effect

disk   == <<plain, sealed, copies, dirs>>
run    == <<up, keyed>>
nav    == <<loaded, stale, geoDir>>
menu   == <<screen, shown, choice, waits, open, rows>>
ghosts == <<wanted, strayed>>
vars   == <<disk, run, nav, menu, task, ghosts>>

Tasks == 1..MaxTasks

Idle == [kind |-> "none", pc |-> "idle", sub |-> None, left |-> FALSE, fresh |-> FALSE,
         stale |-> FALSE, ok |-> FALSE, dir |-> Core, got |-> <<>>]
NewTask(kind, pc, s) == [Idle EXCEPT !.kind = kind, !.pc = pc, !.sub = s]

\* An earlier version kept the list plain.
Init ==
  /\ \E l \in {None} \cup (SetToAllKPermutations(Subs) \ {<<>>}) :
       plain = l /\ wanted = IF l = None THEN <<>> ELSE l
  /\ sealed = None /\ copies = {} /\ dirs = {}
  /\ up = FALSE /\ keyed = FALSE
  /\ loaded = None /\ stale = FALSE /\ geoDir = Core
  /\ screen = "subs" /\ shown = <<>> /\ choice = 0 /\ waits = 0 /\ open = None /\ rows = None
  /\ task = [t \in Tasks |-> Idle] /\ strayed = FALSE

(***************************************************************************)
(* The list on disk                                                        *)
(***************************************************************************)
Kept == IF sealed # None THEN sealed ELSE plain

\* readSubs: no list is an empty one; a sealed one needs the key.
Readable(k) == sealed = None \/ k
List == IF Kept = None THEN <<>> ELSE Kept

\* Mutant: the plain copy is removed before the sealed one is written.
CutWrite_Remove(l, k) == IF k THEN plain' = None /\ UNCHANGED sealed ELSE UNCHANGED <<plain, sealed>>

\* writeSubs, whole and cut off half way: the sealed copy is written first.
CutWrite(l, k) == IF k THEN sealed' = l /\ UNCHANGED plain ELSE UNCHANGED <<plain, sealed>>

WriteSubs(l, k) == IF k THEN sealed' = l /\ plain' = None
                        ELSE plain' = l /\ UNCHANGED sealed

\* A plain list is sealed as soon as there is a key.
ToSeal(k) == sealed = None /\ k /\ List # <<>>

(***************************************************************************)
(* The program                                                             *)
(***************************************************************************)
Start ==
  /\ ~up
  /\ \E k \in BOOLEAN :
       /\ Readable(k)
       /\ IF ToSeal(k) THEN WriteSubs(List, k) ELSE UNCHANGED <<plain, sealed>>
       /\ keyed' = k
  /\ up' = TRUE
  /\ shown' = List
  /\ UNCHANGED <<copies, dirs, loaded, stale, geoDir, screen, choice, waits, open, rows, task, ghosts>>

Forget ==
  /\ up' = FALSE /\ keyed' = FALSE
  /\ loaded' = None /\ stale' = FALSE /\ geoDir' = Core
  /\ screen' = "subs" /\ shown' = <<>> /\ choice' = 0 /\ waits' = 0 /\ open' = None /\ rows' = None
  /\ task' = [t \in Tasks |-> Idle]

StartCut ==
  /\ ~up /\ ToSeal(TRUE)
  /\ CutWrite(List, TRUE)
  /\ UNCHANGED <<up, keyed, copies, dirs, nav, menu, task, ghosts>>

\* The user quits, or the program is killed, at any time.
Exit ==
  /\ up
  /\ Forget
  /\ UNCHANGED <<disk, ghosts>>

(***************************************************************************)
(* The subscription screen                                                 *)
(***************************************************************************)
Begin(t, new) == /\ t \in Tasks /\ task[t].kind = "none"
                 /\ \A u \in 1..(t - 1) : task[u].kind # "none"
                 /\ task' = [task EXCEPT ![t] = new]

OpenSubscription ==
  /\ up /\ screen = "subs"
  /\ \E t \in Tasks : \E i \in DOMAIN shown :
       /\ Begin(t, NewTask("load", "look", shown[i]))
       /\ choice' = i /\ waits' = t
  /\ screen' = "loading"
  /\ UNCHANGED <<disk, run, nav, shown, open, rows, ghosts>>

Esc ==
  /\ up /\ screen = "loading" /\ task[waits].kind = "load"
  /\ task' = [task EXCEPT ![waits].left = TRUE]
  /\ screen' = "subs" /\ waits' = 0 /\ choice' = 0
  /\ UNCHANGED <<disk, run, nav, shown, open, rows, ghosts>>

AddSubscription ==
  /\ up /\ screen = "subs"
  /\ \E t \in Tasks : \E s \in Subs :
       /\ Begin(t, NewTask("add", "list", s))
       /\ waits' = t
  /\ screen' = "loading"
  /\ UNCHANGED <<disk, run, nav, shown, choice, open, rows, ghosts>>

\* Mutant: one past the entry asked for.
DropAt_Next(l, i) == RemoveAt(l, IF i < Len(l) THEN i + 1 ELSE i)

DropAt(l, i) == RemoveAt(l, i)

\* Mutant: the saved answer of a deleted subscription stays.
RemoveCached_Not(s) == UNCHANGED copies

RemoveCached(s) == copies' = copies \ {s}

\* RemoveSubscription and the list read again.  The user means the one on the
\* screen.
Deleting(i) == /\ up /\ screen = "subs" /\ i \in DOMAIN shown /\ i <= Len(List)
               /\ WriteSubs(DropAt(List, i), keyed)
               /\ wanted' = RemoveFirst(wanted, shown[i])

DeleteSubscription ==
  /\ \E i \in DOMAIN shown : Deleting(i) /\ RemoveCached(List[i]) /\ shown' = DropAt(List, i)
  /\ UNCHANGED <<dirs, run, nav, screen, choice, waits, open, rows, task, strayed>>

\* Killed between the two: the answer stays for good.
DeleteCut ==
  /\ \E i \in DOMAIN shown : Deleting(i) /\ strayed' = (strayed \/ List[i] \in copies)
  /\ Forget
  /\ UNCHANGED <<copies, dirs>>

(***************************************************************************)
(* What runs beside the screen                                             *)
(***************************************************************************)
At(t, pc) == up /\ task[t].pc = pc
Goes(t, pc) == task' = [task EXCEPT ![t].pc = pc]
Ends(t, ok) ==
  LET k == task[t]
  IN  task' = [task EXCEPT ![t] = [NewTask(k.kind, "done", IF k.kind = "refresh" THEN k.sub ELSE None)
                                   EXCEPT !.ok = ok]]
Strays(t) == strayed' = (strayed \/ task[t].left)

\* loadSubscription: what is in hand and young enough is not asked for again.
Look(t) ==
  /\ At(t, "look")
  /\ \/ /\ loaded = task[t].sub /\ ~stale
        /\ task' = [task EXCEPT ![t].pc = "assets", ![t].fresh = TRUE]
     \/ Goes(t, "fetch")
  /\ UNCHANGED <<disk, run, nav, menu, ghosts>>

\* SaveSubscription
SaveToList(t) ==
  /\ At(t, "list")
  /\ LET s == task[t].sub
     IN  IF s \in Range(List)
           THEN UNCHANGED <<plain, sealed, wanted>>
           ELSE /\ WriteSubs(Append(List, s), keyed)
                /\ wanted' = Append(wanted, s)
  /\ Goes(t, "fetch")
  /\ UNCHANGED <<copies, dirs, run, nav, menu, strayed>>

\* FetchProfilesCached: the saved answer stands in for a panel that fails, and
\* for nothing the user stopped.  An addition asks only for the name.
Fetch(t) ==
  /\ At(t, "fetch")
  /\ LET k == task[t]
     IN  \/ ~k.left /\ Goes(t, IF k.kind = "add" THEN "name" ELSE "copy")
         \/ IF k.kind = "add" THEN Ends(t, TRUE)
            ELSE IF k.left \/ k.sub \notin copies THEN Ends(t, FALSE)
            ELSE task' = [task EXCEPT ![t].pc = "assets", ![t].stale = TRUE]
  /\ UNCHANGED <<disk, run, nav, menu, ghosts>>

SaveCached(t) ==
  /\ At(t, "copy")
  /\ copies' = copies \cup {task[t].sub}
  /\ Goes(t, "assets") /\ Strays(t)
  /\ UNCHANGED <<plain, sealed, dirs, run, nav, menu, wanted>>

\* pruneGeoDirs: of who is listed, and of who is being opened.
Pruned(s) == dirs \cap (Range(List) \cup {s})

\* useGeoAssets: the directories of those no longer listed go, this one's
\* databases may be young enough, or else they are asked for.
UseGeoAssets(t) ==
  /\ At(t, "assets")
  /\ LET s == task[t].sub
     IN  IF s \notin WithGeo
           THEN Goes(t, "switch") /\ UNCHANGED dirs
           ELSE /\ dirs' = Pruned(s)
                /\ \/ s \in dirs /\ task' = [task EXCEPT ![t].pc = "switch", ![t].dir = s]
                   \/ Goes(t, "install")
  /\ UNCHANGED <<plain, sealed, copies, run, nav, menu, ghosts>>

\* A failed install leaves the pair that was there, which serves.
InstallPanelGeo(t) ==
  /\ At(t, "install")
  /\ LET s == task[t].sub
     IN  /\ \/ ~task[t].left /\ dirs' = dirs \cup {s}
            \/ UNCHANGED dirs
         /\ task' = [task EXCEPT ![t].pc = "switch", ![t].dir = IF s \in dirs' THEN s ELSE Core]
  /\ UNCHANGED <<plain, sealed, copies, run, nav, menu, ghosts>>

\* Mutant: a load applies what it has, cancelled or not.
MayCommit_Always(t) == TRUE

\* commitLoad
MayCommit(t) == ~task[t].left

Switch(t) ==
  /\ At(t, "switch")
  /\ IF MayCommit(t)
       THEN /\ geoDir' = task[t].dir
            /\ IF task[t].fresh THEN Ends(t, TRUE)
               ELSE task' = [task EXCEPT ![t].pc = "name", ![t].dir = Core]
       ELSE Ends(t, FALSE) /\ UNCHANGED geoDir
  /\ UNCHANGED <<disk, run, loaded, stale, menu, ghosts>>

\* adoptPanelTitle, NameSubscription: the list is read, and written with the
\* name over its URL, unless the panel gives none or there is one.  No property
\* is about a name, so the list is its URLs.
ReadToName(t) ==
  /\ At(t, "name")
  /\ \/ Goes(t, "commit")
     \/ /\ task[t].sub \in Range(List)
        /\ task' = [task EXCEPT ![t].pc = "write", ![t].got = List]
  /\ UNCHANGED <<disk, run, nav, menu, ghosts>>

WriteName(t) ==
  /\ At(t, "write")
  /\ WriteSubs(task[t].got, keyed)
  /\ task' = [task EXCEPT ![t].pc = "commit", ![t].got = <<>>]
  /\ Strays(t)
  /\ UNCHANGED <<copies, dirs, run, nav, menu, wanted>>

SetProfiles(t) == loaded' = task[t].sub /\ stale' = task[t].stale

\* The end of loadSubscription, and of a refresh: the saved answer is none to
\* one who asks the panel, and what came is put in place without a look at who
\* still wants it.
Commit(t) ==
  /\ At(t, "commit")
  /\ CASE task[t].kind = "load" ->
              /\ IF MayCommit(t) THEN SetProfiles(t) ELSE UNCHANGED <<loaded, stale>>
              /\ Ends(t, MayCommit(t)) /\ UNCHANGED strayed
         [] task[t].kind = "refresh" /\ ~task[t].stale ->
              SetProfiles(t) /\ Ends(t, TRUE) /\ Strays(t)
         [] OTHER -> Ends(t, task[t].kind = "add") /\ UNCHANGED <<loaded, stale, strayed>>
  /\ UNCHANGED <<disk, run, geoDir, menu, wanted>>

(***************************************************************************)
(* What they tell the screens                                              *)
(***************************************************************************)
\* Mutant: any load that is over is taken for the one waited for.
TellsOfIt_Any(t) == waits # 0 /\ task[waits].kind = "load"

\* loadedMsg and its gen.
TellsOfIt(t) == waits = t

Drop(t) == task' = [task EXCEPT ![t] = Idle]

\* SelectSubscription has returned, and the list comes from the disk.
LoadedMsg(t) ==
  /\ At(t, "done") /\ task[t].kind = "load"
  /\ IF ~TellsOfIt(t) THEN Drop(t) /\ UNCHANGED <<run, nav, menu>>
     ELSE IF ~task[t].ok
       THEN /\ screen' = "subs" /\ waits' = 0 /\ choice' = 0 /\ Drop(t)
            /\ UNCHANGED <<run, nav, shown, open, rows>>
     ELSE IF choice > Len(List)
       THEN Forget
       ELSE /\ screen' = "list" /\ waits' = 0 /\ Drop(t)
            /\ open' = List[choice] /\ rows' = loaded
            /\ shown' = <<>> /\ choice' = 0
            /\ UNCHANGED <<run, nav>>
  /\ UNCHANGED <<disk, ghosts>>

AddedMsg(t) ==
  /\ At(t, "done") /\ task[t].kind = "add"
  /\ screen' = "subs" /\ waits' = 0 /\ shown' = List /\ Drop(t)
  /\ UNCHANGED <<disk, run, nav, choice, open, rows, ghosts>>

RefreshDoneMsg(t) ==
  /\ At(t, "done") /\ task[t].kind = "refresh"
  /\ Drop(t)
  /\ IF waits # t THEN UNCHANGED <<waits, rows>>
     ELSE waits' = 0 /\ rows' = IF task[t].ok THEN task[t].sub ELSE rows
  /\ UNCHANGED <<disk, run, nav, screen, shown, choice, open, ghosts>>

(***************************************************************************)
(* The list screen                                                         *)
(***************************************************************************)
Refresh ==
  /\ up /\ screen = "list" /\ waits = 0
  /\ \E t \in Tasks : Begin(t, NewTask("refresh", "fetch", open)) /\ waits' = t
  /\ UNCHANGED <<disk, run, nav, screen, shown, choice, open, rows, ghosts>>

\* Its context ends with the screen.
LeaveRefresh ==
  /\ task' = IF waits = 0 THEN task ELSE [task EXCEPT ![waits].left = TRUE]
  /\ waits' = 0

Back ==
  /\ up /\ screen = "list"
  /\ screen' = "subs" /\ shown' = List /\ open' = None /\ rows' = None
  /\ LeaveRefresh
  /\ UNCHANGED <<disk, run, nav, choice, ghosts>>

\* A session, and the menu again where it was left.
Connect ==
  /\ up /\ screen = "list"
  /\ rows' = loaded
  /\ LeaveRefresh
  /\ UNCHANGED <<disk, run, nav, screen, shown, choice, open, ghosts>>

TaskNext(t) ==
  \/ Look(t) \/ SaveToList(t) \/ Fetch(t) \/ SaveCached(t) \/ UseGeoAssets(t)
  \/ InstallPanelGeo(t) \/ Switch(t) \/ ReadToName(t) \/ WriteName(t) \/ Commit(t)
  \/ LoadedMsg(t) \/ AddedMsg(t) \/ RefreshDoneMsg(t)

Next ==
  \/ Start \/ StartCut \/ Exit
  \/ OpenSubscription \/ Esc \/ AddSubscription \/ DeleteSubscription \/ DeleteCut
  \/ Refresh \/ Back \/ Connect
  \/ \E t \in Tasks : TaskNext(t)

Spec == Init /\ [][Next]_vars

(***************************************************************************)
(* Properties                                                              *)
(***************************************************************************)
TaskState == [kind : {"none", "load", "add", "refresh"},
              pc   : {"idle", "look", "list", "fetch", "copy", "assets", "install", "switch",
                      "name", "write", "commit", "done"},
              sub  : Subs \cup {None}, dir : WithGeo \cup {Core}, got : Seq(Subs),
              left : BOOLEAN, fresh : BOOLEAN, stale : BOOLEAN, ok : BOOLEAN]

TypeOK ==
  /\ plain \in {None} \cup Seq(Subs) /\ sealed \in {None} \cup Seq(Subs)
  /\ copies \subseteq Subs /\ dirs \subseteq WithGeo /\ up \in BOOLEAN /\ keyed \in BOOLEAN
  /\ loaded \in Subs \cup {None} /\ stale \in BOOLEAN /\ geoDir \in WithGeo \cup {Core}
  /\ screen \in {"subs", "loading", "list"} /\ shown \in Seq(Subs) /\ choice \in Nat
  /\ waits \in 0..MaxTasks /\ open \in Subs \cup {None} /\ rows \in Subs \cup {None}
  /\ task \in [Tasks -> TaskState]
  /\ wanted \in Seq(Subs) /\ strayed \in BOOLEAN

\* On the list screen the profiles a connection would be built from, the rows,
\* the subscription in the title and the databases are of one subscription,
\* and the databases are there: whatever loads were left behind on the way
\* (navigate.go:255-280, app.go:192-205, subs.go:140-156), as long as none of
\* them had an effect past its last look.
OpenIsLoaded ==
  (screen = "list" /\ ~strayed) =>
     /\ loaded = open /\ rows = open
     /\ geoDir \in {Core, open} /\ geoDir \in dirs \cup {Core}

\* The list is what the user has made of it: through sealing, a kill between
\* its two steps, runs with the key and without, names the panels give, and
\* deletions by the place on the screen (store.go:77-133, 189-312).
ListIsUsers == strayed \/ List = wanted

\* A saved answer holds the servers' credentials, and does not outlive the
\* subscription (cache.go:129-139).
CopiesAreListed == strayed \/ copies \subseteq Range(wanted)

\* "A load cancelled meanwhile (the user backed out and opened another
\* subscription) must not replace what the later one has put in place"
\* (navigate.go:271-272).
LaterLoadStands == (screen = "list" /\ rows = open) => loaded = rows

=============================================================================
