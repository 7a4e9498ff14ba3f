------------------------------ MODULE Install ------------------------------
(***************************************************************************)
(* What is downloaded and put in place (internal/updater): the core and    *)
(* its databases by the update screen (internal/tui/update.go), a panel's  *)
(* databases by the loads of its subscription (internal/app/geo.go), of    *)
(* which one left behind may still be at it when the next one is.          *)
(*                                                                         *)
(* A file stands for the version it is of.  Both databases of one install  *)
(* are of one version.  The temporary files of an install that is cut off  *)
(* are left out: nothing looks at them.                                    *)
(***************************************************************************)
EXTENDS Naturals, Sequences, FiniteSets, FiniteSetsExt

CONSTANTS
  Loads,     \* the loads of a subscription
  MaxTag,    \* of the releases: a bound
  MaxFaults  \* renames the system refuses: a bound

ASSUME InstallAssumption ==
  /\ {"screen", "nobody"} \cap Loads = {}
  /\ MaxTag \in Nat \ {0} /\ MaxFaults \in Nat

VARIABLES
  file,    \* what is under each name of a directory, 0 for nothing
  aside,   \* what has been moved aside next to it
  op,      \* the installs
  holder,  \* of installMu
  \* the update screen
  screen,  \* "gone", "open" or "closing": closeAndWait waits
  stage,   \* "menu", "releases", "working" or "done"
  core,    \* m.installed, as the header shows it
  \* the program's memory of the geo releases
  slot,    \* cached, 0 for nothing
  marked,  \* MarkGeoInstalled
  \* a bound, and whether an install has been cut off in the middle
  faults, torn

disk   == <<file, aside>>
shell  == <<screen, stage, core>>
memory == <<slot, marked>>
bounds == <<faults, torn>>
vars   == <<disk, op, holder, shell, memory, bounds>>

Procs == {"screen"} \cup Loads
Dirs  == {"core", "panel"}
Names == {"geoip", "geosite", "xray"}
Pair  == <<"geoip", "geosite">>
DirOf(p) == IF p = "screen" THEN "core" ELSE "panel"

\* An install: its files in order, the version, whether the screen that asked
\* is still there, the file it is at, and what those it moved aside were.
NoOp == [pc |-> "idle", names |-> <<>>, tag |-> 0, mine |-> FALSE, at |-> 1, old |-> <<>>]
Asked(names, tag) == [NoOp EXCEPT !.pc = "asked", !.names = names, !.tag = tag, !.mine = TRUE]

Init ==
  /\ \E v \in {0, 1} : file = [d \in Dirs |-> [n \in Names |-> IF n = "xray" THEN 1 ELSE v]]
  /\ aside = [d \in Dirs |-> [n \in Names |-> {}]]
  /\ op = [p \in Procs |-> NoOp] /\ holder = "nobody"
  /\ screen = "gone" /\ stage = "menu" /\ core = 0
  /\ slot = 0 /\ marked = 0
  /\ faults = 0 /\ torn = FALSE

(***************************************************************************)
(* An install                                                              *)
(***************************************************************************)
At(p, pc) == op[p].pc = pc
Name(p) == op[p].names[op[p].at]
Here(p) == file[DirOf(p)][Name(p)]
Goes(p, pc) == op' = [op EXCEPT ![p].pc = pc]

\* A load goes on without its databases; the screen is told.
Ends(p, ok) == op' = [op EXCEPT ![p] =
  IF p = "screen" THEN [@ EXCEPT !.pc = IF ok THEN "installed" ELSE "failed", !.at = 1, !.old = <<>>] ELSE NoOp]

Put(p, n, v) == file' = [file EXCEPT ![DirOf(p)][n] = v]
Keep(p, n, v) == aside' = [aside EXCEPT ![DirOf(p)][n] = @ \cup {v}]
Unkeep(p, n, v) == aside' = [aside EXCEPT ![DirOf(p)][n] = @ \ {v}]
Fault == faults < MaxFaults /\ faults' = faults + 1

\* The core goes in by one rename, with nothing moved aside.
OneFile(p) == op[p].names = <<"xray">>

\* Mutant: installs take no turns.
LockFree_Always == TRUE

LockFree == holder = "nobody"

Lock(p) ==
  /\ At(p, "lock") /\ LockFree
  /\ holder' = p /\ Goes(p, IF OneFile(p) THEN "put" ELSE "aside")
  /\ UNCHANGED <<disk, shell, memory, bounds>>

\* moveAside: what is not there needs no place.
MoveAside(p) ==
  /\ At(p, "aside")
  /\ \/ /\ op' = [op EXCEPT ![p].pc = "put", ![p].old = Append(@, Here(p))]
        /\ IF Here(p) = 0 THEN UNCHANGED disk ELSE Keep(p, Name(p), Here(p)) /\ Put(p, Name(p), 0)
        /\ UNCHANGED faults
     \/ /\ Here(p) # 0 /\ Fault
        /\ op' = [op EXCEPT ![p].pc = "rollback", ![p].at = @ - 1]
        /\ UNCHANGED disk
  /\ UNCHANGED <<holder, shell, memory, torn>>

Old(p) == op[p].old[op[p].at]

\* The last file put in: the copies moved aside go.
NextFile(p) == IF op[p].at < Len(op[p].names) THEN [op[p] EXCEPT !.pc = "aside", !.at = @ + 1]
                                            ELSE [op[p] EXCEPT !.pc = "clean"]

PutIn(p) ==
  /\ At(p, "put")
  /\ \/ /\ Put(p, Name(p), op[p].tag) /\ op' = [op EXCEPT ![p] = NextFile(p)]
        /\ UNCHANGED <<aside, faults>>
     \/ /\ Fault
        /\ IF OneFile(p) THEN Goes(p, "unlock") ELSE Goes(p, "unput")
        /\ UNCHANGED disk
  /\ UNCHANGED <<holder, shell, memory, torn>>

\* Mutant: what cannot be put back is thrown away.
PutBack_Drop(p, v) ==
  \/ /\ Put(p, Name(p), v)
     /\ IF v = 0 THEN UNCHANGED aside ELSE Unkeep(p, Name(p), v)
     /\ UNCHANGED faults
  \/ v # 0 /\ Fault /\ Unkeep(p, Name(p), v) /\ UNCHANGED file

\* What was moved aside goes back under its name, or stays where it is.
PutBack(p, v) ==
  \/ /\ Put(p, Name(p), v)
     /\ IF v = 0 THEN UNCHANGED aside ELSE Unkeep(p, Name(p), v)
     /\ UNCHANGED faults
  \/ v # 0 /\ Fault /\ UNCHANGED disk

\* The rename in has failed: commit puts its own file back.
Unput(p) ==
  /\ At(p, "unput")
  /\ IF Old(p) = 0 THEN UNCHANGED <<disk, faults>> ELSE PutBack(p, Old(p))
  /\ op' = [op EXCEPT ![p].pc = "rollback", ![p].at = @ - 1]
  /\ UNCHANGED <<holder, shell, memory, torn>>

\* Mutant: what went in before the failure stays in.
Undo_Not(p) == UNCHANGED <<disk, faults>>

Undo(p) == PutBack(p, Old(p))

\* rollback of what was put in before: what replaced nothing is removed.
Rollback(p) ==
  /\ At(p, "rollback")
  /\ IF op[p].at = 0
       THEN Goes(p, "unlock") /\ UNCHANGED <<disk, faults>>
       ELSE Undo(p) /\ op' = [op EXCEPT ![p].at = @ - 1]
  /\ UNCHANGED <<holder, shell, memory, torn>>

Clean(p) ==
  /\ At(p, "clean")
  /\ aside' = [aside EXCEPT ![DirOf(p)] = [n \in Names |->
       @[n] \ {op[p].old[i] : i \in {j \in DOMAIN op[p].old : op[p].names[j] = n}}]]
  /\ Ends(p, TRUE) /\ holder' = "nobody"
  /\ UNCHANGED <<file, shell, memory, bounds>>

Unlock(p) ==
  /\ At(p, "unlock")
  /\ Ends(p, FALSE) /\ holder' = "nobody"
  /\ UNCHANGED <<disk, shell, memory, bounds>>

Over(p) == op[p].pc \in {"installed", "failed"}
Committing(p) == op[p].pc \in {"aside", "put", "unput", "rollback", "clean", "unlock"}
Running(p) == Committing(p) \/ op[p].pc \in {"get", "lock"}

Step(p) ==
  \/ Lock(p) \/ MoveAside(p) \/ PutIn(p) \/ Unput(p) \/ Rollback(p)
  \/ Clean(p) \/ Unlock(p)

\* The downloads, the checksums and the sealing of what came; it looks at its
\* context here for the last time.  A panel's pair may be of any version.
LoadDownload(p) ==
  /\ At(p, "idle")
  /\ \E v \in 1..MaxTag : op' = [op EXCEPT ![p] = [NoOp EXCEPT !.pc = "lock", !.names = Pair, !.tag = v]]
  /\ UNCHANGED <<disk, holder, shell, memory, bounds>>

ScreenDownload ==
  /\ At("screen", "get")
  /\ Goes("screen", "lock") \/ Ends("screen", FALSE)
  /\ UNCHANGED <<disk, holder, shell, memory, bounds>>

(***************************************************************************)
(* The update screen                                                       *)
(***************************************************************************)
\* RunUpdate.  The core's version is asked of the core.
Open ==
  /\ screen = "gone"
  /\ screen' = "open" /\ stage' = "menu" /\ core' = file["core"]["xray"]
  /\ UNCHANGED <<disk, op, holder, memory, bounds>>

PickCore ==
  /\ screen = "open" /\ stage = "menu"
  /\ stage' = "releases"
  /\ UNCHANGED <<disk, op, holder, screen, core, memory, bounds>>

\* The header follows what was put in.
Shown(ok) == IF ok /\ OneFile("screen") THEN op["screen"].tag ELSE core

\* What runs already is not downloaded again.
PickRelease ==
  /\ screen = "open" /\ stage = "releases" /\ At("screen", "idle")
  /\ \E v \in 1..MaxTag :
       IF v = core THEN stage' = "done" /\ UNCHANGED op
                   ELSE stage' = "working" /\ op' = [op EXCEPT !["screen"] = Asked(<<"xray">>, v)]
  /\ UNCHANGED <<disk, holder, screen, core, memory, bounds>>

\* FetchLatestGeoRelease: its answer is kept for a while, and no later one is
\* of an earlier release.
PickGeo ==
  /\ screen = "open" /\ stage = "menu" /\ At("screen", "idle")
  /\ \E v \in 1..MaxTag :
       /\ v >= slot
       /\ slot' = v
       /\ IF v = marked THEN stage' = "done" /\ UNCHANGED op
                        ELSE stage' = "working" /\ op' = [op EXCEPT !["screen"] = Asked(Pair, v)]
  /\ UNCHANGED <<disk, holder, screen, core, marked, bounds>>

\* A list of releases or a geo release that does not come.
FetchFails ==
  /\ screen = "open" /\ stage = "menu"
  /\ stage' = "done"
  /\ UNCHANGED <<disk, op, holder, screen, core, memory, bounds>>

\* Mutant: an install may begin after the screen has begun to close.
MayStart_Always == TRUE

\* opGuard.start
MayStart == op["screen"].mine /\ screen = "open"

StartOp ==
  /\ At("screen", "asked")
  /\ Goes("screen", IF MayStart THEN "get" ELSE "failed")
  /\ UNCHANGED <<disk, holder, shell, memory, bounds>>

\* Mutant: the release is remembered before it has landed.
Remembered_Early(ok) == ~OneFile("screen")

Remembered(ok) == ok /\ ~OneFile("screen")

\* installedMsg: it reaches the screen that asked, if it is still there.
Installed ==
  /\ Over("screen")
  /\ LET ok == At("screen", "installed")
     IN  IF op["screen"].mine /\ screen = "open"
           THEN /\ stage' = "done"
                /\ core' = Shown(ok)
                /\ marked' = IF Remembered(ok) THEN op["screen"].tag ELSE marked
           ELSE UNCHANGED <<stage, core, marked>>
  /\ op' = [op EXCEPT !["screen"] = NoOp]
  /\ UNCHANGED <<disk, holder, screen, slot, bounds>>

AnyKey ==
  /\ screen = "open" /\ stage \in {"done", "releases"}
  /\ stage' = "menu"
  /\ UNCHANGED <<disk, op, holder, screen, core, memory, bounds>>

\* Its context is cancelled, nothing more may start, and what has is waited for.
Quit ==
  /\ screen = "open"
  /\ screen' = "closing" /\ stage' = "menu"
  /\ UNCHANGED <<disk, op, holder, core, memory, bounds>>

\* Mutant: the screen returns without waiting.
Waited_Not == TRUE

Waited == ~Running("screen")

Return ==
  /\ screen = "closing" /\ Waited
  /\ screen' = "gone" /\ core' = 0
  /\ op' = [op EXCEPT !["screen"].mine = FALSE]
  /\ UNCHANGED <<disk, holder, stage, memory, bounds>>

(***************************************************************************)
(* What happens to it                                                      *)
(***************************************************************************)
Crash ==
  /\ torn' = (torn \/ \E p \in Procs : Committing(p))
  /\ op' = [p \in Procs |-> NoOp] /\ holder' = "nobody"
  /\ screen' = "gone" /\ stage' = "menu" /\ core' = 0 /\ slot' = 0 /\ marked' = 0
  /\ UNCHANGED <<disk, faults>>

ScreenNext ==
  \/ Open \/ PickCore \/ PickRelease \/ PickGeo \/ FetchFails \/ StartOp
  \/ ScreenDownload \/ Installed
  \/ AnyKey \/ Quit \/ Return

Next ==
  \/ \E p \in Procs : Step(p)
  \/ \E p \in Loads : LoadDownload(p)
  \/ ScreenNext
  \/ Crash

Spec == Init /\ [][Next]_vars

(***************************************************************************)
(* Properties                                                              *)
(***************************************************************************)
TypeOK ==
  /\ file \in [Dirs -> [Names -> 0..MaxTag]]
  /\ aside \in [Dirs -> [Names -> SUBSET (1..MaxTag)]]
  /\ holder \in Procs \cup {"nobody"}
  /\ screen \in {"gone", "open", "closing"} /\ stage \in {"menu", "releases", "working", "done"}
  /\ {slot, marked} \subseteq 0..MaxTag

\* A directory nobody is changing holds a pair of one install, or none at all:
\* whatever rename failed, and with two loads putting pairs into it at once.
\* A kill in the middle is exempt (updater.go:554-560 says so), and a pair of
\* which a file could not be put back.
PairIsOfOneInstall ==
  \A d \in Dirs :
    (~torn /\ (\A p \in Procs : DirOf(p) = d => ~Committing(p)) /\ (\A n \in Names : aside[d][n] = {}))
      => file[d]["geoip"] = file[d]["geosite"]

\* A file that was there is under its name or moved aside, whatever fails and
\* wherever a kill falls, but for a first install that is undone
\* (updater.go:675-698).
Present(d, n) == file[d][n] # 0 \/ aside[d][n] # {}
UndoesFirst(p, d, n) == At(p, "rollback") /\ op[p].at # 0 /\ DirOf(p) = d /\ Name(p) = n /\ Old(p) = 0

NothingIsLost ==
  [][\A d \in Dirs : \A n \in Names :
       Present(d, n) => Present(d, n)' \/ \E p \in Procs : UndoesFirst(p, d, n)]_vars

\* When the update screen has returned, nothing it started changes a file
\* (tui/update.go:120-122).
ReturnsQuiet == screen = "gone" => ~Running("screen")

\* The screen says that the databases are the latest when they are: of a
\* release it remembers for the whole run, and asks for less often than it may
\* change (updater.go:206-222, update.go:227-233).
UpToDateIsTrue ==
  [][PickGeo /\ stage' = "done"
       => file["core"]["geoip"] = slot' /\ file["core"]["geosite"] = slot']_vars

=============================================================================
