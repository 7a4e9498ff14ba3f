------------------------------- MODULE Journal -------------------------------
(***************************************************************************)
(* The journal of host changes (internal/system): each process writes down *)
(* what it is about to change, one record per pid, and a process that      *)
(* starts takes over the records of those that are gone.  The changes here *)
(* are the kill switch's chain and the split's cgroup, of which the host   *)
(* has one each; routes are TunRouting's.                                  *)
(*                                                                         *)
(* Runs come one after another or at once (the service takes no lock, and  *)
(* an interface's is per config), any of them may die between two steps,   *)
(* and a pid passes to a later run.  A write that fails is only logged.    *)
(***************************************************************************)
EXTENDS Naturals

CONSTANTS
  Runs,      \* processes of the program, one incarnation each
  Pids,
  Procs,     \* the user's processes the split is for
  NoOne,
  MaxKernelFaults, MaxStoreFaults, MaxBoots  \* bounds

ASSUME JournalAssumption ==
  /\ NoOne \notin Runs \cup Pids
  /\ MaxKernelFaults \in Nat /\ MaxStoreFaults \in Nat /\ MaxBoots \in Nat

\* Where a process lives outside the split: where it was found, or the root
\* cgroup, which is where it goes when nobody knows.
Places  == {"home", "root"}
Homes   == [Procs -> Places \cup {"unknown"}]
Changes == [kill : BOOLEAN, split : BOOLEAN, homes : Homes]

NoneTaken == [p \in Pids |-> NoOne]
Unknown == [q \in Procs |-> "unknown"]
Nothing == [kill |-> FALSE, split |-> FALSE, homes |-> Unknown]

\* A record names its writer, by pid and start, and the boot it ran in.
Records  == [by : Runs, what : Changes]
NoRecord == [by |-> NoOne, what |-> Nothing]

VARIABLES
  \* the host
  chain,   \* who put up the kill switch's chain
  cgroup,  \* the split's cgroup is there
  at,      \* where each process lives: a place, or "split"
  store,   \* the records, by pid
  boot,    \* counts the boots
  \* the runs
  life,    \* "new", "live" or "dead"
  pid,
  born,    \* the boot it started in
  own,     \* ownJournal
  written,
  known,   \* splitHome
  session, \* what it has up: "none", "tun" or "split"
  on,      \* App.killSwitchOn
  pc,
  found,   \* what its recovery took over and has yet to take down
  taken,   \* whose records it read to drop them, by pid
  \* ghosts and bounds
  before,  \* the runs dead when it started
  clash,   \* a recovery has dropped a record put since it read the store
  kernelFaults, storeFaults

host   == <<chain, cgroup, at, boot>>
who    == <<life, pid, born, before>>
memory == <<own, written, known>>
app    == <<session, on>>
todo   == <<found, taken>>
vars   == <<host, store, who, memory, app, pc, todo, clash, kernelFaults, storeFaults>>

Init ==
  /\ chain = NoOne
  /\ cgroup = FALSE
  /\ at = [q \in Procs |-> "home"]
  /\ store = [p \in Pids |-> NoRecord]
  /\ boot = 0
  /\ life = [r \in Runs |-> "new"]
  /\ pid = [r \in Runs |-> NoOne]
  /\ born = [r \in Runs |-> 0]
  /\ own = [r \in Runs |-> Nothing]
  /\ written = [r \in Runs |-> FALSE]
  /\ known = [r \in Runs |-> Unknown]
  /\ session = [r \in Runs |-> "none"]
  /\ on = [r \in Runs |-> FALSE]
  /\ pc = [r \in Runs |-> "new"]
  /\ found = [r \in Runs |-> Nothing]
  /\ taken = [r \in Runs |-> NoneTaken]
  /\ before = [r \in Runs |-> {}]
  /\ clash = FALSE
  /\ kernelFaults = 0
  /\ storeFaults = 0

-----------------------------------------------------------------------------
Live(r) == life[r] = "live"

At(r, here) == Live(r) /\ pc[r] = here

Goto(r, there) == pc' = [pc EXCEPT ![r] = there]

KernelFault ==
  /\ kernelFaults < MaxKernelFaults
  /\ kernelFaults' = kernelFaults + 1

StoreFault ==
  /\ storeFaults < MaxStoreFaults
  /\ storeFaults' = storeFaults + 1

\* journal.empty: a record of homes alone is not kept.
IsEmpty(c) == ~c.kill /\ ~c.split

\* note, with saveJournal: r's record becomes c and is put, or dropped when c
\* is empty.  A write that fails leaves the store as it was.
Note(r, c) ==
  /\ own' = [own EXCEPT ![r] = c]
  /\ \/ /\ ~IsEmpty(c)
        /\ \/ /\ store' = [store EXCEPT ![pid[r]] = [by |-> r, what |-> c]]
              /\ written' = [written EXCEPT ![r] = TRUE]
              /\ UNCHANGED storeFaults
           \/ StoreFault /\ UNCHANGED <<store, written>>
     \/ /\ IsEmpty(c) /\ written[r]
        /\ written' = [written EXCEPT ![r] = FALSE]
        /\ \/ store' = [store EXCEPT ![pid[r]] = NoRecord] /\ UNCHANGED storeFaults
           \/ StoreFault /\ UNCHANGED store
     \/ /\ IsEmpty(c) /\ ~written[r]
        /\ UNCHANGED <<store, written, storeFaults>>

-----------------------------------------------------------------------------
(* RecoverJournal, once, before a run changes anything. *)

\* Any pid that no live process has.
Start(r, p) ==
  /\ life[r] = "new"
  /\ \A s \in Runs : Live(s) => pid[s] # p
  /\ life' = [life EXCEPT ![r] = "live"]
  /\ pid' = [pid EXCEPT ![r] = p]
  /\ born' = [born EXCEPT ![r] = boot]
  /\ before' = [before EXCEPT ![r] = {s \in Runs : life[s] = "dead"}]
  /\ Goto(r, "read")
  /\ UNCHANGED <<host, store, memory, app, todo, clash, kernelFaults, storeFaults>>

\* Mutant: any process under the pid passes for the record's writer.
ProcessAlive_AnyStart(p) == \E r \in Runs : Live(r) /\ pid[r] = p

\* processAlive: the writer of p's record still runs.
ProcessAlive(p) == Live(store[p].by)

SameBoot(p) == born[store[p].by] = boot

Kept(p) == store[p] # NoRecord /\ SameBoot(p) /\ ProcessAlive(p)

\* The records to take over, and with the stale ones of earlier boots to drop.
Orphaned == {p \in Pids : store[p] # NoRecord /\ SameBoot(p) /\ ~ProcessAlive(p)}
Dropped  == {p \in Pids : store[p] # NoRecord /\ ~Kept(p)}

\* mergeSplitHome over the orphans with a split, in no particular order.
Merged(h) ==
  \A q \in Procs :
    LET names == {store[p].what.homes[q] : p \in {o \in Orphaned : store[o].what.split}} \ {"unknown"}
    IN  IF names = {} THEN h[q] = "unknown" ELSE h[q] \in names

Read(r) ==
  /\ At(r, "read")
  /\ taken' = [taken EXCEPT ![r] =
       [p \in Pids |-> IF p \in Dropped THEN store[p].by ELSE NoOne]]
  /\ \E h \in Homes :
       /\ Merged(h)
       /\ found' = [found EXCEPT ![r] =
            [kill  |-> \E p \in Orphaned : store[p].what.kill,
             split |-> \E p \in Orphaned : store[p].what.split,
             homes |-> h]]
  /\ Goto(r, "takeover")
  /\ UNCHANGED <<host, store, who, app, memory, clash, kernelFaults, storeFaults>>

\* The store cannot be read, and the run goes on without a recovery.
ReadFails(r) ==
  /\ At(r, "read")
  /\ StoreFault
  /\ Goto(r, "ready")
  /\ UNCHANGED <<host, store, who, memory, app, todo, clash, kernelFaults>>

\* Mutant: what is taken over is not written down.
Takeover_Nothing(r) == own[r]

\* The changes found join r's own record.  Their homes do not.
Takeover(r) ==
  [own[r] EXCEPT !.kill = @ \/ found[r].kill, !.split = @ \/ found[r].split]

TakeOver(r) ==
  /\ At(r, "takeover")
  /\ \/ IsEmpty(found[r]) /\ UNCHANGED <<own, written, store, storeFaults>>
     \/ ~IsEmpty(found[r]) /\ Note(r, Takeover(r))
  /\ Goto(r, "drop")
  /\ UNCHANGED <<host, who, app, known, todo, clash, kernelFaults>>

\* Mutant: the record put under our own pid goes with the one it replaced.
Replaced_Never(r, p) == FALSE

\* Ours has taken the place of the record under our own pid.
Replaced(r, p) == p = pid[r] /\ ~IsEmpty(found[r])

\* The record goes by its pid, whoever has written it since it was read.
Drop(r, p) ==
  /\ At(r, "drop")
  /\ taken[r][p] # NoOne
  /\ taken' = [taken EXCEPT ![r][p] = NoOne]
  /\ \/ Replaced(r, p) /\ UNCHANGED <<store, clash, storeFaults>>
     \/ /\ ~Replaced(r, p)
        /\ store' = [store EXCEPT ![p] = NoRecord]
        /\ clash' = (clash \/ store[p].by \notin {taken[r][p], r, NoOne})
        /\ UNCHANGED storeFaults
     \/ ~Replaced(r, p) /\ StoreFault /\ UNCHANGED <<store, clash>>
  /\ UNCHANGED <<host, who, app, memory, pc, found, kernelFaults>>

\* What comes after: the teardown of what was found, the kill switch first.
Onward(r, left) ==
  Goto(r, IF left.kill THEN "unkill" ELSE IF left.split THEN "recoversplit" ELSE "ready")

Dropping(r) ==
  /\ At(r, "drop")
  /\ taken[r] = NoneTaken
  /\ Onward(r, found[r])
  /\ UNCHANGED <<host, store, who, app, memory, todo, clash, kernelFaults, storeFaults>>

\* recoverSplit: the homes found are known before DisableSplit runs.
RecoverSplit(r) ==
  /\ At(r, "recoversplit")
  /\ known' = [known EXCEPT ![r] =
       [q \in Procs |-> IF found[r].homes[q] # "unknown" THEN found[r].homes[q] ELSE @[q]]]
  /\ found' = [found EXCEPT ![r].split = FALSE, ![r].homes = Unknown]
  /\ Goto(r, "unsplit")
  /\ UNCHANGED <<host, store, who, app, own, written, taken, clash, kernelFaults, storeFaults>>

-----------------------------------------------------------------------------
(* The kill switch. *)

\* Mutant: the journal is not told of the chain.
Announce_Never(r) == own[r]

\* What the journal is told before the batch.
Announce(r) == [own[r] EXCEPT !.kill = TRUE]

EnableKillSwitch(r) ==
  /\ At(r, "ready")
  /\ session[r] = "none"
  /\ session' = [session EXCEPT ![r] = "tun"]
  /\ Note(r, Announce(r))
  /\ Goto(r, "kill")
  /\ UNCHANGED <<host, who, on, known, todo, clash, kernelFaults>>

\* One batch puts the chain in the place of whatever chain was there.
ReplaceChain(r) ==
  /\ At(r, "kill")
  /\ \/ /\ chain' = r
        /\ on' = [on EXCEPT ![r] = TRUE]
        /\ Goto(r, "ready")
        /\ UNCHANGED kernelFaults
     \/ /\ KernelFault
        /\ Goto(r, "refused")
        /\ UNCHANGED <<chain, on>>
  /\ UNCHANGED <<cgroup, at, boot, store, who, session, memory, todo, clash, storeFaults>>

NoteRefused(r) ==
  /\ At(r, "refused")
  /\ Note(r, [own[r] EXCEPT !.kill = FALSE])
  /\ Goto(r, "ready")
  /\ UNCHANGED <<host, who, app, known, todo, clash, kernelFaults>>

\* releaseSession, and again at exit: a switch that would not come out is still
\* marked on.
Release(r) ==
  /\ At(r, "ready")
  /\ session[r] = "tun" \/ on[r]
  /\ session' = [session EXCEPT ![r] = "none"]
  /\ Goto(r, IF on[r] THEN "unkill" ELSE "ready")
  /\ UNCHANGED <<host, store, who, on, memory, todo, clash, kernelFaults, storeFaults>>

\* nftRemove, whoever's chain it is; one that stays is an error and stays
\* recorded.
RemoveChain(r) ==
  /\ At(r, "unkill")
  /\ found' = [found EXCEPT ![r].kill = FALSE]
  /\ \/ chain' = NoOne /\ Goto(r, "unkilled") /\ UNCHANGED kernelFaults
     \/ KernelFault /\ Onward(r, found'[r]) /\ UNCHANGED chain
  /\ UNCHANGED <<cgroup, at, boot, store, who, app, memory, taken, clash, storeFaults>>

NoteUnkilled(r) ==
  /\ At(r, "unkilled")
  /\ Note(r, [own[r] EXCEPT !.kill = FALSE])
  /\ on' = [on EXCEPT ![r] = FALSE]
  /\ Onward(r, found[r])
  /\ UNCHANGED <<host, who, session, known, todo, clash, kernelFaults>>

-----------------------------------------------------------------------------
(* The split. *)

EnableSplit(r) ==
  /\ At(r, "ready")
  /\ session[r] # "tun"
  /\ session' = [session EXCEPT ![r] = "split"]
  /\ Note(r, [own[r] EXCEPT !.split = TRUE])
  /\ Goto(r, "mkdir")
  /\ UNCHANGED <<host, who, on, known, todo, clash, kernelFaults>>

\* The cgroup and the ruleset; one that fails takes the other back.
MakeSplit(r) ==
  /\ At(r, "mkdir")
  /\ \/ cgroup' = TRUE /\ Goto(r, "move") /\ UNCHANGED kernelFaults
     \/ KernelFault /\ cgroup' = TRUE /\ Goto(r, "unsplit")
     \/ KernelFault /\ UNCHANGED cgroup /\ Goto(r, "ready")
  /\ UNCHANGED <<chain, at, boot, store, who, app, memory, todo, clash, storeFaults>>

RefreshSplit(r) ==
  /\ At(r, "ready")
  /\ session[r] = "split"
  /\ cgroup
  /\ Goto(r, "move")
  /\ UNCHANGED <<host, store, who, app, memory, todo, clash, kernelFaults, storeFaults>>

\* A process from outside joins, and where it lived is remembered.
Move(r, q) ==
  /\ At(r, "move") \/ At(r, "moved")
  /\ cgroup
  /\ at[q] # "split"
  /\ at' = [at EXCEPT ![q] = "split"]
  /\ known' = [known EXCEPT ![r][q] = at[q]]
  /\ Goto(r, "moved")
  /\ UNCHANGED <<chain, cgroup, boot, store, who, app, own, written, todo, clash, kernelFaults, storeFaults>>

NothingMoved(r) ==
  /\ At(r, "move")
  /\ Goto(r, "ready")
  /\ UNCHANGED <<host, store, who, app, memory, todo, clash, kernelFaults, storeFaults>>

NoteHomes(r) ==
  /\ At(r, "moved")
  /\ Note(r, [own[r] EXCEPT !.homes = known[r]])
  /\ Goto(r, "ready")
  /\ UNCHANGED <<host, who, app, known, todo, clash, kernelFaults>>

\* Every teardown path calls it, and an empty list of programs does.
DisableSplit(r) ==
  /\ At(r, "ready")
  /\ session[r] # "tun"
  /\ session' = [session EXCEPT ![r] = "none"]
  /\ Goto(r, "unsplit")
  /\ UNCHANGED <<host, store, who, on, memory, todo, clash, kernelFaults, storeFaults>>

\* Mutant: a home nobody knows is gone to as if it were a path.
Restored_Unchecked(r, q) == known[r][q]

\* restoreDest: home, or the root cgroup when nobody knows.
Restored(r, q) == IF known[r][q] = "unknown" THEN "root" ELSE known[r][q]

RestorePid(r, q) ==
  /\ At(r, "unsplit")
  /\ cgroup
  /\ at[q] = "split"
  /\ at' = [at EXCEPT ![q] = Restored(r, q)]
  /\ UNCHANGED <<chain, cgroup, boot, store, who, app, memory, pc, todo, clash, kernelFaults, storeFaults>>

\* The cgroup goes once it is empty; a process that would not move keeps it.
RemoveCgroup(r) ==
  /\ At(r, "unsplit")
  /\ known' = IF cgroup THEN [known EXCEPT ![r] = Unknown] ELSE known
  /\ \/ /\ \A q \in Procs : at[q] # "split"
        /\ cgroup' = FALSE
        /\ Goto(r, "unsplitted")
        /\ UNCHANGED kernelFaults
     \/ /\ cgroup
        /\ KernelFault
        /\ Goto(r, "ready")
        /\ UNCHANGED cgroup
  /\ UNCHANGED <<chain, at, boot, store, who, app, own, written, todo, clash, storeFaults>>

\* What the record holds once the split is down.
Unsplit(r) == [own[r] EXCEPT !.split = FALSE, !.homes = Unknown]

NoteUnsplit(r) ==
  /\ At(r, "unsplitted")
  /\ Note(r, Unsplit(r))
  /\ Goto(r, "ready")
  /\ UNCHANGED <<host, who, app, known, todo, clash, kernelFaults>>

-----------------------------------------------------------------------------
\* What of a run is gone with it.
Forget(gone) ==
  /\ life' = [r \in Runs |-> IF r \in gone THEN "dead" ELSE life[r]]
  /\ pc' = [r \in Runs |-> IF r \in gone THEN "dead" ELSE pc[r]]
  /\ own' = [r \in Runs |-> IF r \in gone THEN Nothing ELSE own[r]]
  /\ written' = [r \in Runs |-> IF r \in gone THEN FALSE ELSE written[r]]
  /\ known' = [r \in Runs |-> IF r \in gone THEN Unknown ELSE known[r]]
  /\ session' = [r \in Runs |-> IF r \in gone THEN "none" ELSE session[r]]
  /\ on' = [r \in Runs |-> IF r \in gone THEN FALSE ELSE on[r]]
  /\ found' = [r \in Runs |-> IF r \in gone THEN Nothing ELSE found[r]]
  /\ taken' = [r \in Runs |-> IF r \in gone THEN NoneTaken ELSE taken[r]]

\* A run ends: killed in the middle of something, or by itself.
Die(r) ==
  /\ Live(r)
  /\ Forget({r})
  /\ UNCHANGED <<host, store, pid, born, before, clash, kernelFaults, storeFaults>>

\* A reboot takes the changes, and the records too when they are in /run.
Reboot ==
  /\ boot < MaxBoots
  /\ boot' = boot + 1
  /\ Forget({r \in Runs : Live(r)})
  /\ chain' = NoOne
  /\ cgroup' = FALSE
  /\ at' = [q \in Procs |-> "home"]
  /\ store' \in {store, [p \in Pids |-> NoRecord]}
  /\ UNCHANGED <<pid, born, before, clash, kernelFaults, storeFaults>>

RecoverNext(r) ==
  \/ \E p \in Pids : Start(r, p) \/ Drop(r, p)
  \/ Read(r) \/ ReadFails(r) \/ TakeOver(r) \/ Dropping(r) \/ RecoverSplit(r)

KillSwitchNext(r) ==
  \/ EnableKillSwitch(r) \/ ReplaceChain(r)
  \/ NoteRefused(r) \/ Release(r) \/ RemoveChain(r) \/ NoteUnkilled(r)

SplitNext(r) ==
  \/ EnableSplit(r) \/ MakeSplit(r) \/ RefreshSplit(r) \/ NothingMoved(r) \/ NoteHomes(r)
  \/ DisableSplit(r) \/ RemoveCgroup(r) \/ NoteUnsplit(r)
  \/ \E q \in Procs : Move(r, q) \/ RestorePid(r, q)

Next ==
  \/ \E r \in Runs : RecoverNext(r) \/ KillSwitchNext(r) \/ SplitNext(r) \/ Die(r)
  \/ Reboot

Spec == Init /\ [][Next]_vars

-----------------------------------------------------------------------------
\* The values the variables take.
TypeOK ==
  /\ chain \in Runs \cup {NoOne}
  /\ cgroup \in BOOLEAN
  /\ at \in [Procs -> Places \cup {"split"}]
  /\ store \in [Pids -> Records \cup {NoRecord}]
  /\ boot \in Nat
  /\ life \in [Runs -> {"new", "live", "dead"}]
  /\ pid \in [Runs -> Pids \cup {NoOne}]
  /\ born \in [Runs -> Nat]
  /\ own \in [Runs -> Changes]
  /\ written \in [Runs -> BOOLEAN]
  /\ known \in [Runs -> Homes]
  /\ session \in [Runs -> {"none", "tun", "split"}]
  /\ on \in [Runs -> BOOLEAN]
  /\ pc \in [Runs -> {"new", "read", "takeover", "drop", "recoversplit", "ready", "kill",
                      "refused", "unkill", "unkilled", "mkdir", "move", "moved", "unsplit", "unsplitted",
                      "dead"}]
  /\ found \in [Runs -> Changes]
  /\ taken \in [Runs -> [Pids -> Runs \cup {NoOne}]]
  /\ before \in [Runs -> SUBSET Runs]
  /\ clash \in BOOLEAN
  /\ kernelFaults \in Nat /\ storeFaults \in Nat

\* p's record is one the next run would act on.
Standing(p) == store[p] # NoRecord /\ SameBoot(p)

\* The store takes every write, and no pid has come round in the middle of a
\* recovery of its record.
Kind == storeFaults = 0 /\ ~clash

\* A kill switch on the host is named by a record, whatever dies and whoever
\* takes over.  Two refusals of the kernel may undo it: of a chain to come out,
\* then of another to take its place.
KillSwitchRemembered ==
  Kind /\ kernelFaults < 2 /\ chain # NoOne =>
    \E p \in Pids : Standing(p) /\ store[p].what.kill

\* So is the split's cgroup, whatever the kernel refuses.
SplitRemembered ==
  Kind /\ cgroup => \E p \in Pids : Standing(p) /\ store[p].what.split

\* A run at rest has its own record in the store, and none when it has nothing to
\* take back.
RecordIsTrue ==
  Kind =>
    \A r \in Runs : At(r, "ready") =>
      store[pid[r]] = IF IsEmpty(own[r]) THEN NoRecord ELSE [by |-> r, what |-> own[r]]

\* A run past its recovery has left no record of a run that was gone before it.
DeadRecordsGo ==
  Kind =>
    \A r \in Runs : Live(r) /\ pc[r] \notin {"read", "takeover", "drop"} =>
      \A p \in Pids : store[p].by \notin before[r]

\* Where a process in the split came from, once written down, stays written down
\* until it is back.  (The code does not keep to it: see the README.)
HomesStayNamed ==
  [][storeFaults' = 0 /\ boot' = boot =>
       \A q \in Procs : at[q] = "split" /\ at'[q] = "split" =>
         \A p \in Pids : Standing(p) /\ store[p].what.homes[q] # "unknown" =>
           \E o \in Pids : store'[o] # NoRecord /\ store'[o].what.homes[q] # "unknown"]_vars

=============================================================================
