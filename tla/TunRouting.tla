----------------------------- MODULE TunRouting -----------------------------
(***************************************************************************)
(* The host's routing for the tunnel (internal/system, Linux): the entries *)
(* EnableTunRouting adds, DisableTunRouting removes, and the journal names *)
(* for the run that comes after a crash, on a host other programs route    *)
(* on as well.                                                             *)
(*                                                                         *)
(* Entries are numbered in the order they are added, so a teardown, newest *)
(* first, takes the highest number left.  Each query and each change of    *)
(* the kernel's tables is a step, and other programs move in between.      *)
(***************************************************************************)
EXTENDS Naturals

CONSTANTS
  LastEntry,  \* how many entries a session adds
  Rules,      \* those that are rules: nothing else can hold their place
  V6,         \* IPv6 routes: their delete ignores the route's type
  ViaTun,     \* routes through the tun device, which go when it goes
  MaxMoves,   \* bounds: moves of other programs,
  MaxFaults,  \* calls of the kernel that fail for no reason,
  MaxCrashes  \* and runs that end

Entries == 1..LastEntry

ASSUME TunRoutingAssumption ==
  /\ LastEntry \in Nat \ {0}
  /\ Rules \subseteq Entries /\ V6 \subseteq Entries /\ ViaTun \subseteq Entries
  /\ MaxMoves \in Nat /\ MaxFaults \in Nat /\ MaxCrashes \in Nat

VARIABLES
  \* the host
  tun,        \* the core's device is there
  ours,       \* entries this program put there
  twin,       \* entries spelled like ours that another program put there
  other,      \* how another program's route holds an entry's prefix
  \* the process
  installed,  \* what it owns
  record,     \* what the journal names
  pc,         \* where it is
  at,         \* the entry it adds
  why,        \* what the teardown under way is for
  seen,       \* the entries its listing showed
  left,       \* those the teardown has yet to visit
  kept,       \* and those it failed to remove
  result,     \* what the last call returned
  \* ghosts and bounds
  held,       \* entries that listing showed in another program's hands
  put,        \* entries an add of ours has put there, or was killed adding
  moves, faults, crashes

host   == <<tun, ours, twin, other>>
walk   == <<seen, left, kept>>
owned  == <<installed, record>>
bounds == <<moves, faults, crashes>>
ghosts == <<held, put>>
vars   == <<host, owned, pc, at, why, walk, result, ghosts, bounds>>

Init ==
  /\ tun = FALSE
  /\ ours = {}
  /\ twin = {}
  /\ other = [e \in Entries |-> "none"]
  /\ installed = {}
  /\ record = {}
  /\ pc = "idle"
  /\ at = 1
  /\ why = "none"
  /\ seen = {}
  /\ left = {}
  /\ kept = {}
  /\ result = "none"
  /\ held = {}
  /\ put = {}
  /\ moves = 0
  /\ faults = 0
  /\ crashes = 0

-----------------------------------------------------------------------------
(* The kernel. *)

\* add of e goes through: nothing is in its place, and its device is there.
Addable(e) ==
  /\ e \notin ours \cup twin
  /\ other[e] # "inplace"
  /\ e \in ViaTun => tun

Fault ==
  /\ faults < MaxFaults
  /\ faults' = faults + 1

NoFault == UNCHANGED faults

-----------------------------------------------------------------------------
(* How a call goes on. *)

Return(r) ==
  /\ pc' = "idle"
  /\ result' = r
  /\ why' = "none"

\* A teardown that ended, with everything gone or not, goes back to its caller.
EndTeardown(gone) ==
  \/ why = "call" /\ Return(IF gone THEN "down" ELSE "notdown")
  \/ why = "recover" /\ Return(IF gone THEN "down" ELSE "notdown")
  \/ why = "undo" /\ Return(IF gone THEN "refused" ELSE "notdown")
  \/ why = "before" /\ ~gone /\ Return("notdown")
  \/ why = "before" /\ gone /\ pc' = "resolve" /\ why' = "none" /\ UNCHANGED result

\* DisableTunRouting for w, which owning nothing makes a success, for r.
BeginTeardown(w, r) ==
  \/ installed = {} /\ Return(r)
  \/ installed # {} /\ pc' = "list" /\ why' = w /\ UNCHANGED result

-----------------------------------------------------------------------------
(* EnableTunRouting. *)

\* What an earlier teardown failed to remove is removed first.
Enable ==
  /\ pc = "idle"
  /\ \/ installed = {} /\ pc' = "resolve" /\ UNCHANGED <<why, result>>
     \/ installed # {} /\ BeginTeardown("before", "down")
  /\ UNCHANGED <<host, owned, at, walk, ghosts, bounds>>

\* Refused before the first change: no route to a server, a query that failed,
\* a device that is not the core's, or an entry in place already.
Refuse ==
  /\ pc = "resolve"
  /\ Return("refused")
  /\ UNCHANGED <<host, owned, at, walk, ghosts, bounds>>

\* checkTunRoutingFree: nothing holds any of the prefixes.
RoutingFree ==
  /\ tun
  /\ \A e \in Entries : e \notin ours \cup twin /\ other[e] = "none"

Preflight ==
  /\ pc = "resolve"
  /\ RoutingFree
  /\ pc' = "note"
  /\ at' = 1
  /\ UNCHANGED <<host, owned, why, walk, result, ghosts, bounds>>

\* Mutant: the journal hears of an entry only once it is owned.
Announced_Late == installed

\* What the journal is told before the add of at.
Announced == installed \cup {at}

Note ==
  /\ pc = "note"
  /\ record' = Announced
  /\ pc' = "add"
  /\ UNCHANGED <<host, installed, at, why, walk, result, ghosts, bounds>>

\* Mutant: the loop runs one entry too far.
Done_Over(e) == e > LastEntry

\* e was the last entry to add.
Done(e) == e = LastEntry

Add ==
  /\ pc = "add"
  /\ Addable(at)
  /\ ours' = ours \cup {at}
  /\ put' = put \cup {at}
  /\ installed' = installed \cup {at}
  /\ \/ ~Done(at) /\ at' = at + 1 /\ pc' = "note"
     \/ Done(at) /\ pc' = "reread" /\ UNCHANGED at
  /\ UNCHANGED <<tun, twin, other, record, why, walk, result, held, bounds>>

\* An add that fails takes back what this call added.
AddFails ==
  /\ pc = "add"
  /\ IF Addable(at) THEN Fault ELSE NoFault
  /\ BeginTeardown("undo", "refused")
  /\ UNCHANGED <<host, owned, at, walk, ghosts, moves, crashes>>

\* ownsPrefix: an entry of ours is there and no other route beside it.
OwnsPrefix(e) == e \in ours \cup twin /\ other[e] = "none"

\* checkTunRoutingOwned: every route ended up owning its prefix.
Reread ==
  /\ pc = "reread"
  /\ \A e \in installed \ Rules : OwnsPrefix(e)
  /\ Return("up")
  /\ UNCHANGED <<host, owned, at, walk, ghosts, bounds>>

\* Another program holds one of the prefixes, or the listing failed.
RereadFails ==
  /\ pc = "reread"
  /\ IF \A e \in installed \ Rules : OwnsPrefix(e) THEN Fault ELSE NoFault
  /\ BeginTeardown("undo", "refused")
  /\ UNCHANGED <<host, owned, at, walk, ghosts, moves, crashes>>

-----------------------------------------------------------------------------
(* DisableTunRouting. *)

Disable ==
  /\ pc = "idle"
  /\ BeginTeardown("call", "down")
  /\ UNCHANGED <<host, owned, at, walk, ghosts, bounds>>

\* Mutant of Shown: any route that holds the prefix passes for ours.
Shown_AnyHolder == {e \in Entries : e \in ours \cup twin \/ other[e] = "inplace"}

\* find: the entries the tables hold as they were added.
Shown == ours \cup twin

List ==
  /\ pc = "list"
  /\ seen' = Shown
  /\ left' = installed
  /\ kept' = {}
  /\ held' = {e \in Entries : other[e] = "inplace"}
  /\ pc' = "delete"
  /\ UNCHANGED <<host, owned, at, why, result, put, bounds>>

ListFails ==
  /\ pc = "list"
  /\ Fault
  /\ EndTeardown(FALSE)
  /\ UNCHANGED <<host, owned, at, walk, ghosts, moves, crashes>>

\* Mutant: oldest first.
Next2Go_Oldest(e) == e \in left /\ \A d \in left : e <= d

\* The newest entry the teardown has not visited.
Next2Go(e) == e \in left /\ \A d \in left : d <= e

\* The listing did not show e: it is gone, or replaced, and no longer owned.
Skip(e) ==
  /\ pc = "delete"
  /\ Next2Go(e)
  /\ e \notin seen
  /\ left' = left \ {e}
  /\ UNCHANGED <<host, owned, pc, at, why, seen, kept, result, ghosts, bounds>>

\* del removes the entry, whoever's it is by now; in IPv6 also a route of
\* another type that has taken its place since the listing.
Delete(e) ==
  /\ pc = "delete"
  /\ Next2Go(e)
  /\ e \in seen
  /\ \/ /\ e \in ours \cup twin
        /\ UNCHANGED other
     \/ /\ e \notin ours \cup twin
        /\ e \in V6
        /\ other[e] = "inplace"
        /\ other' = [other EXCEPT ![e] = "none"]
  /\ ours' = ours \ {e}
  /\ twin' = twin \ {e}
  /\ left' = left \ {e}
  /\ UNCHANGED <<tun, owned, pc, at, why, seen, kept, result, ghosts, bounds>>

\* Mutant of Keep: an entry whose delete failed is forgotten.
Keep_None(e) == kept' = kept

\* An entry whose delete failed stays owned.
Keep(e) == kept' = kept \cup {e}

DeleteFails(e) ==
  /\ pc = "delete"
  /\ Next2Go(e)
  /\ e \in seen
  /\ IF e \in ours \cup twin THEN Fault ELSE NoFault
  /\ Keep(e)
  /\ left' = left \ {e}
  /\ UNCHANGED <<host, owned, pc, at, why, seen, result, ghosts, moves, crashes>>

\* Every entry was visited: what is left is owned and recorded.
Settle ==
  /\ pc = "delete"
  /\ left = {}
  /\ installed' = kept
  /\ record' = kept
  /\ EndTeardown(kept = {})
  /\ UNCHANGED <<host, at, walk, ghosts, bounds>>

-----------------------------------------------------------------------------
(* The run ends, in whatever it was doing; the next one recovers. *)

Crash ==
  /\ pc # "dead"
  /\ crashes < MaxCrashes
  /\ crashes' = crashes + 1
  /\ pc' = "dead"
  /\ installed' = {}
  /\ why' = "none"
  /\ result' = "none"
  /\ put' = put \cup (IF pc = "add" THEN {at} ELSE {})
  /\ UNCHANGED <<host, record, at, walk, held, moves, faults>>

\* RecoverJournal: what the record names is this run's to remove.  How records
\* change hands is Journal's concern.
Recover ==
  /\ pc = "dead"
  /\ installed' = record
  /\ \/ record = {} /\ pc' = "idle" /\ UNCHANGED why
     \/ record # {} /\ pc' = "list" /\ why' = "recover"
  /\ UNCHANGED <<host, record, at, walk, result, ghosts, bounds>>

-----------------------------------------------------------------------------
(* The core's device, and the other programs. *)

TunComes ==
  /\ ~tun
  /\ tun' = TRUE
  /\ UNCHANGED <<ours, twin, other, owned, pc, at, why, walk, result, ghosts, bounds>>

TunGoes ==
  /\ tun
  /\ tun' = FALSE
  /\ ours' = ours \ ViaTun
  /\ twin' = twin \ ViaTun
  /\ UNCHANGED <<other, owned, pc, at, why, walk, result, ghosts, bounds>>

Move ==
  /\ moves < MaxMoves
  /\ moves' = moves + 1
  /\ UNCHANGED <<tun, owned, pc, at, why, walk, result, ghosts, faults, crashes>>

\* Another program adds an entry like ours where there is none.
OthersTwin(e) ==
  /\ Move
  /\ Addable(e)
  /\ twin' = twin \cup {e}
  /\ UNCHANGED <<ours, other>>

\* It adds a route to the prefix, with a metric of its own or with ours.
OthersAdd(e) ==
  /\ Move
  /\ e \notin Rules
  /\ other[e] = "none"
  /\ \E how \in {"beside", "inplace"} :
       /\ how = "inplace" => Addable(e)
       /\ other' = [other EXCEPT ![e] = how]
  /\ UNCHANGED <<ours, twin>>

\* It replaces an entry of ours.
OthersReplace(e) ==
  /\ Move
  /\ e \in ours \ Rules
  /\ other[e] = "none"
  /\ ours' = ours \ {e}
  /\ other' = [other EXCEPT ![e] = "inplace"]
  /\ UNCHANGED twin

\* It removes its own, or ours.
OthersRemove(e) ==
  /\ Move
  /\ \/ other[e] # "none" /\ other' = [other EXCEPT ![e] = "none"] /\ UNCHANGED <<ours, twin>>
     \/ e \in ours \cup twin /\ ours' = ours \ {e} /\ twin' = twin \ {e} /\ UNCHANGED other

-----------------------------------------------------------------------------
EnableNext == Enable \/ Refuse \/ Preflight \/ Note \/ Add \/ AddFails \/ Reread \/ RereadFails

DisableNext ==
  \/ Disable \/ List \/ ListFails \/ Settle
  \/ \E e \in Entries : Skip(e) \/ Delete(e) \/ DeleteFails(e)

OthersNext ==
  \E e \in Entries : OthersTwin(e) \/ OthersAdd(e) \/ OthersReplace(e) \/ OthersRemove(e)

Next ==
  \/ EnableNext \/ DisableNext
  \/ Crash \/ Recover
  \/ TunComes \/ TunGoes \/ OthersNext

Spec == Init /\ [][Next]_vars

-----------------------------------------------------------------------------
\* The values the variables take.
TypeOK ==
  /\ tun \in BOOLEAN
  /\ ours \subseteq Entries
  /\ twin \subseteq Entries
  /\ other \in [Entries -> {"none", "beside", "inplace"}]
  /\ installed \subseteq Entries
  /\ record \subseteq Entries
  /\ pc \in {"idle", "resolve", "note", "add", "reread", "list", "delete", "dead"}
  /\ at \in Entries
  /\ why \in {"none", "call", "before", "undo", "recover"}
  /\ seen \subseteq Entries
  /\ left \subseteq Entries
  /\ kept \subseteq Entries
  /\ result \in {"none", "up", "refused", "down", "notdown"}
  /\ held \subseteq Entries
  /\ put \subseteq Entries
  /\ moves \in Nat /\ faults \in Nat /\ crashes \in Nat

\* Whenever the run ends, the journal names all of ours that is on the host.
Remembered == ours \subseteq record

\* A live run owns all of ours that is on the host: a later teardown takes it.
Owned == pc # "dead" => ours \subseteq installed

\* A call that says it left nothing of ours left nothing.
CleanIsClean == pc = "idle" /\ result \in {"refused", "down"} => ours = {}

\* The way to the server and the way out of marked traffic are there as long as
\* anything that captures traffic is: adds and removals keep the order, also
\* over a crash, unless another program or a failed delete breaks it.
ExceptionsFirst ==
  moves = 0 /\ faults = 0 =>
    \A e \in ours : \A d \in Entries \ ViaTun : d < e => d \in ours

\* A teardown never takes a route its listing had shown in another program's
\* hands.
OthersKept ==
  [][moves' = moves => \A e \in held : other[e] # "none" => other'[e] # "none"]_vars

\* No teardown removes what this program never added, even spelled alike.  (The
\* code does not keep to it: see the README.)
TakesBackOwn ==
  [][moves' = moves /\ tun' = tun => twin \ twin' \subseteq put]_vars

=============================================================================
