----------------------------- MODULE JournalProof -----------------------------
(***************************************************************************)
(* Whatever dies and whoever takes over, what is on the host is in a       *)
(* record the next run acts on: proofs about Journal, for any number of    *)
(* runs, pids, processes and boots.                                        *)
(***************************************************************************)
EXTENDS Journal, TLAPS

Recovering == {"read", "takeover", "drop"}

\* A run's pid is its own while it lives, and who was gone before it stays so.
LifeInv == \A r \in Runs :
  /\ life[r] = "new" <=> pc[r] = "new"
  /\ life[r] = "dead" <=> pc[r] = "dead"
  /\ life[r] # "new" => pid[r] \in Pids
  /\ Live(r) => born[r] = boot
  /\ \A s \in Runs : Live(r) /\ Live(s) /\ pid[r] = pid[s] => r = s
  /\ \A s \in before[r] : life[s] = "dead"
  /\ life[r] = "new" => own[r] = Nothing /\ ~written[r] /\ session[r] = "none" /\ ~on[r]

\* A record is under its writer's pid.
StoreInv == \A p \in Pids : store[p] # NoRecord =>
  pid[store[p].by] = p /\ life[store[p].by] # "new"

\* The record a live run has put is what it has in mind.
Owns(r) ==
  /\ written[r] = ~IsEmpty(own[r])
  /\ written[r] => store[pid[r]] = [by |-> r, what |-> own[r]]
  /\ ~written[r] => store[pid[r]].by # r
OwnInv == \A r \in Runs : Live(r) => Owns(r)

\* What a recovery has read is in its list until it is dropped, and in its own
\* record before that.
Listed(r, p) ==
  /\ taken[r][p] # NoOne => life[taken[r][p]] = "dead"
  /\ store[p].by \in before[r] => taken[r][p] = store[p].by
  /\ store[p] # NoRecord /\ taken[r][p] = store[p].by /\ SameBoot(p) =>
       (store[p].what.kill => found[r].kill) /\ (store[p].what.split => found[r].split)
  /\ p = pid[r] => store[p].by = r \/ store[p] = NoRecord \/ taken[r][p] = store[p].by
Recovered(r) ==
  /\ store[pid[r]] # NoRecord => store[pid[r]].by = r
  /\ \A p \in Pids : store[p].by \notin before[r]
Recovers(r) ==
  /\ pc[r] \in {"read", "takeover"} => own[r] = Nothing
  /\ pc[r] \in {"takeover", "drop"} => \A p \in Pids : Listed(r, p)
  /\ pc[r] = "drop" => own[r].kill = found[r].kill /\ own[r].split = found[r].split
  /\ pc[r] \notin Recovering => Recovered(r)
RecoveryInv == \A r \in Runs : Live(r) => Recovers(r)

\* Where a run may be with a kill switch, or a split, in its record.
Place(r) ==
  /\ pc[r] \in {"kill", "refused"} => own[r].kill /\ session[r] = "tun"
  /\ pc[r] = "refused" => kernelFaults # 0
  /\ pc[r] = "mkdir" => own[r].split
  /\ own[r].kill /\ kernelFaults = 0 =>
       \/ pc[r] = "drop" /\ found[r].kill
       \/ pc[r] \in {"kill", "unkill", "unkilled"}
       \/ pc[r] = "ready" /\ session[r] = "tun" /\ on[r]
PlaceInv == \A r \in Runs : Live(r) => Place(r)

\* r is not about to write that it has no kill switch.
Keeps(r) == pc[r] \notin {"unkilled", "refused"} /\ (pc[r] = "kill" => kernelFaults # 0)
KeepsSplit(r) == pc[r] # "unsplitted"

\* A record that will not lose its kill switch, or its split, while somebody's
\* chain, or the cgroup, is there.
Bears(p) ==
  /\ Standing(p) /\ store[p].what.kill
  /\ Live(store[p].by) => Keeps(store[p].by)
BearsSplit(p) ==
  /\ Standing(p) /\ store[p].what.split
  /\ Live(store[p].by) => KeepsSplit(store[p].by)

KillInv == kernelFaults < 2 /\ chain # NoOne => \E p \in Pids : Bears(p)
SplitInv == cgroup => \E p \in Pids : BearsSplit(p)

KindInv == OwnInv /\ RecoveryInv /\ PlaceInv /\ KillInv /\ SplitInv
JInv == TypeOK /\ LifeInv /\ StoreInv /\ (Kind => KindInv)

-----------------------------------------------------------------------------
LEMMA JournalInit == Init => JInv
  <1> SUFFICES ASSUME Init PROVE JInv
    OBVIOUS
  <1>1. NoOne \notin Runs /\ NoOne \notin Pids
    BY JournalAssumption
  <1>2. TypeOK
    BY DEF Init, TypeOK, Changes, Homes, Places, Nothing, Unknown, NoneTaken, Records
  <1>3. LifeInv /\ StoreInv
    BY DEF Init, LifeInv, StoreInv, Live
  <1>4. KindInv
    BY <1>1 DEF Init, KindInv, OwnInv, Owns, RecoveryInv, Recovers, PlaceInv, KillInv, SplitInv, Live
  <1> QED
    BY <1>2, <1>3, <1>4 DEF JInv

-----------------------------------------------------------------------------
(* A step of a run past its recovery. *)

\* The record of what r has in mind.
Record(r, c) == IF IsEmpty(c) THEN NoRecord ELSE [by |-> r, what |-> c]

\* r's own step: what it has in mind and its record change together.
Steps(r) ==
  /\ Live(r) /\ pc[r] \notin Recovering
  /\ pc' = [pc EXCEPT ![r] = pc'[r]] /\ pc'[r] \notin Recovering \cup {"new", "dead"}
  /\ own' = [own EXCEPT ![r] = own'[r]]
  /\ written' = [written EXCEPT ![r] = ~IsEmpty(own'[r])]
  /\ store' = [store EXCEPT ![pid[r]] = Record(r, own'[r])]
  /\ session' = [session EXCEPT ![r] = session'[r]]
  /\ on' = [on EXCEPT ![r] = on'[r]]
  /\ found' = [found EXCEPT ![r] = found'[r]]
  /\ UNCHANGED <<who, boot, taken>>

LEMMA NoteSteps ==
  ASSUME JInv, Kind, storeFaults' = 0, NEW r \in Runs, Live(r), pc[r] \notin Recovering,
         NEW c \in Changes, Note(r, c)
  PROVE  /\ own'[r] = c
         /\ written' = [written EXCEPT ![r] = ~IsEmpty(own'[r])]
         /\ store' = [store EXCEPT ![pid[r]] = Record(r, own'[r])]
  <1>1. /\ pid[r] \in Pids /\ written[r] = ~IsEmpty(own[r])
        /\ ~written[r] => store[pid[r]] = NoRecord
    BY DEF JInv, LifeInv, KindInv, OwnInv, Owns, RecoveryInv, Recovers, Recovered, Live
  <1>2. store \in [Pids -> Records \cup {NoRecord}] /\ written \in [Runs -> BOOLEAN]
    BY DEF JInv, TypeOK
  <1>3. ~StoreFault
    BY DEF Kind, StoreFault
  <1>4. own'[r] = c
    BY DEF Note, JInv, TypeOK
  <1> QED
    BY <1>1, <1>2, <1>3, <1>4 DEF Note, Record

LEMMA NoNoteSteps ==
  ASSUME JInv, Kind, NEW r \in Runs, Live(r), pc[r] \notin Recovering, UNCHANGED <<own, written, store>>
  PROVE  /\ own'[r] = own[r]
         /\ written' = [written EXCEPT ![r] = ~IsEmpty(own'[r])]
         /\ store' = [store EXCEPT ![pid[r]] = Record(r, own'[r])]
  <1>1. /\ pid[r] \in Pids /\ written[r] = ~IsEmpty(own[r])
        /\ store[pid[r]] = Record(r, own[r])
    BY DEF JInv, LifeInv, KindInv, OwnInv, Owns, RecoveryInv, Recovers, Recovered, Live, Record
  <1>2. store \in [Pids -> Records \cup {NoRecord}] /\ written \in [Runs -> BOOLEAN]
    BY DEF JInv, TypeOK
  <1> QED
    BY <1>1, <1>2

LEMMA StepsKeep ==
  ASSUME JInv, Kind, TypeOK', NEW r \in Runs, Steps(r)
  PROVE  OwnInv' /\ RecoveryInv'
  <1>1. /\ pid[r] \in Pids /\ NoOne \notin Runs
        /\ \A s \in Runs : Live(s) /\ s # r => pid[s] # pid[r]
        /\ \A s \in Runs : r \notin before[s]
    BY JournalAssumption DEF JInv, LifeInv, Steps, Live
  <1>2. \A s \in Runs \ {r} : /\ pc'[s] = pc[s] /\ own'[s] = own[s] /\ written'[s] = written[s]
                              /\ session'[s] = session[s] /\ on'[s] = on[s] /\ found'[s] = found[s]
    BY DEF Steps, JInv, TypeOK
  <1>3. /\ \A p \in Pids \ {pid[r]} : store'[p] = store[p]
        /\ store'[pid[r]] = Record(r, own'[r])
    BY <1>1 DEF Steps, JInv, TypeOK
  <1>4. UNCHANGED <<life, pid, born, before, boot, taken>>
    BY DEF Steps, who
  <1>5. OwnInv'
    <2>1. SUFFICES ASSUME NEW s \in Runs, Live(s) PROVE Owns(s)'
      BY <1>4 DEF OwnInv, Live
    <2>2. CASE s = r
      <3>1. written'[r] = ~IsEmpty(own'[r])
        BY DEF Steps, JInv, TypeOK
      <3>2. store'[pid[r]] = IF IsEmpty(own'[r]) THEN NoRecord ELSE [by |-> r, what |-> own'[r]]
        BY <1>3 DEF Record
      <3>3. NoRecord.by # r
        BY <1>1 DEF NoRecord
      <3>4. CASE IsEmpty(own'[r])
        BY <1>4, <2>2, <3>1, <3>2, <3>3, <3>4 DEF Owns
      <3>5. CASE ~IsEmpty(own'[r])
        BY <1>4, <2>2, <3>1, <3>2, <3>5 DEF Owns
      <3> QED
        BY <3>4, <3>5
    <2>3. CASE s # r
      <3>1. Owns(s)
        BY <2>1 DEF JInv, KindInv, OwnInv
      <3>2. pid[s] \in Pids \ {pid[r]}
        BY <1>1, <2>1, <2>3 DEF JInv, LifeInv, Live
      <3>3. store'[pid[s]] = store[pid[s]] /\ own'[s] = own[s] /\ written'[s] = written[s] /\ pid'[s] = pid[s]
        BY <1>2, <1>3, <1>4, <2>3, <3>2
      <3> QED
        BY <3>1, <3>3 DEF Owns
    <2> QED
      BY <2>2, <2>3
  <1>6. RecoveryInv'
    <2>1. SUFFICES ASSUME NEW s \in Runs, Live(s) PROVE Recovers(s)'
      BY <1>4 DEF RecoveryInv, Live
    <2>2. store'[pid[r]].by \in {r, NoOne} /\ r # NoOne /\ NoOne \notin before[s]
      BY <1>1, <1>3 DEF Record, NoRecord, JInv, TypeOK
    <2>3. CASE s = r
      <3>1. Recovered(r)
        BY DEF Steps, JInv, KindInv, RecoveryInv, Recovers
      <3>2. Recovered(r)'
        BY <1>1, <1>3, <1>4, <2>2, <2>3, <3>1 DEF Recovered, Record
      <3> QED
        BY <2>3, <3>2 DEF Steps, Recovering, Recovers
    <2>4. CASE s # r
      <3>1. Recovers(s)
        BY <2>1 DEF JInv, KindInv, RecoveryInv
      <3>2. ASSUME NEW p \in Pids, Listed(s, p) PROVE Listed(s, p)'
        <4>1. CASE p = pid[r]
          <5>1. taken[s][p] # r
            BY <3>2, <1>1 DEF Listed, Steps, Live
          <5> QED
            BY <1>1, <1>3, <1>4, <2>1, <2>2, <2>4, <3>2, <4>1, <5>1 DEF Listed, Record
        <4>2. CASE p # pid[r]
          BY <1>2, <1>3, <1>4, <2>4, <3>2, <4>2 DEF Listed, SameBoot
        <4> QED
          BY <4>1, <4>2
      <3>3. ASSUME Recovered(s) PROVE Recovered(s)'
        <4>1. pid[s] \in Pids /\ pid[s] # pid[r]
          BY <1>1, <2>1, <2>4 DEF JInv, LifeInv, Live
        <4> QED
          BY <1>1, <1>3, <1>4, <2>2, <3>3, <4>1 DEF Recovered
      <3> QED
        BY <1>2, <2>4, <3>1, <3>2, <3>3 DEF Recovers
    <2> QED
      BY <2>3, <2>4
  <1> QED
    BY <1>5, <1>6

-----------------------------------------------------------------------------
(* Whatever fails: types, pids and the writers of the records. *)

\* A step of r alone, which writes no record but its own.
Moves(r) ==
  /\ Live(r)
  /\ pc' = [pc EXCEPT ![r] = pc'[r]] /\ pc'[r] \notin {"new", "dead"}
  /\ own' = [own EXCEPT ![r] = own'[r]]
  /\ written' = [written EXCEPT ![r] = written'[r]]
  /\ session' = [session EXCEPT ![r] = session'[r]]
  /\ on' = [on EXCEPT ![r] = on'[r]]
  /\ \A p \in Pids : store'[p] \in {store[p], NoRecord} \/ (p = pid[r] /\ store'[p].by = r)
  /\ UNCHANGED <<who, boot>>

LEMMA MovesKeep ==
  ASSUME TypeOK, LifeInv, StoreInv, NEW r \in Runs, Moves(r)
  PROVE  LifeInv' /\ StoreInv'
  <1>1. UNCHANGED <<life, pid, born, before, boot>>
    BY DEF Moves, who
  <1>2. LifeInv'
    <2>1. life[r] = "live" /\ pc[r] \notin {"new", "dead"} /\ pc'[r] \notin {"new", "dead"}
      BY DEF Moves, Live, LifeInv
    <2>2. \A s \in Runs : (pc'[s] = "new" <=> pc[s] = "new") /\ (pc'[s] = "dead" <=> pc[s] = "dead")
      <3>1. \A s \in Runs \ {r} : pc'[s] = pc[s]
        BY DEF Moves, TypeOK
      <3> QED
        BY <2>1, <3>1
    <2>3. \A s \in Runs : life[s] = "new" =>
            own'[s] = Nothing /\ ~written'[s] /\ session'[s] = "none" /\ ~on'[s]
      <3>1. \A s \in Runs \ {r} : /\ own'[s] = own[s] /\ written'[s] = written[s]
                                  /\ session'[s] = session[s] /\ on'[s] = on[s]
        BY DEF Moves, TypeOK
      <3> QED
        BY <2>1, <3>1 DEF LifeInv
    <2> QED
      BY <1>1, <2>2, <2>3 DEF LifeInv, Live
  <1>3. StoreInv'
    BY <1>1 DEF StoreInv, Moves, Live
  <1> QED
    BY <1>2, <1>3

LEMMA NoteTypes ==
  ASSUME TypeOK, NEW r \in Runs, NEW c \in Changes, pid[r] \in Pids, Note(r, c)
  PROVE  /\ own' \in [Runs -> Changes] /\ own' = [own EXCEPT ![r] = own'[r]]
         /\ written' \in [Runs -> BOOLEAN] /\ written' = [written EXCEPT ![r] = written'[r]]
         /\ store' \in [Pids -> Records \cup {NoRecord}] /\ storeFaults' \in Nat
         /\ \A p \in Pids : store'[p] \in {store[p], NoRecord} \/ (p = pid[r] /\ store'[p].by = r)
  <1>1. [by |-> r, what |-> c] \in Records
    BY DEF Records
  <1>2. own' \in [Runs -> Changes] /\ own' = [own EXCEPT ![r] = own'[r]]
    BY DEF Note, TypeOK
  <1>3. written' \in [Runs -> BOOLEAN] /\ written' = [written EXCEPT ![r] = written'[r]]
    BY DEF Note, TypeOK
  <1>4. storeFaults' \in Nat
    BY JournalAssumption DEF Note, TypeOK, StoreFault
  <1>5. store' \in [Pids -> Records \cup {NoRecord}]
    BY <1>1 DEF Note, TypeOK
  <1>6. \A p \in Pids : store'[p] \in {store[p], NoRecord} \/ (p = pid[r] /\ store'[p].by = r)
    BY <1>1 DEF Note, TypeOK
  <1> QED
    BY <1>2, <1>3, <1>4, <1>5, <1>6

\* A move whose note is c.
LEMMA NoteMoves ==
  ASSUME TypeOK, LifeInv, NEW r \in Runs, Live(r), NEW c \in Changes, Note(r, c),
         NEW there \in {"drop", "ready", "kill", "mkdir", "unkill", "recoversplit"},
         Goto(r, there),
         session' = [session EXCEPT ![r] = session'[r]], session'[r] \in {"none", "tun", "split"},
         on' = [on EXCEPT ![r] = on'[r]], on'[r] \in BOOLEAN,
         UNCHANGED <<host, who, known, todo, clash, kernelFaults>>
  PROVE  TypeOK' /\ Moves(r)
  <1>1. pid[r] \in Pids
    BY DEF LifeInv, Live
  <1>2. /\ own' \in [Runs -> Changes] /\ own' = [own EXCEPT ![r] = own'[r]]
        /\ written' \in [Runs -> BOOLEAN] /\ written' = [written EXCEPT ![r] = written'[r]]
        /\ store' \in [Pids -> Records \cup {NoRecord}] /\ storeFaults' \in Nat
        /\ \A p \in Pids : store'[p] \in {store[p], NoRecord} \/ (p = pid[r] /\ store'[p].by = r)
    BY <1>1, NoteTypes
  <1>3. pc' = [pc EXCEPT ![r] = there] /\ pc'[r] = there
    BY DEF Goto, TypeOK
  <1>4. session' \in [Runs -> {"none", "tun", "split"}] /\ on' \in [Runs -> BOOLEAN]
    BY DEF TypeOK
  <1>5. TypeOK'
    <2>1. pc' \in [Runs -> {"new", "read", "takeover", "drop", "recoversplit", "ready", "kill",
                      "refused", "unkill", "unkilled", "mkdir", "move", "moved", "unsplit", "unsplitted",
                      "dead"}]
      BY <1>3 DEF TypeOK
    <2>2. UNCHANGED <<chain, cgroup, at, boot, life, pid, born, before, known, found, taken, clash, kernelFaults>>
      BY DEF host, who, todo
    <2> QED
      BY <1>2, <1>4, <2>1, <2>2 DEF TypeOK
  <1>6. Moves(r)
    BY <1>2, <1>3 DEF Moves, host
  <1> QED
    BY <1>5, <1>6

LEMMA ChangesOf ==
  ASSUME TypeOK, NEW r \in Runs
  PROVE  /\ own[r] \in Changes /\ found[r] \in Changes /\ known[r] \in Homes /\ Unknown \in Homes
         /\ \A k \in BOOLEAN : [own[r] EXCEPT !.kill = k] \in Changes
         /\ [own[r] EXCEPT !.split = TRUE] \in Changes
         /\ [own[r] EXCEPT !.homes = known[r]] \in Changes
         /\ Takeover(r) \in Changes /\ Unsplit(r) \in Changes
  <1>1. own[r] \in Changes /\ found[r] \in Changes /\ known[r] \in Homes
    BY DEF TypeOK
  <1>2. Unknown \in Homes
    BY DEF Unknown, Homes
  <1>3. /\ \A k \in BOOLEAN : [own[r] EXCEPT !.kill = k] \in Changes
        /\ [own[r] EXCEPT !.split = TRUE] \in Changes
        /\ [own[r] EXCEPT !.homes = known[r]] \in Changes
    BY <1>1 DEF Changes
  <1>4. Takeover(r) \in Changes
    BY <1>1 DEF Takeover, Changes
  <1>5. Unsplit(r) \in Changes
    BY <1>1, <1>2 DEF Unsplit, Changes
  <1> QED
    BY <1>1, <1>2, <1>3, <1>4, <1>5

LEMMA RecoverMoves ==
  ASSUME TypeOK, LifeInv, NEW r \in Runs,
         \/ \E p \in Pids : Drop(r, p)
         \/ Read(r) \/ ReadFails(r) \/ TakeOver(r) \/ Dropping(r) \/ RecoverSplit(r)
  PROVE  TypeOK' /\ Moves(r)
  <1>1. ASSUME NEW p \in Pids, Drop(r, p) PROVE TypeOK' /\ Moves(r)
    <2>1. taken' \in [Runs -> [Pids -> Runs \cup {NoOne}]]
      BY <1>1 DEF Drop, TypeOK
    <2>2. store' \in [Pids -> Records \cup {NoRecord}] /\ storeFaults' \in Nat /\ clash' \in BOOLEAN
      <3>1. store' \in [Pids -> Records \cup {NoRecord}]
        BY <1>1 DEF Drop, TypeOK
      <3>2. storeFaults' \in Nat
        BY <1>1, JournalAssumption DEF Drop, TypeOK, StoreFault
      <3>3. clash' \in BOOLEAN
        BY <1>1 DEF Drop, TypeOK
      <3> QED
        BY <3>1, <3>2, <3>3
    <2>3. \A o \in Pids : store'[o] \in {store[o], NoRecord}
      BY <1>1 DEF Drop, TypeOK
    <2>4. pc[r] \notin {"new", "dead"} /\ Live(r)
      BY <1>1 DEF Drop, At
    <2> QED
      BY <1>1, <2>1, <2>2, <2>3, <2>4 DEF Drop, TypeOK, Moves, host, who, app, memory
  <1>2. CASE Read(r)
    <2>1. taken' \in [Runs -> [Pids -> Runs \cup {NoOne}]]
      <3>1. \A p \in Pids : p \in Dropped => store[p].by \in Runs
        BY DEF Dropped, TypeOK, Records
      <3> QED
        BY <1>2, <3>1 DEF Read, TypeOK
    <2>2. found' \in [Runs -> Changes]
      BY <1>2 DEF Read, TypeOK, Changes
    <2>3. pc' = [pc EXCEPT ![r] = "takeover"] /\ Live(r)
      BY <1>2 DEF Read, Goto, At
    <2> QED
      BY <1>2, <2>1, <2>2, <2>3 DEF Read, TypeOK, Moves, host, who, app, memory
  <1>3. CASE ReadFails(r)
    BY <1>3, JournalAssumption DEF ReadFails, StoreFault, At, Goto, TypeOK, Moves, host, who, app, memory, todo
  <1>4. CASE TakeOver(r)
    <2>1. CASE IsEmpty(found[r]) /\ UNCHANGED <<own, written, store, storeFaults>>
      BY <1>4, <2>1 DEF TakeOver, At, Goto, TypeOK, Moves, host, who, app, todo
    <2>2. CASE Note(r, Takeover(r))
      <3>1. Takeover(r) \in Changes
        BY ChangesOf
      <3>2. /\ Live(r) /\ Goto(r, "drop")
            /\ UNCHANGED <<host, who, app, known, todo, clash, kernelFaults>>
        BY <1>4 DEF TakeOver, At
      <3>3. /\ session' = [session EXCEPT ![r] = session'[r]] /\ session'[r] \in {"none", "tun", "split"}
            /\ on' = [on EXCEPT ![r] = on'[r]] /\ on'[r] \in BOOLEAN
        BY <3>2 DEF app, TypeOK
      <3> QED
        BY <2>2, <3>1, <3>2, <3>3, NoteMoves
    <2> QED
      BY <1>4, <2>1, <2>2 DEF TakeOver
  <1>5. CASE Dropping(r)
    BY <1>5 DEF Dropping, Onward, At, Goto, TypeOK, Moves, host, who, app, memory, todo
  <1>6. CASE RecoverSplit(r)
    <2>1. known' \in [Runs -> Homes]
      BY <1>6 DEF RecoverSplit, TypeOK, Changes, Homes
    <2>2. found' \in [Runs -> Changes]
      <3>1. [found[r] EXCEPT !.split = FALSE, !.homes = Unknown] \in Changes
        BY ChangesOf DEF Changes
      <3>2. found' = [found EXCEPT ![r] = [found[r] EXCEPT !.split = FALSE, !.homes = Unknown]]
        BY <1>6 DEF RecoverSplit, TypeOK
      <3> QED
        BY <3>1, <3>2 DEF TypeOK
    <2>3. pc' = [pc EXCEPT ![r] = "unsplit"] /\ Live(r)
      BY <1>6 DEF RecoverSplit, Goto, At
    <2> QED
      BY <1>6, <2>1, <2>2, <2>3 DEF RecoverSplit, TypeOK, Moves, host, who, app
  <1> QED
    BY <1>1, <1>2, <1>3, <1>4, <1>5, <1>6

\* A move that notes nothing.
LEMMA PlainMoves ==
  ASSUME TypeOK, LifeInv, NEW r \in Runs, Live(r),
         NEW there \in {"ready", "refused", "unkill", "unkilled", "recoversplit", "unsplit",
                        "unsplitted", "move"},
         Goto(r, there),
         chain' \in Runs \cup {NoOne}, cgroup' \in BOOLEAN, known' \in [Runs -> Homes],
         found' \in [Runs -> Changes], kernelFaults' \in Nat,
         on' = [on EXCEPT ![r] = on'[r]], on'[r] \in BOOLEAN,
         UNCHANGED <<at, boot, store, who, own, written, session, taken, clash, storeFaults>>
  PROVE  TypeOK' /\ Moves(r)
  <1>1. pc' = [pc EXCEPT ![r] = there] /\ pc'[r] = there
    BY DEF Goto, TypeOK
  <1>2. pc' \in [Runs -> {"new", "read", "takeover", "drop", "recoversplit", "ready", "kill",
                    "refused", "unkill", "unkilled", "mkdir", "move", "moved", "unsplit", "unsplitted",
                    "dead"}]
    BY <1>1 DEF TypeOK
  <1>3. on' \in [Runs -> BOOLEAN]
    BY DEF TypeOK
  <1>4. UNCHANGED <<life, pid, born, before>>
    BY DEF who
  <1>5. TypeOK'
    BY <1>2, <1>3, <1>4 DEF TypeOK
  <1>6. Moves(r)
    BY <1>1 DEF Moves, TypeOK
  <1> QED
    BY <1>5, <1>6

LEMMA KernelFaultsCount ==
  ASSUME TypeOK, KernelFault \/ UNCHANGED kernelFaults
  PROVE  kernelFaults' \in Nat
  BY JournalAssumption DEF TypeOK, KernelFault

LEMMA KillSwitchMoves ==
  ASSUME TypeOK, LifeInv, NEW r \in Runs, KillSwitchNext(r)
  PROVE  TypeOK' /\ Moves(r)
  <1>1. CASE EnableKillSwitch(r)
    <2>1. Announce(r) \in Changes
      BY ChangesOf DEF Announce
    <2>2. /\ Live(r) /\ Note(r, Announce(r)) /\ Goto(r, "kill")
          /\ UNCHANGED <<host, who, known, todo, clash, kernelFaults>>
      BY <1>1 DEF EnableKillSwitch, At
    <2>3. /\ session' = [session EXCEPT ![r] = session'[r]] /\ session'[r] \in {"none", "tun", "split"}
          /\ on' = [on EXCEPT ![r] = on'[r]] /\ on'[r] \in BOOLEAN
      BY <1>1 DEF EnableKillSwitch, TypeOK, app
    <2> QED
      BY <2>1, <2>2, <2>3, NoteMoves
  <1>2. CASE ReplaceChain(r)
    <2>1. PICK there \in {"ready", "refused"} : Goto(r, there)
      BY <1>2 DEF ReplaceChain
    <2>2. /\ Live(r)
          /\ UNCHANGED <<at, boot, store, who, own, written, session, taken, clash, storeFaults>>
      BY <1>2 DEF ReplaceChain, At, app, memory, todo
    <2>3. kernelFaults' \in Nat
      BY <1>2, KernelFaultsCount DEF ReplaceChain
    <2>4. /\ chain' \in Runs \cup {NoOne} /\ cgroup' \in BOOLEAN
          /\ on' = [on EXCEPT ![r] = on'[r]] /\ on'[r] \in BOOLEAN
      BY <1>2 DEF ReplaceChain, TypeOK, app
    <2>5. known' \in [Runs -> Homes] /\ found' \in [Runs -> Changes]
      BY <1>2, ChangesOf DEF ReplaceChain, TypeOK, memory, todo
    <2> QED
      BY <2>1, <2>2, <2>3, <2>4, <2>5, PlainMoves
  <1>3. CASE NoteRefused(r)
    <2>1. [own[r] EXCEPT !.kill = FALSE] \in Changes
      BY ChangesOf
    <2>2. /\ Live(r) /\ Note(r, [own[r] EXCEPT !.kill = FALSE]) /\ Goto(r, "ready")
          /\ UNCHANGED <<host, who, known, todo, clash, kernelFaults>>
      BY <1>3 DEF NoteRefused, At
    <2>3. /\ session' = [session EXCEPT ![r] = session'[r]] /\ session'[r] \in {"none", "tun", "split"}
          /\ on' = [on EXCEPT ![r] = on'[r]] /\ on'[r] \in BOOLEAN
      BY <1>3 DEF NoteRefused, TypeOK, app
    <2> QED
      BY <2>1, <2>2, <2>3, NoteMoves
  <1>4. CASE Release(r)
    BY <1>4, JournalAssumption DEF Release, At, Goto, TypeOK, Moves, host, who, app, memory, todo
  <1>5. CASE RemoveChain(r)
    <2>1. PICK there \in {"unkilled", "unkill", "recoversplit", "ready"} : Goto(r, there)
      BY <1>5 DEF RemoveChain, Onward
    <2>2. /\ Live(r)
          /\ UNCHANGED <<at, boot, store, who, own, written, session, taken, clash, storeFaults>>
      BY <1>5 DEF RemoveChain, At, app, memory, todo
    <2>3. kernelFaults' \in Nat
      BY <1>5, KernelFaultsCount DEF RemoveChain
    <2>4. /\ chain' \in Runs \cup {NoOne} /\ cgroup' \in BOOLEAN
          /\ on' = [on EXCEPT ![r] = on'[r]] /\ on'[r] \in BOOLEAN
      BY <1>5 DEF RemoveChain, TypeOK, app
    <2>5. known' \in [Runs -> Homes] /\ found' \in [Runs -> Changes]
      <3>1. found' = [found EXCEPT ![r] = [found[r] EXCEPT !.kill = FALSE]] /\ UNCHANGED known
        BY <1>5 DEF RemoveChain, memory
      <3>2. [found[r] EXCEPT !.kill = FALSE] \in Changes
        <4>1. found[r] \in Changes
          BY ChangesOf
        <4> QED
          BY ONLY <4>1 DEF Changes
      <3>3. found \in [Runs -> Changes] /\ known \in [Runs -> Homes]
        BY DEF TypeOK
      <3> QED
        BY ONLY <3>1, <3>2, <3>3
    <2> QED
      BY <2>1, <2>2, <2>3, <2>4, <2>5, PlainMoves
  <1>6. CASE NoteUnkilled(r)
    <2>1. [own[r] EXCEPT !.kill = FALSE] \in Changes
      BY ChangesOf
    <2>2. PICK there \in {"unkill", "recoversplit", "ready"} : Goto(r, there)
      BY <1>6 DEF NoteUnkilled, Onward
    <2>3. /\ Live(r) /\ Note(r, [own[r] EXCEPT !.kill = FALSE])
          /\ UNCHANGED <<host, who, known, todo, clash, kernelFaults>>
      BY <1>6 DEF NoteUnkilled, At
    <2>4. /\ session' = [session EXCEPT ![r] = session'[r]] /\ session'[r] \in {"none", "tun", "split"}
          /\ on' = [on EXCEPT ![r] = on'[r]] /\ on'[r] \in BOOLEAN
      BY <1>6 DEF NoteUnkilled, TypeOK
    <2> QED
      BY <2>1, <2>2, <2>3, <2>4, NoteMoves
  <1> QED
    BY <1>1, <1>2, <1>3, <1>4, <1>5, <1>6 DEF KillSwitchNext

LEMMA SplitMoves ==
  ASSUME TypeOK, LifeInv, NEW r \in Runs, SplitNext(r)
  PROVE  TypeOK' /\ Moves(r)
  <1>1. CASE EnableSplit(r)
    <2>1. [own[r] EXCEPT !.split = TRUE] \in Changes
      BY ChangesOf
    <2>2. /\ Live(r) /\ Note(r, [own[r] EXCEPT !.split = TRUE]) /\ Goto(r, "mkdir")
          /\ UNCHANGED <<host, who, known, todo, clash, kernelFaults>>
      BY <1>1 DEF EnableSplit, At
    <2>3. /\ session' = [session EXCEPT ![r] = session'[r]] /\ session'[r] \in {"none", "tun", "split"}
          /\ on' = [on EXCEPT ![r] = on'[r]] /\ on'[r] \in BOOLEAN
      BY <1>1 DEF EnableSplit, TypeOK, app
    <2> QED
      BY <2>1, <2>2, <2>3, NoteMoves
  <1>2. CASE MakeSplit(r)
    <2>1. PICK there \in {"move", "unsplit", "ready"} : Goto(r, there)
      BY <1>2 DEF MakeSplit
    <2>2. /\ Live(r)
          /\ UNCHANGED <<at, boot, store, who, own, written, session, taken, clash, storeFaults>>
      BY <1>2 DEF MakeSplit, At, app, memory, todo
    <2>3. kernelFaults' \in Nat
      BY <1>2, KernelFaultsCount DEF MakeSplit
    <2>4. /\ chain' \in Runs \cup {NoOne} /\ cgroup' \in BOOLEAN
          /\ on' = [on EXCEPT ![r] = on'[r]] /\ on'[r] \in BOOLEAN
      BY <1>2 DEF MakeSplit, TypeOK, app
    <2>5. known' \in [Runs -> Homes] /\ found' \in [Runs -> Changes]
      BY <1>2, ChangesOf DEF MakeSplit, TypeOK, memory, todo
    <2> QED
      BY <2>1, <2>2, <2>3, <2>4, <2>5, PlainMoves
  <1>3. CASE RefreshSplit(r)
    BY <1>3, JournalAssumption DEF RefreshSplit, At, Goto, TypeOK, Moves, host, who, app, memory, todo
  <1>4. CASE NothingMoved(r)
    BY <1>4, JournalAssumption DEF NothingMoved, At, Goto, TypeOK, Moves, host, who, app, memory, todo
  <1>5. CASE NoteHomes(r)
    <2>1. [own[r] EXCEPT !.homes = known[r]] \in Changes
      BY ChangesOf
    <2>2. /\ Live(r) /\ Note(r, [own[r] EXCEPT !.homes = known[r]]) /\ Goto(r, "ready")
          /\ UNCHANGED <<host, who, known, todo, clash, kernelFaults>>
      BY <1>5 DEF NoteHomes, At
    <2>3. /\ session' = [session EXCEPT ![r] = session'[r]] /\ session'[r] \in {"none", "tun", "split"}
          /\ on' = [on EXCEPT ![r] = on'[r]] /\ on'[r] \in BOOLEAN
      BY <1>5 DEF NoteHomes, TypeOK, app
    <2> QED
      BY <2>1, <2>2, <2>3, NoteMoves
  <1>6. CASE DisableSplit(r)
    BY <1>6, JournalAssumption DEF DisableSplit, At, Goto, TypeOK, Moves, host, who, app, memory, todo
  <1>7. CASE RemoveCgroup(r)
    <2>1. PICK there \in {"unsplitted", "ready"} : Goto(r, there)
      BY <1>7 DEF RemoveCgroup
    <2>2. /\ Live(r)
          /\ UNCHANGED <<at, boot, store, who, own, written, session, taken, clash, storeFaults>>
      BY <1>7 DEF RemoveCgroup, At, app, memory, todo
    <2>3. kernelFaults' \in Nat
      BY <1>7, KernelFaultsCount DEF RemoveCgroup
    <2>4. /\ chain' \in Runs \cup {NoOne} /\ cgroup' \in BOOLEAN
          /\ on' = [on EXCEPT ![r] = on'[r]] /\ on'[r] \in BOOLEAN
      BY <1>7 DEF RemoveCgroup, TypeOK, app
    <2>5. known' \in [Runs -> Homes] /\ found' \in [Runs -> Changes]
      BY <1>7, ChangesOf DEF RemoveCgroup, TypeOK, memory, todo
    <2> QED
      BY <2>1, <2>2, <2>3, <2>4, <2>5, PlainMoves
  <1>8. CASE NoteUnsplit(r)
    <2>1. Unsplit(r) \in Changes
      BY ChangesOf
    <2>2. /\ Live(r) /\ Note(r, Unsplit(r)) /\ Goto(r, "ready")
          /\ UNCHANGED <<host, who, known, todo, clash, kernelFaults>>
      BY <1>8 DEF NoteUnsplit, At
    <2>3. /\ session' = [session EXCEPT ![r] = session'[r]] /\ session'[r] \in {"none", "tun", "split"}
          /\ on' = [on EXCEPT ![r] = on'[r]] /\ on'[r] \in BOOLEAN
      BY <1>8 DEF NoteUnsplit, TypeOK, app
    <2> QED
      BY <2>1, <2>2, <2>3, NoteMoves
  <1>9. ASSUME NEW q \in Procs, Move(r, q) PROVE TypeOK' /\ Moves(r)
    <2>1. at[q] \in Places /\ at' \in [Procs -> Places \cup {"split"}]
      BY <1>9 DEF Move, TypeOK
    <2>2. known' \in [Runs -> Homes]
      BY <1>9, <2>1 DEF Move, TypeOK, Homes
    <2> QED
      BY <1>9, <2>1, <2>2 DEF Move, At, Goto, TypeOK, Moves, who, app, todo
  <1>10. ASSUME NEW q \in Procs, RestorePid(r, q) PROVE TypeOK' /\ Moves(r)
    <2>1. at' \in [Procs -> Places \cup {"split"}]
      BY <1>10 DEF RestorePid, Restored, TypeOK, Homes, Places
    <2>2. pc[r] = "unsplit" /\ Live(r)
      BY <1>10 DEF RestorePid, At
    <2> QED
      BY <1>10, <2>1, <2>2 DEF RestorePid, TypeOK, Moves, who, app, memory, todo
  <1> QED
    BY <1>1, <1>2, <1>3, <1>4, <1>5, <1>6, <1>7, <1>8, <1>9, <1>10 DEF SplitNext

\* What dies forgets, and its records stay.
LEMMA ForgetKeeps ==
  ASSUME TypeOK, LifeInv, NEW gone, gone \subseteq {s \in Runs : Live(s)}, Forget(gone),
         UNCHANGED <<pid, born, before>>, boot' = boot \/ gone = {s \in Runs : Live(s)}
  PROVE  LifeInv' /\ \A s \in Runs : life'[s] = IF s \in gone THEN "dead" ELSE life[s]
  <1>1. \A s \in Runs : life'[s] = IF s \in gone THEN "dead" ELSE life[s]
    BY DEF Forget
  <1>2. \A s \in Runs : /\ pc'[s] = IF s \in gone THEN "dead" ELSE pc[s]
                        /\ own'[s] = IF s \in gone THEN Nothing ELSE own[s]
                        /\ written'[s] = IF s \in gone THEN FALSE ELSE written[s]
                        /\ session'[s] = IF s \in gone THEN "none" ELSE session[s]
                        /\ on'[s] = IF s \in gone THEN FALSE ELSE on[s]
    BY DEF Forget
  <1>3. \A s \in Runs : Live(s)' => Live(s) /\ s \notin gone /\ boot' = boot
    BY <1>1 DEF Live
  <1>4. SUFFICES ASSUME NEW s \in Runs
                 PROVE  /\ life'[s] = "new" <=> pc'[s] = "new"
                        /\ life'[s] = "dead" <=> pc'[s] = "dead"
                        /\ life'[s] # "new" => pid'[s] \in Pids
                        /\ Live(s)' => born'[s] = boot'
                        /\ \A u \in Runs : Live(s)' /\ Live(u)' /\ pid'[s] = pid'[u] => s = u
                        /\ \A u \in before'[s] : life'[u] = "dead"
                        /\ life'[s] = "new" =>
                             own'[s] = Nothing /\ ~written'[s] /\ session'[s] = "none" /\ ~on'[s]
    BY <1>1 DEF LifeInv
  <1>5. /\ life'[s] = "new" <=> pc'[s] = "new"
        /\ life'[s] = "dead" <=> pc'[s] = "dead"
        /\ life'[s] # "new" => pid'[s] \in Pids
    <2>1. /\ life[s] = "new" <=> pc[s] = "new"
          /\ life[s] = "dead" <=> pc[s] = "dead"
          /\ life[s] # "new" => pid[s] \in Pids
      BY DEF LifeInv
    <2>2. CASE s \in gone
      <3>1. life[s] = "live"
        BY <2>2 DEF Live
      <3> QED
        BY <1>1, <1>2, <2>1, <2>2, <3>1
    <2>3. CASE s \notin gone
      BY <1>1, <1>2, <2>1, <2>3
    <2> QED
      BY <2>2, <2>3
  <1>6. /\ Live(s)' => born'[s] = boot'
        /\ \A u \in Runs : Live(s)' /\ Live(u)' /\ pid'[s] = pid'[u] => s = u
    BY <1>3 DEF LifeInv
  <1>7. \A u \in before'[s] : life'[u] = "dead"
    BY <1>1 DEF LifeInv, TypeOK
  <1>8. life'[s] = "new" => own'[s] = Nothing /\ ~written'[s] /\ session'[s] = "none" /\ ~on'[s]
    <2>1. life[s] = "new" => own[s] = Nothing /\ ~written[s] /\ session[s] = "none" /\ ~on[s]
      BY DEF LifeInv
    <2> QED
      BY <1>1, <1>2, <2>1
  <1> QED
    BY <1>5, <1>6, <1>7, <1>8

LEMMA ForgetTypes ==
  ASSUME TypeOK, NEW gone, Forget(gone)
  PROVE  /\ life' \in [Runs -> {"new", "live", "dead"}]
         /\ pc' \in [Runs -> {"new", "read", "takeover", "drop", "recoversplit", "ready", "kill",
                      "refused", "unkill", "unkilled", "mkdir", "move", "moved", "unsplit", "unsplitted",
                      "dead"}]
         /\ own' \in [Runs -> Changes] /\ written' \in [Runs -> BOOLEAN]
         /\ known' \in [Runs -> Homes] /\ found' \in [Runs -> Changes]
         /\ session' \in [Runs -> {"none", "tun", "split"}] /\ on' \in [Runs -> BOOLEAN]
         /\ taken' \in [Runs -> [Pids -> Runs \cup {NoOne}]]
  <1>1. Unknown \in Homes /\ Nothing \in Changes
    BY DEF Unknown, Homes, Nothing, Changes
  <1>2. NoneTaken \in [Pids -> Runs \cup {NoOne}]
    BY DEF NoneTaken
  <1>3. /\ life' \in [Runs -> {"new", "live", "dead"}]
        /\ pc' \in [Runs -> {"new", "read", "takeover", "drop", "recoversplit", "ready", "kill",
                      "refused", "unkill", "unkilled", "mkdir", "move", "moved", "unsplit", "unsplitted",
                      "dead"}]
    BY DEF Forget, TypeOK
  <1>4. /\ own' \in [Runs -> Changes] /\ written' \in [Runs -> BOOLEAN]
        /\ known' \in [Runs -> Homes] /\ found' \in [Runs -> Changes]
    BY <1>1 DEF Forget, TypeOK
  <1>5. /\ session' \in [Runs -> {"none", "tun", "split"}] /\ on' \in [Runs -> BOOLEAN]
        /\ taken' \in [Runs -> [Pids -> Runs \cup {NoOne}]]
    BY <1>2 DEF Forget, TypeOK
  <1> QED
    BY <1>3, <1>4, <1>5

LEMMA DieKeeps ==
  ASSUME TypeOK, LifeInv, StoreInv, NEW r \in Runs, Die(r)
  PROVE  TypeOK' /\ LifeInv' /\ StoreInv'
  <1>1. /\ Forget({r}) /\ {r} \subseteq {s \in Runs : Live(s)}
        /\ UNCHANGED <<pid, born, before, boot, chain, cgroup, at, store, clash, kernelFaults, storeFaults>>
    BY DEF Die, host
  <1>2. LifeInv' /\ \A s \in Runs : life'[s] = IF s \in {r} THEN "dead" ELSE life[s]
    BY <1>1, ForgetKeeps
  <1>3. TypeOK'
    BY <1>1, ForgetTypes DEF TypeOK
  <1>4. StoreInv'
    <2>1. SUFFICES ASSUME NEW p \in Pids, store[p] # NoRecord
                   PROVE  pid[store[p].by] = p /\ life'[store[p].by] # "new"
      BY <1>1 DEF StoreInv
    <2>2. store[p].by \in Runs /\ pid[store[p].by] = p /\ life[store[p].by] # "new"
      BY <2>1 DEF StoreInv, TypeOK, Records
    <2> QED
      BY <1>2, <2>2
  <1> QED
    BY <1>2, <1>3, <1>4

LEMMA RebootKeeps ==
  ASSUME TypeOK, LifeInv, StoreInv, Reboot
  PROVE  TypeOK' /\ LifeInv' /\ StoreInv'
  <1> DEFINE gone == {s \in Runs : Live(s)}
  <1>1. Forget(gone) /\ UNCHANGED <<pid, born, before, clash, kernelFaults, storeFaults>>
    BY DEF Reboot
  <1>2. LifeInv' /\ \A s \in Runs : life'[s] = IF s \in gone THEN "dead" ELSE life[s]
    <2> HIDE DEF gone
    <2>1. gone \subseteq {s \in Runs : Live(s)} /\ gone = {s \in Runs : Live(s)}
      BY DEF gone
    <2> QED
      BY <1>1, <2>1, ForgetKeeps
  <1>3. TypeOK'
    <2>1. chain' \in Runs \cup {NoOne} /\ cgroup' \in BOOLEAN /\ boot' \in Nat
      <3>1. boot' \in Nat
        BY DEF Reboot, TypeOK
      <3>2. chain' \in Runs \cup {NoOne}
        BY DEF Reboot
      <3>3. cgroup' \in BOOLEAN
        BY DEF Reboot
      <3> QED
        BY <3>1, <3>2, <3>3
    <2>2. at' \in [Procs -> Places \cup {"split"}]
      BY DEF Reboot, Places
    <2>3. store' \in [Pids -> Records \cup {NoRecord}]
      <3>1. [p \in Pids |-> NoRecord] \in [Pids -> Records \cup {NoRecord}]
        OBVIOUS
      <3> QED
        BY <3>1 DEF Reboot, TypeOK
    <2> QED
      BY <1>1, <2>1, <2>2, <2>3, ForgetTypes DEF TypeOK
  <1>4. StoreInv'
    <2>1. SUFFICES ASSUME NEW p \in Pids, store'[p] # NoRecord
                   PROVE  pid[store'[p].by] = p /\ life'[store'[p].by] # "new"
      BY <1>1 DEF StoreInv
    <2>2. store'[p] = store[p]
      BY <2>1 DEF Reboot
    <2>3. store[p].by \in Runs /\ pid[store[p].by] = p /\ life[store[p].by] # "new"
      BY <2>1, <2>2 DEF StoreInv, TypeOK, Records
    <2> QED
      BY <1>2, <2>2, <2>3
  <1> QED
    BY <1>2, <1>3, <1>4

LEMMA StartKeeps ==
  ASSUME TypeOK, LifeInv, StoreInv, NEW r \in Runs, NEW p \in Pids, Start(r, p)
  PROVE  TypeOK' /\ LifeInv' /\ StoreInv'
  <1>1. /\ life[r] = "new" /\ \A s \in Runs : Live(s) => pid[s] # p
        /\ UNCHANGED <<boot, store, own, written, session, on>>
    BY DEF Start, host, memory, app
  <1>2. \A s \in Runs : /\ life'[s] = IF s = r THEN "live" ELSE life[s]
                        /\ pid'[s] = IF s = r THEN p ELSE pid[s]
                        /\ born'[s] = IF s = r THEN boot ELSE born[s]
                        /\ before'[s] = IF s = r THEN {u \in Runs : life[u] = "dead"} ELSE before[s]
                        /\ pc'[s] = IF s = r THEN "read" ELSE pc[s]
    BY DEF Start, Goto, TypeOK
  <1>3. TypeOK'
    BY DEF Start, Goto, TypeOK, host, memory, app, todo
  <1>4. LifeInv'
    <2>1. SUFFICES ASSUME NEW s \in Runs
                   PROVE  /\ life'[s] = "new" <=> pc'[s] = "new"
                          /\ life'[s] = "dead" <=> pc'[s] = "dead"
                          /\ life'[s] # "new" => pid'[s] \in Pids
                          /\ Live(s)' => born'[s] = boot'
                          /\ \A u \in Runs : Live(s)' /\ Live(u)' /\ pid'[s] = pid'[u] => s = u
                          /\ \A u \in before'[s] : life'[u] = "dead"
                          /\ life'[s] = "new" =>
                               own'[s] = Nothing /\ ~written'[s] /\ session'[s] = "none" /\ ~on'[s]
      BY DEF LifeInv
    <2>2. /\ life'[s] = "new" <=> pc'[s] = "new"
          /\ life'[s] = "dead" <=> pc'[s] = "dead"
          /\ life'[s] # "new" => pid'[s] \in Pids
      <3>1. /\ life[s] = "new" <=> pc[s] = "new"
            /\ life[s] = "dead" <=> pc[s] = "dead"
            /\ life[s] # "new" => pid[s] \in Pids
        BY DEF LifeInv
      <3>2. CASE s = r
        BY <1>2, <3>2
      <3>3. CASE s # r
        BY <1>2, <3>1, <3>3
      <3> QED
        BY <3>2, <3>3
    <2>3. Live(s)' => born'[s] = boot'
      <3>1. Live(s) => born[s] = boot
        BY DEF LifeInv
      <3>2. Live(s)' => s = r \/ Live(s)
        BY <1>2 DEF Live
      <3> QED
        BY <1>1, <1>2, <3>1, <3>2
    <2>4. \A u \in Runs : Live(s)' /\ Live(u)' /\ pid'[s] = pid'[u] => s = u
      <3>1. \A u \in Runs : Live(u)' <=> u = r \/ Live(u)
        BY <1>2 DEF Live
      <3>2. \A u \in Runs : Live(s) /\ Live(u) /\ pid[s] = pid[u] => s = u
        BY DEF LifeInv
      <3> QED
        BY <1>1, <1>2, <3>1, <3>2
    <2>5. \A u \in before'[s] : life'[u] = "dead"
      <3>1. ASSUME NEW u \in Runs, life[u] = "dead" PROVE life'[u] = "dead"
        BY <1>1, <1>2, <3>1
      <3>2. \A u \in before[s] : u \in Runs /\ life[u] = "dead"
        BY DEF LifeInv, TypeOK
      <3> QED
        BY <1>2, <3>1, <3>2
    <2>6. life'[s] = "new" => own'[s] = Nothing /\ ~written'[s] /\ session'[s] = "none" /\ ~on'[s]
      <3>1. life[s] = "new" => own[s] = Nothing /\ ~written[s] /\ session[s] = "none" /\ ~on[s]
        BY DEF LifeInv
      <3> QED
        BY <1>1, <1>2, <3>1
    <2> QED
      BY <2>2, <2>3, <2>4, <2>5, <2>6
  <1>5. StoreInv'
    <2>1. SUFFICES ASSUME NEW o \in Pids, store[o] # NoRecord
                   PROVE  pid'[store[o].by] = o /\ life'[store[o].by] # "new"
      BY <1>1 DEF StoreInv
    <2>2. /\ store[o].by \in Runs /\ store[o].by # r
          /\ pid[store[o].by] = o /\ life[store[o].by] # "new"
      BY <1>1, <2>1 DEF StoreInv, TypeOK, Records
    <2> QED
      BY <1>2, <2>2
  <1> QED
    BY <1>3, <1>4, <1>5

\* Every step keeps these, whatever fails.
LEMMA AlwaysKept ==
  ASSUME TypeOK, LifeInv, StoreInv, [Next]_vars
  PROVE  TypeOK' /\ LifeInv' /\ StoreInv'
  <1>1. ASSUME NEW r \in Runs, Moves(r), TypeOK' PROVE TypeOK' /\ LifeInv' /\ StoreInv'
    BY <1>1, MovesKeep
  <1>2. ASSUME NEW r \in Runs, RecoverNext(r) PROVE TypeOK' /\ LifeInv' /\ StoreInv'
    <2>1. CASE \E p \in Pids : Start(r, p)
      BY <2>1, StartKeeps
    <2>2. CASE \/ \E p \in Pids : Drop(r, p)
               \/ Read(r) \/ ReadFails(r) \/ TakeOver(r) \/ Dropping(r) \/ RecoverSplit(r)
      BY <1>1, <2>2, RecoverMoves
    <2> QED
      BY <1>2, <2>1, <2>2 DEF RecoverNext
  <1>3. ASSUME NEW r \in Runs, KillSwitchNext(r) \/ SplitNext(r) PROVE TypeOK' /\ LifeInv' /\ StoreInv'
    BY <1>1, <1>3, KillSwitchMoves, SplitMoves
  <1>4. ASSUME NEW r \in Runs, Die(r) PROVE TypeOK' /\ LifeInv' /\ StoreInv'
    BY <1>4, DieKeeps
  <1>5. CASE Reboot
    BY <1>5, RebootKeeps
  <1>6. CASE UNCHANGED vars
    BY <1>6 DEF vars, host, who, memory, app, todo, TypeOK, LifeInv, StoreInv, Live
  <1> QED
    BY <1>2, <1>3, <1>4, <1>5, <1>6 DEF Next

-----------------------------------------------------------------------------
(* While the store takes every write: the steps past a recovery. *)

\* The record of a live run past its recovery is the one under its pid.
LEMMA OwnRecord ==
  ASSUME JInv, Kind, NEW r \in Runs, Live(r), pc[r] \notin Recovering
  PROVE  /\ pid[r] \in Pids /\ own[r] \in Changes /\ born[r] = boot /\ NoOne # r
         /\ store[pid[r]] = Record(r, own[r])
         /\ \A s \in Runs : Live(s) /\ pid[s] = pid[r] => s = r
  <1>1. pid[r] \in Pids /\ own[r] \in Changes /\ born[r] = boot /\ NoOne # r
    BY JournalAssumption DEF JInv, TypeOK, LifeInv, Live
  <1>2. store[pid[r]] = Record(r, own[r])
    BY DEF JInv, KindInv, OwnInv, Owns, RecoveryInv, Recovers, Recovered, Record
  <1>3. \A s \in Runs : Live(s) /\ pid[s] = pid[r] => s = r
    BY DEF JInv, LifeInv
  <1> QED
    BY <1>1, <1>2, <1>3

\* What bears a kill switch, or a split, before a run's step and after it.
LEMMA StepBears ==
  ASSUME JInv, Kind, TypeOK', NEW r \in Runs, Steps(r),
         kernelFaults' \in {kernelFaults, kernelFaults + 1}
  PROVE  /\ \A p \in Pids \ {pid[r]} : (Bears(p) => Bears(p)') /\ (BearsSplit(p) => BearsSplit(p)')
         /\ Bears(pid[r]) => own[r].kill /\ Keeps(r)
         /\ own'[r].kill /\ Keeps(r)' => \E p \in Pids : Bears(p)'
         /\ BearsSplit(pid[r]) => own[r].split /\ KeepsSplit(r)
         /\ own'[r].split /\ KeepsSplit(r)' => \E p \in Pids : BearsSplit(p)'
  <1>1. /\ pid[r] \in Pids /\ own[r] \in Changes /\ born[r] = boot /\ NoOne # r
        /\ store[pid[r]] = Record(r, own[r])
        /\ own'[r] \in Changes /\ Live(r) /\ kernelFaults \in Nat
    BY OwnRecord DEF Steps, JInv, TypeOK
  <1>2. UNCHANGED <<life, pid, born, boot>>
    BY DEF Steps, who
  <1>3. store'[pid[r]] = Record(r, own'[r])
    BY <1>1 DEF Steps, JInv, TypeOK
  <1>4. ASSUME NEW p \in Pids \ {pid[r]}
        PROVE  (Bears(p) => Bears(p)') /\ (BearsSplit(p) => BearsSplit(p)')
    <2>1. store'[p] = store[p]
      BY DEF Steps, JInv, TypeOK
    <2>2. SUFFICES ASSUME store[p] # NoRecord
                   PROVE  (Bears(p) => Bears(p)') /\ (BearsSplit(p) => BearsSplit(p)')
      BY DEF Bears, BearsSplit, Standing
    <2>3. store[p].by \in Runs \ {r}
      BY <2>2 DEF JInv, TypeOK, StoreInv, Records
    <2>4. pc'[store[p].by] = pc[store[p].by]
      BY <2>3 DEF Steps, JInv, TypeOK
    <2>5. kernelFaults # 0 => kernelFaults' # 0
      BY <1>1
    <2> QED
      BY <1>2, <2>1, <2>4, <2>5 DEF Bears, BearsSplit, Standing, SameBoot, Keeps, KeepsSplit, Live
  <1>5. /\ Bears(pid[r]) => own[r].kill /\ Keeps(r)
        /\ BearsSplit(pid[r]) => own[r].split /\ KeepsSplit(r)
    <2>1. CASE IsEmpty(own[r])
      BY <1>1, <2>1 DEF Record, Bears, BearsSplit, Standing
    <2>2. CASE ~IsEmpty(own[r])
      BY <1>1, <2>2 DEF Record, Bears, BearsSplit, Standing
    <2> QED
      BY <2>1, <2>2
  <1>6. ASSUME own'[r].kill \/ own'[r].split
        PROVE  /\ store'[pid[r]] = [by |-> r, what |-> own'[r]]
               /\ Standing(pid[r])' /\ Live(r)' /\ pid'[r] = pid[r]
    <2>1. store'[pid[r]] = [by |-> r, what |-> own'[r]]
      BY <1>3, <1>6 DEF Record, IsEmpty
    <2>2. store'[pid[r]] # NoRecord /\ store'[pid[r]].by = r
      BY <1>1, <2>1 DEF NoRecord
    <2> QED
      BY <1>1, <1>2, <2>1, <2>2 DEF Standing, SameBoot, Live
  <1>7. own'[r].kill /\ Keeps(r)' => \E p \in Pids : Bears(p)'
    BY <1>1, <1>2, <1>6 DEF Bears
  <1>8. own'[r].split /\ KeepsSplit(r)' => \E p \in Pids : BearsSplit(p)'
    BY <1>1, <1>2, <1>6 DEF BearsSplit
  <1> QED
    BY <1>4, <1>5, <1>7, <1>8

\* What a step owes for what is on the host.
KillStep(r) ==
  \/ chain' = chain /\ (own[r].kill /\ Keeps(r) => own'[r].kill /\ Keeps(r)')
  \/ kernelFaults' > 1
  \/ chain' = NoOne
  \/ own'[r].kill /\ Keeps(r)'
SplitStep(r) ==
  \/ cgroup' = cgroup /\ (own[r].split /\ KeepsSplit(r) => own'[r].split /\ KeepsSplit(r)')
  \/ cgroup' = FALSE
  \/ own'[r].split /\ KeepsSplit(r)'

LEMMA StepsKeepKind ==
  ASSUME JInv, Kind, TypeOK', NEW r \in Runs, Steps(r),
         kernelFaults' \in {kernelFaults, kernelFaults + 1},
         Place(r)', KillStep(r), SplitStep(r)
  PROVE  KindInv'
  <1>1. OwnInv' /\ RecoveryInv'
    BY StepsKeep
  <1>2. kernelFaults \in Nat /\ pid[r] \in Pids
    BY OwnRecord DEF Steps, JInv, TypeOK
  <1>3. PlaceInv'
    <2>1. SUFFICES ASSUME NEW s \in Runs, s # r, Live(s) PROVE Place(s)'
      BY DEF PlaceInv, Steps, who, Live
    <2>2. Place(s)
      BY <2>1 DEF JInv, KindInv, PlaceInv
    <2>3. /\ pc'[s] = pc[s] /\ own'[s] = own[s] /\ session'[s] = session[s]
          /\ on'[s] = on[s] /\ found'[s] = found[s]
      BY <2>1 DEF Steps, JInv, TypeOK
    <2>4. kernelFaults # 0 => kernelFaults' # 0
      BY <1>2
    <2> QED
      BY <2>2, <2>3, <2>4 DEF Place
  <1>4. KillInv'
    <2>1. SUFFICES ASSUME kernelFaults' < 2, chain' # NoOne PROVE \E p \in Pids : Bears(p)'
      BY DEF KillInv
    <2>2. CASE chain' = chain /\ (own[r].kill /\ Keeps(r) => own'[r].kill /\ Keeps(r)')
      <3>1. PICK p \in Pids : Bears(p)
        BY <1>2, <2>1, <2>2 DEF JInv, KindInv, KillInv
      <3> QED
        BY <2>2, <3>1, StepBears
    <2>3. CASE own'[r].kill /\ Keeps(r)'
      BY <2>3, StepBears
    <2>4. ~(kernelFaults' > 1)
      BY <1>2, <2>1
    <2> QED
      BY <2>1, <2>2, <2>3, <2>4 DEF KillStep
  <1>5. SplitInv'
    <2>1. SUFFICES ASSUME cgroup' PROVE \E p \in Pids : BearsSplit(p)'
      BY DEF SplitInv
    <2>2. CASE cgroup' = cgroup /\ (own[r].split /\ KeepsSplit(r) => own'[r].split /\ KeepsSplit(r)')
      <3>1. PICK p \in Pids : BearsSplit(p)
        BY <2>1, <2>2 DEF JInv, KindInv, SplitInv
      <3> QED
        BY <2>2, <3>1, StepBears
    <2>3. CASE own'[r].split /\ KeepsSplit(r)'
      BY <2>3, StepBears
    <2> QED
      BY <2>1, <2>2, <2>3 DEF SplitStep
  <1> QED
    BY <1>1, <1>3, <1>4, <1>5 DEF KindInv

\* The kill switch's steps.
LEMMA KillSwitchKind ==
  ASSUME JInv, Kind, TypeOK', NEW r \in Runs, KillSwitchNext(r), storeFaults' = 0
  PROVE  KindInv'
  <1>0. Moves(r)
    BY KillSwitchMoves DEF JInv
  <1>1. CASE EnableKillSwitch(r)
    <2>1. /\ Live(r) /\ pc[r] = "ready" /\ pc[r] \notin Recovering
          /\ Place(r) /\ kernelFaults \in Nat /\ own[r] \in Changes
      BY <1>1 DEF EnableKillSwitch, At, Recovering, JInv, TypeOK, KindInv, PlaceInv
    <2>2. Announce(r) \in Changes /\ Note(r, Announce(r))
      BY <1>1, ChangesOf DEF EnableKillSwitch, JInv, Announce
    <2>3. /\ own'[r] = Announce(r)
          /\ written' = [written EXCEPT ![r] = ~IsEmpty(own'[r])]
          /\ store' = [store EXCEPT ![pid[r]] = Record(r, own'[r])]
      BY <2>1, <2>2, NoteSteps
    <2>4. Steps(r)
      <3>1. pc'[r] \notin Recovering \cup {"new", "dead"}
        BY <1>1, <2>1 DEF EnableKillSwitch, Goto, Recovering, JInv, TypeOK
      <3>2. found' = [found EXCEPT ![r] = found'[r]] /\ UNCHANGED <<who, boot, taken>>
        BY <1>1, <2>1 DEF EnableKillSwitch, host, todo, JInv, TypeOK
      <3> QED
        BY <1>0, <2>1, <2>3, <3>1, <3>2 DEF Steps, Moves
    <2>5. /\ Place(r)' /\ KillStep(r) /\ SplitStep(r)
          /\ kernelFaults' \in {kernelFaults, kernelFaults + 1}
      BY <1>1, <2>1, <2>3 DEF EnableKillSwitch, At, Goto, Announce, Changes, Place, KillStep, SplitStep, Keeps,
        KeepsSplit, KernelFault, host, app, todo, JInv, TypeOK
    <2> QED
      BY <2>4, <2>5, StepsKeepKind
  <1>2. CASE ReplaceChain(r)
    <2>1. /\ Live(r) /\ pc[r] = "kill" /\ pc[r] \notin Recovering
          /\ Place(r) /\ kernelFaults \in Nat /\ own[r] \in Changes
      BY <1>2 DEF ReplaceChain, At, Recovering, JInv, TypeOK, KindInv, PlaceInv
    <2>2. /\ own'[r] = own[r]
          /\ written' = [written EXCEPT ![r] = ~IsEmpty(own'[r])]
          /\ store' = [store EXCEPT ![pid[r]] = Record(r, own'[r])]
      BY <1>2, <2>1, NoNoteSteps DEF ReplaceChain, memory
    <2>3. Steps(r)
      <3>1. pc'[r] \notin Recovering \cup {"new", "dead"}
        BY <1>2, <2>1 DEF ReplaceChain, Goto, Recovering, JInv, TypeOK
      <3>2. found' = [found EXCEPT ![r] = found'[r]] /\ UNCHANGED <<who, boot, taken>>
        BY <1>2, <2>1 DEF ReplaceChain, host, todo, JInv, TypeOK
      <3> QED
        BY <1>0, <2>1, <2>2, <3>1, <3>2 DEF Steps, Moves
    <2>4. /\ Place(r)' /\ KillStep(r) /\ SplitStep(r)
          /\ kernelFaults' \in {kernelFaults, kernelFaults + 1}
      BY <1>2, <2>1, <2>2 DEF ReplaceChain, At, Goto, Changes, Place, KillStep, SplitStep, Keeps,
        KeepsSplit, KernelFault, host, app, todo, JInv, TypeOK
    <2> QED
      BY <2>3, <2>4, StepsKeepKind
  <1>3. CASE NoteRefused(r)
    <2>1. /\ Live(r) /\ pc[r] = "refused" /\ pc[r] \notin Recovering
          /\ Place(r) /\ kernelFaults \in Nat /\ own[r] \in Changes
      BY <1>3 DEF NoteRefused, At, Recovering, JInv, TypeOK, KindInv, PlaceInv
    <2>2. [own[r] EXCEPT !.kill = FALSE] \in Changes /\ Note(r, [own[r] EXCEPT !.kill = FALSE])
      BY <1>3, ChangesOf DEF NoteRefused, JInv
    <2>3. /\ own'[r] = [own[r] EXCEPT !.kill = FALSE]
          /\ written' = [written EXCEPT ![r] = ~IsEmpty(own'[r])]
          /\ store' = [store EXCEPT ![pid[r]] = Record(r, own'[r])]
      BY <2>1, <2>2, NoteSteps
    <2>4. Steps(r)
      <3>1. pc'[r] \notin Recovering \cup {"new", "dead"}
        BY <1>3, <2>1 DEF NoteRefused, Goto, Recovering, JInv, TypeOK
      <3>2. found' = [found EXCEPT ![r] = found'[r]] /\ UNCHANGED <<who, boot, taken>>
        BY <1>3, <2>1 DEF NoteRefused, host, todo, JInv, TypeOK
      <3> QED
        BY <1>0, <2>1, <2>3, <3>1, <3>2 DEF Steps, Moves
    <2>5. /\ Place(r)' /\ KillStep(r) /\ SplitStep(r)
          /\ kernelFaults' \in {kernelFaults, kernelFaults + 1}
      BY <1>3, <2>1, <2>3 DEF NoteRefused, At, Goto, Changes, Place, KillStep, SplitStep, Keeps,
        KeepsSplit, KernelFault, host, app, todo, JInv, TypeOK
    <2> QED
      BY <2>4, <2>5, StepsKeepKind
  <1>4. CASE Release(r)
    <2>1. /\ Live(r) /\ pc[r] = "ready" /\ pc[r] \notin Recovering
          /\ Place(r) /\ kernelFaults \in Nat /\ own[r] \in Changes
      BY <1>4 DEF Release, At, Recovering, JInv, TypeOK, KindInv, PlaceInv
    <2>2. /\ own'[r] = own[r]
          /\ written' = [written EXCEPT ![r] = ~IsEmpty(own'[r])]
          /\ store' = [store EXCEPT ![pid[r]] = Record(r, own'[r])]
      BY <1>4, <2>1, NoNoteSteps DEF Release, memory
    <2>3. Steps(r)
      <3>1. pc'[r] \notin Recovering \cup {"new", "dead"}
        BY <1>4, <2>1 DEF Release, Goto, Recovering, JInv, TypeOK
      <3>2. found' = [found EXCEPT ![r] = found'[r]] /\ UNCHANGED <<who, boot, taken>>
        BY <1>4, <2>1 DEF Release, host, todo, JInv, TypeOK
      <3> QED
        BY <1>0, <2>1, <2>2, <3>1, <3>2 DEF Steps, Moves
    <2>4. /\ Place(r)' /\ KillStep(r) /\ SplitStep(r)
          /\ kernelFaults' \in {kernelFaults, kernelFaults + 1}
      BY <1>4, <2>1, <2>2 DEF Release, At, Goto, Changes, Place, KillStep, SplitStep, Keeps,
        KeepsSplit, KernelFault, host, app, todo, JInv, TypeOK
    <2> QED
      BY <2>3, <2>4, StepsKeepKind
  <1>5. CASE RemoveChain(r)
    <2>1. /\ Live(r) /\ pc[r] = "unkill" /\ pc[r] \notin Recovering
          /\ Place(r) /\ kernelFaults \in Nat /\ own[r] \in Changes
      BY <1>5 DEF RemoveChain, At, Recovering, JInv, TypeOK, KindInv, PlaceInv
    <2>2. /\ own'[r] = own[r]
          /\ written' = [written EXCEPT ![r] = ~IsEmpty(own'[r])]
          /\ store' = [store EXCEPT ![pid[r]] = Record(r, own'[r])]
      BY <1>5, <2>1, NoNoteSteps DEF RemoveChain, memory
    <2>3. Steps(r)
      <3>1. pc'[r] \notin Recovering \cup {"new", "dead"}
        BY <1>5, <2>1 DEF RemoveChain, Goto, Onward, Recovering, JInv, TypeOK
      <3>2. found' = [found EXCEPT ![r] = found'[r]] /\ UNCHANGED <<who, boot, taken>>
        BY <1>5, <2>1 DEF RemoveChain, host, todo, JInv, TypeOK
      <3> QED
        BY <1>0, <2>1, <2>2, <3>1, <3>2 DEF Steps, Moves
    <2>4. /\ Place(r)' /\ KillStep(r) /\ SplitStep(r)
          /\ kernelFaults' \in {kernelFaults, kernelFaults + 1}
      BY <1>5, <2>1, <2>2 DEF RemoveChain, At, Goto, Onward, Changes, Place, KillStep, SplitStep, Keeps,
        KeepsSplit, KernelFault, host, app, todo, JInv, TypeOK
    <2> QED
      BY <2>3, <2>4, StepsKeepKind
  <1>6. CASE NoteUnkilled(r)
    <2>1. /\ Live(r) /\ pc[r] = "unkilled" /\ pc[r] \notin Recovering
          /\ Place(r) /\ kernelFaults \in Nat /\ own[r] \in Changes
      BY <1>6 DEF NoteUnkilled, At, Recovering, JInv, TypeOK, KindInv, PlaceInv
    <2>2. [own[r] EXCEPT !.kill = FALSE] \in Changes /\ Note(r, [own[r] EXCEPT !.kill = FALSE])
      BY <1>6, ChangesOf DEF NoteUnkilled, JInv
    <2>3. /\ own'[r] = [own[r] EXCEPT !.kill = FALSE]
          /\ written' = [written EXCEPT ![r] = ~IsEmpty(own'[r])]
          /\ store' = [store EXCEPT ![pid[r]] = Record(r, own'[r])]
      BY <2>1, <2>2, NoteSteps
    <2>4. Steps(r)
      <3>1. pc'[r] \notin Recovering \cup {"new", "dead"}
        BY <1>6, <2>1 DEF NoteUnkilled, Goto, Onward, Recovering, JInv, TypeOK
      <3>2. found' = [found EXCEPT ![r] = found'[r]] /\ UNCHANGED <<who, boot, taken>>
        BY <1>6, <2>1 DEF NoteUnkilled, host, todo, JInv, TypeOK
      <3> QED
        BY <1>0, <2>1, <2>3, <3>1, <3>2 DEF Steps, Moves
    <2>5. /\ Place(r)' /\ KillStep(r) /\ SplitStep(r)
          /\ kernelFaults' \in {kernelFaults, kernelFaults + 1}
      BY <1>6, <2>1, <2>3 DEF NoteUnkilled, At, Goto, Onward, Changes, Place, KillStep, SplitStep, Keeps,
        KeepsSplit, KernelFault, host, app, todo, JInv, TypeOK
    <2> QED
      BY <2>4, <2>5, StepsKeepKind
  <1> QED
    BY <1>1, <1>2, <1>3, <1>4, <1>5, <1>6 DEF KillSwitchNext

\* The split's, and the recovery's that take it down.
LEMMA SplitKind ==
  ASSUME JInv, Kind, TypeOK', NEW r \in Runs, SplitNext(r) \/ RecoverSplit(r), storeFaults' = 0
  PROVE  KindInv'
  <1>0. Moves(r)
    BY SplitMoves, RecoverMoves DEF JInv
  <1>1. CASE EnableSplit(r)
    <2>1. /\ Live(r) /\ pc[r] = "ready" /\ pc[r] \notin Recovering
          /\ Place(r) /\ kernelFaults \in Nat /\ own[r] \in Changes
      BY <1>1 DEF EnableSplit, At, Recovering, JInv, TypeOK, KindInv, PlaceInv
    <2>2. [own[r] EXCEPT !.split = TRUE] \in Changes /\ Note(r, [own[r] EXCEPT !.split = TRUE])
      BY <1>1, ChangesOf DEF EnableSplit, JInv
    <2>3. /\ own'[r] = [own[r] EXCEPT !.split = TRUE]
          /\ written' = [written EXCEPT ![r] = ~IsEmpty(own'[r])]
          /\ store' = [store EXCEPT ![pid[r]] = Record(r, own'[r])]
      BY <2>1, <2>2, NoteSteps
    <2>4. Steps(r)
      <3>1. pc'[r] \notin Recovering \cup {"new", "dead"}
        BY <1>1, <2>1 DEF EnableSplit, Goto, Recovering, JInv, TypeOK
      <3>2. found' = [found EXCEPT ![r] = found'[r]] /\ UNCHANGED <<who, boot, taken>>
        BY <1>1, <2>1 DEF EnableSplit, host, todo, JInv, TypeOK
      <3> QED
        BY <1>0, <2>1, <2>3, <3>1, <3>2 DEF Steps, Moves
    <2>5. /\ Place(r)' /\ KillStep(r) /\ SplitStep(r)
          /\ kernelFaults' \in {kernelFaults, kernelFaults + 1}
      BY <1>1, <2>1, <2>3 DEF EnableSplit, At, Goto, Changes, Place, KillStep, SplitStep, Keeps,
        KeepsSplit, KernelFault, host, app, todo, JInv, TypeOK
    <2> QED
      BY <2>4, <2>5, StepsKeepKind
  <1>2. CASE MakeSplit(r)
    <2>1. /\ Live(r) /\ pc[r] = "mkdir" /\ pc[r] \notin Recovering
          /\ Place(r) /\ kernelFaults \in Nat /\ own[r] \in Changes
      BY <1>2 DEF MakeSplit, At, Recovering, JInv, TypeOK, KindInv, PlaceInv
    <2>2. /\ own'[r] = own[r]
          /\ written' = [written EXCEPT ![r] = ~IsEmpty(own'[r])]
          /\ store' = [store EXCEPT ![pid[r]] = Record(r, own'[r])]
      BY <1>2, <2>1, NoNoteSteps DEF MakeSplit, memory
    <2>3. Steps(r)
      <3>1. pc'[r] \notin Recovering \cup {"new", "dead"}
        BY <1>2, <2>1 DEF MakeSplit, Goto, Recovering, JInv, TypeOK
      <3>2. found' = [found EXCEPT ![r] = found'[r]] /\ UNCHANGED <<who, boot, taken>>
        BY <1>2, <2>1 DEF MakeSplit, host, todo, JInv, TypeOK
      <3> QED
        BY <1>0, <2>1, <2>2, <3>1, <3>2 DEF Steps, Moves
    <2>4. /\ Place(r)' /\ KillStep(r) /\ SplitStep(r)
          /\ kernelFaults' \in {kernelFaults, kernelFaults + 1}
      BY <1>2, <2>1, <2>2 DEF MakeSplit, At, Goto, Changes, Place, KillStep, SplitStep, Keeps,
        KeepsSplit, KernelFault, host, app, todo, JInv, TypeOK
    <2> QED
      BY <2>3, <2>4, StepsKeepKind
  <1>3. CASE RefreshSplit(r)
    <2>1. /\ Live(r) /\ pc[r] = "ready" /\ pc[r] \notin Recovering
          /\ Place(r) /\ kernelFaults \in Nat /\ own[r] \in Changes
      BY <1>3 DEF RefreshSplit, At, Recovering, JInv, TypeOK, KindInv, PlaceInv
    <2>2. /\ own'[r] = own[r]
          /\ written' = [written EXCEPT ![r] = ~IsEmpty(own'[r])]
          /\ store' = [store EXCEPT ![pid[r]] = Record(r, own'[r])]
      BY <1>3, <2>1, NoNoteSteps DEF RefreshSplit, memory
    <2>3. Steps(r)
      <3>1. pc'[r] \notin Recovering \cup {"new", "dead"}
        BY <1>3, <2>1 DEF RefreshSplit, Goto, Recovering, JInv, TypeOK
      <3>2. found' = [found EXCEPT ![r] = found'[r]] /\ UNCHANGED <<who, boot, taken>>
        BY <1>3, <2>1 DEF RefreshSplit, host, todo, JInv, TypeOK
      <3> QED
        BY <1>0, <2>1, <2>2, <3>1, <3>2 DEF Steps, Moves
    <2>4. /\ Place(r)' /\ KillStep(r) /\ SplitStep(r)
          /\ kernelFaults' \in {kernelFaults, kernelFaults + 1}
      BY <1>3, <2>1, <2>2 DEF RefreshSplit, At, Goto, Changes, Place, KillStep, SplitStep, Keeps,
        KeepsSplit, KernelFault, host, app, todo, JInv, TypeOK
    <2> QED
      BY <2>3, <2>4, StepsKeepKind
  <1>4. CASE NothingMoved(r)
    <2>1. /\ Live(r) /\ pc[r] = "move" /\ pc[r] \notin Recovering
          /\ Place(r) /\ kernelFaults \in Nat /\ own[r] \in Changes
      BY <1>4 DEF NothingMoved, At, Recovering, JInv, TypeOK, KindInv, PlaceInv
    <2>2. /\ own'[r] = own[r]
          /\ written' = [written EXCEPT ![r] = ~IsEmpty(own'[r])]
          /\ store' = [store EXCEPT ![pid[r]] = Record(r, own'[r])]
      BY <1>4, <2>1, NoNoteSteps DEF NothingMoved, memory
    <2>3. Steps(r)
      <3>1. pc'[r] \notin Recovering \cup {"new", "dead"}
        BY <1>4, <2>1 DEF NothingMoved, Goto, Recovering, JInv, TypeOK
      <3>2. found' = [found EXCEPT ![r] = found'[r]] /\ UNCHANGED <<who, boot, taken>>
        BY <1>4, <2>1 DEF NothingMoved, host, todo, JInv, TypeOK
      <3> QED
        BY <1>0, <2>1, <2>2, <3>1, <3>2 DEF Steps, Moves
    <2>4. /\ Place(r)' /\ KillStep(r) /\ SplitStep(r)
          /\ kernelFaults' \in {kernelFaults, kernelFaults + 1}
      BY <1>4, <2>1, <2>2 DEF NothingMoved, At, Goto, Changes, Place, KillStep, SplitStep, Keeps,
        KeepsSplit, KernelFault, host, app, todo, JInv, TypeOK
    <2> QED
      BY <2>3, <2>4, StepsKeepKind
  <1>5. CASE NoteHomes(r)
    <2>1. /\ Live(r) /\ pc[r] = "moved" /\ pc[r] \notin Recovering
          /\ Place(r) /\ kernelFaults \in Nat /\ own[r] \in Changes
      BY <1>5 DEF NoteHomes, At, Recovering, JInv, TypeOK, KindInv, PlaceInv
    <2>2. [own[r] EXCEPT !.homes = known[r]] \in Changes /\ Note(r, [own[r] EXCEPT !.homes = known[r]])
      BY <1>5, ChangesOf DEF NoteHomes, JInv
    <2>3. /\ own'[r] = [own[r] EXCEPT !.homes = known[r]]
          /\ written' = [written EXCEPT ![r] = ~IsEmpty(own'[r])]
          /\ store' = [store EXCEPT ![pid[r]] = Record(r, own'[r])]
      BY <2>1, <2>2, NoteSteps
    <2>4. Steps(r)
      <3>1. pc'[r] \notin Recovering \cup {"new", "dead"}
        BY <1>5, <2>1 DEF NoteHomes, Goto, Recovering, JInv, TypeOK
      <3>2. found' = [found EXCEPT ![r] = found'[r]] /\ UNCHANGED <<who, boot, taken>>
        BY <1>5, <2>1 DEF NoteHomes, host, todo, JInv, TypeOK
      <3> QED
        BY <1>0, <2>1, <2>3, <3>1, <3>2 DEF Steps, Moves
    <2>5. /\ Place(r)' /\ KillStep(r) /\ SplitStep(r)
          /\ kernelFaults' \in {kernelFaults, kernelFaults + 1}
      BY <1>5, <2>1, <2>3 DEF NoteHomes, At, Goto, Changes, Place, KillStep, SplitStep, Keeps,
        KeepsSplit, KernelFault, host, app, todo, JInv, TypeOK
    <2> QED
      BY <2>4, <2>5, StepsKeepKind
  <1>6. CASE DisableSplit(r)
    <2>1. /\ Live(r) /\ pc[r] = "ready" /\ pc[r] \notin Recovering
          /\ Place(r) /\ kernelFaults \in Nat /\ own[r] \in Changes
      BY <1>6 DEF DisableSplit, At, Recovering, JInv, TypeOK, KindInv, PlaceInv
    <2>2. /\ own'[r] = own[r]
          /\ written' = [written EXCEPT ![r] = ~IsEmpty(own'[r])]
          /\ store' = [store EXCEPT ![pid[r]] = Record(r, own'[r])]
      BY <1>6, <2>1, NoNoteSteps DEF DisableSplit, memory
    <2>3. Steps(r)
      <3>1. pc'[r] \notin Recovering \cup {"new", "dead"}
        BY <1>6, <2>1 DEF DisableSplit, Goto, Recovering, JInv, TypeOK
      <3>2. found' = [found EXCEPT ![r] = found'[r]] /\ UNCHANGED <<who, boot, taken>>
        BY <1>6, <2>1 DEF DisableSplit, host, todo, JInv, TypeOK
      <3> QED
        BY <1>0, <2>1, <2>2, <3>1, <3>2 DEF Steps, Moves
    <2>4. /\ Place(r)' /\ KillStep(r) /\ SplitStep(r)
          /\ kernelFaults' \in {kernelFaults, kernelFaults + 1}
      BY <1>6, <2>1, <2>2 DEF DisableSplit, At, Goto, Changes, Place, KillStep, SplitStep, Keeps,
        KeepsSplit, KernelFault, host, app, todo, JInv, TypeOK
    <2> QED
      BY <2>3, <2>4, StepsKeepKind
  <1>7. CASE RemoveCgroup(r)
    <2>1. /\ Live(r) /\ pc[r] = "unsplit" /\ pc[r] \notin Recovering
          /\ Place(r) /\ kernelFaults \in Nat /\ own[r] \in Changes
      BY <1>7 DEF RemoveCgroup, At, Recovering, JInv, TypeOK, KindInv, PlaceInv
    <2>2. /\ own'[r] = own[r]
          /\ written' = [written EXCEPT ![r] = ~IsEmpty(own'[r])]
          /\ store' = [store EXCEPT ![pid[r]] = Record(r, own'[r])]
      BY <1>7, <2>1, NoNoteSteps DEF RemoveCgroup, memory
    <2>3. Steps(r)
      <3>1. pc'[r] \notin Recovering \cup {"new", "dead"}
        BY <1>7, <2>1 DEF RemoveCgroup, Goto, Recovering, JInv, TypeOK
      <3>2. found' = [found EXCEPT ![r] = found'[r]] /\ UNCHANGED <<who, boot, taken>>
        BY <1>7, <2>1 DEF RemoveCgroup, host, todo, JInv, TypeOK
      <3> QED
        BY <1>0, <2>1, <2>2, <3>1, <3>2 DEF Steps, Moves
    <2>4. /\ Place(r)' /\ KillStep(r) /\ SplitStep(r)
          /\ kernelFaults' \in {kernelFaults, kernelFaults + 1}
      BY <1>7, <2>1, <2>2 DEF RemoveCgroup, At, Goto, Changes, Place, KillStep, SplitStep, Keeps,
        KeepsSplit, KernelFault, host, app, todo, JInv, TypeOK
    <2> QED
      BY <2>3, <2>4, StepsKeepKind
  <1>8. CASE NoteUnsplit(r)
    <2>1. /\ Live(r) /\ pc[r] = "unsplitted" /\ pc[r] \notin Recovering
          /\ Place(r) /\ kernelFaults \in Nat /\ own[r] \in Changes
      BY <1>8 DEF NoteUnsplit, At, Recovering, JInv, TypeOK, KindInv, PlaceInv
    <2>2. Unsplit(r) \in Changes /\ Note(r, Unsplit(r))
      BY <1>8, ChangesOf DEF NoteUnsplit, JInv
    <2>3. /\ own'[r] = Unsplit(r)
          /\ written' = [written EXCEPT ![r] = ~IsEmpty(own'[r])]
          /\ store' = [store EXCEPT ![pid[r]] = Record(r, own'[r])]
      BY <2>1, <2>2, NoteSteps
    <2>4. Steps(r)
      <3>1. pc'[r] \notin Recovering \cup {"new", "dead"}
        BY <1>8, <2>1 DEF NoteUnsplit, Goto, Recovering, JInv, TypeOK
      <3>2. found' = [found EXCEPT ![r] = found'[r]] /\ UNCHANGED <<who, boot, taken>>
        BY <1>8, <2>1 DEF NoteUnsplit, host, todo, JInv, TypeOK
      <3> QED
        BY <1>0, <2>1, <2>3, <3>1, <3>2 DEF Steps, Moves
    <2>5. /\ Place(r)' /\ KillStep(r) /\ SplitStep(r)
          /\ kernelFaults' \in {kernelFaults, kernelFaults + 1}
      BY <1>8, <2>1, <2>3 DEF NoteUnsplit, At, Goto, Unsplit, Changes, Place, KillStep, SplitStep, Keeps,
        KeepsSplit, KernelFault, host, app, todo, JInv, TypeOK
    <2> QED
      BY <2>4, <2>5, StepsKeepKind
  <1>9. CASE RecoverSplit(r)
    <2>1. /\ Live(r) /\ pc[r] = "recoversplit" /\ pc[r] \notin Recovering
          /\ Place(r) /\ kernelFaults \in Nat /\ own[r] \in Changes
      BY <1>9 DEF RecoverSplit, At, Recovering, JInv, TypeOK, KindInv, PlaceInv
    <2>2. /\ own'[r] = own[r]
          /\ written' = [written EXCEPT ![r] = ~IsEmpty(own'[r])]
          /\ store' = [store EXCEPT ![pid[r]] = Record(r, own'[r])]
      BY <1>9, <2>1, NoNoteSteps DEF RecoverSplit, memory
    <2>3. Steps(r)
      <3>1. pc'[r] \notin Recovering \cup {"new", "dead"}
        BY <1>9, <2>1 DEF RecoverSplit, Goto, Recovering, JInv, TypeOK
      <3>2. found' = [found EXCEPT ![r] = found'[r]] /\ UNCHANGED <<who, boot, taken>>
        <4>1. found' = [found EXCEPT ![r] = [found[r] EXCEPT !.split = FALSE, !.homes = Unknown]]
          BY <1>9 DEF RecoverSplit
        <4> QED
          BY <1>9, <4>1 DEF RecoverSplit, host, JInv, TypeOK
      <3> QED
        BY <1>0, <2>1, <2>2, <3>1, <3>2 DEF Steps, Moves
    <2>4. /\ Place(r)' /\ KillStep(r) /\ SplitStep(r)
          /\ kernelFaults' \in {kernelFaults, kernelFaults + 1}
      BY <1>9, <2>1, <2>2 DEF RecoverSplit, At, Goto, Changes, Place, KillStep, SplitStep, Keeps,
        KeepsSplit, KernelFault, host, app, todo, JInv, TypeOK
    <2> QED
      BY <2>3, <2>4, StepsKeepKind
  <1>10. ASSUME NEW q \in Procs, Move(r, q) PROVE KindInv'
    <2>1. /\ Live(r) /\ pc[r] \in {"move", "moved"} /\ pc[r] \notin Recovering
          /\ Place(r) /\ kernelFaults \in Nat /\ own[r] \in Changes
      BY <1>10 DEF Move, At, Recovering, JInv, TypeOK, KindInv, PlaceInv
    <2>2. /\ own'[r] = own[r]
          /\ written' = [written EXCEPT ![r] = ~IsEmpty(own'[r])]
          /\ store' = [store EXCEPT ![pid[r]] = Record(r, own'[r])]
      BY <1>10, <2>1, NoNoteSteps DEF Move, memory
    <2>3. Steps(r)
      <3>1. pc'[r] \notin Recovering \cup {"new", "dead"}
        BY <1>10, <2>1 DEF Move, Goto, Recovering, JInv, TypeOK
      <3>2. found' = [found EXCEPT ![r] = found'[r]] /\ UNCHANGED <<who, boot, taken>>
        BY <1>10, <2>1 DEF Move, host, todo, JInv, TypeOK
      <3> QED
        BY <1>0, <2>1, <2>2, <3>1, <3>2 DEF Steps, Moves
    <2>4. /\ Place(r)' /\ KillStep(r) /\ SplitStep(r)
          /\ kernelFaults' \in {kernelFaults, kernelFaults + 1}
      BY <1>10, <2>1, <2>2 DEF Move, At, Goto, Changes, Place, KillStep, SplitStep, Keeps,
        KeepsSplit, KernelFault, host, app, todo, JInv, TypeOK
    <2> QED
      BY <2>3, <2>4, StepsKeepKind
  <1>11. ASSUME NEW q \in Procs, RestorePid(r, q) PROVE KindInv'
    <2>1. /\ Live(r) /\ pc[r] = "unsplit" /\ pc[r] \notin Recovering
          /\ Place(r) /\ kernelFaults \in Nat /\ own[r] \in Changes
      BY <1>11 DEF RestorePid, At, Recovering, JInv, TypeOK, KindInv, PlaceInv
    <2>2. /\ own'[r] = own[r]
          /\ written' = [written EXCEPT ![r] = ~IsEmpty(own'[r])]
          /\ store' = [store EXCEPT ![pid[r]] = Record(r, own'[r])]
      BY <1>11, <2>1, NoNoteSteps DEF RestorePid, memory
    <2>3. Steps(r)
      <3>1. pc'[r] \notin Recovering \cup {"new", "dead"}
        BY <1>11, <2>1 DEF RestorePid, At, Recovering, JInv, TypeOK
      <3>2. found' = [found EXCEPT ![r] = found'[r]] /\ UNCHANGED <<who, boot, taken>>
        BY <1>11, <2>1 DEF RestorePid, host, todo, JInv, TypeOK
      <3> QED
        BY <1>0, <2>1, <2>2, <3>1, <3>2 DEF Steps, Moves
    <2>4. /\ Place(r)' /\ KillStep(r) /\ SplitStep(r)
          /\ kernelFaults' \in {kernelFaults, kernelFaults + 1}
      BY <1>11, <2>1, <2>2 DEF RestorePid, At, Goto, Changes, Place, KillStep, SplitStep, Keeps,
        KeepsSplit, KernelFault, host, app, todo, JInv, TypeOK
    <2> QED
      BY <2>3, <2>4, StepsKeepKind
  <1> QED
    BY <1>1, <1>2, <1>3, <1>4, <1>5, <1>6, <1>7, <1>8, <1>9, <1>10, <1>11 DEF SplitNext

-----------------------------------------------------------------------------
(* While the store takes every write: recoveries, deaths and boots. *)

\* Another's record bears what it bore.
LEMMA BearsStay ==
  ASSUME JInv, NEW p \in Pids, store'[p] = store[p], UNCHANGED <<boot, kernelFaults>>,
         \A s \in Runs : life[s] # "new" =>
           /\ born'[s] = born[s]
           /\ Live(s)' => Live(s) /\ (Keeps(s) => Keeps(s)') /\ (KeepsSplit(s) => KeepsSplit(s)')
  PROVE  (Bears(p) => Bears(p)') /\ (BearsSplit(p) => BearsSplit(p)')
  <1>1. SUFFICES ASSUME store[p] # NoRecord
                 PROVE  (Bears(p) => Bears(p)') /\ (BearsSplit(p) => BearsSplit(p)')
    BY DEF Bears, BearsSplit, Standing
  <1>2. store[p].by \in Runs /\ life[store[p].by] # "new"
    BY <1>1 DEF JInv, TypeOK, StoreInv, Records
  <1> QED
    BY <1>2 DEF Bears, BearsSplit, Standing, SameBoot

LEMMA StartKind ==
  ASSUME JInv, Kind, TypeOK', LifeInv', NEW r \in Runs, NEW p \in Pids, Start(r, p)
  PROVE  KindInv'
  <1>1. /\ life[r] = "new" /\ KindInv /\ TypeOK
        /\ UNCHANGED <<chain, cgroup, boot, store, own, written, session, on, found, taken, kernelFaults>>
    BY DEF Start, host, memory, app, todo, JInv
  <1>2. \A s \in Runs \ {r} : /\ life'[s] = life[s] /\ pid'[s] = pid[s] /\ born'[s] = born[s]
                              /\ before'[s] = before[s] /\ pc'[s] = pc[s]
    BY <1>1 DEF Start, Goto, TypeOK
  <1>3. /\ pid'[r] = p /\ pc'[r] = "read" /\ own[r] = Nothing /\ ~written[r]
    BY <1>1 DEF Start, Goto, JInv, TypeOK, LifeInv
  <1>4. OwnInv'
    <2>1. SUFFICES ASSUME NEW s \in Runs, Live(s)' PROVE Owns(s)'
      BY DEF OwnInv
    <2>2. CASE s = r
      <3>1. store[p].by # r
        <4>1. CASE store[p] = NoRecord
          BY <4>1, JournalAssumption DEF NoRecord
        <4>2. CASE store[p] # NoRecord
          BY <1>1, <4>2 DEF JInv, StoreInv
        <4> QED
          BY <4>1, <4>2
      <3>2. written[r] = ~IsEmpty(own[r])
        BY <1>3, <1>1 DEF TypeOK, IsEmpty, Nothing
      <3> QED
        BY <1>1, <1>3, <2>2, <3>1, <3>2 DEF Owns
    <2>3. CASE s # r
      BY <1>1, <1>2, <2>1, <2>3 DEF KindInv, OwnInv, Owns, Live
    <2> QED
      BY <2>2, <2>3
  <1>5. RecoveryInv'
    <2>1. SUFFICES ASSUME NEW s \in Runs, Live(s)' PROVE Recovers(s)'
      BY DEF RecoveryInv
    <2>2. CASE s = r
      BY <1>1, <1>3, <2>2 DEF Recovers, Recovering
    <2>3. CASE s # r
      <3>1. Recovers(s)
        BY <1>1, <1>2, <2>1, <2>3 DEF KindInv, RecoveryInv, Live
      <3>2. ASSUME NEW o \in Pids, Listed(s, o) PROVE Listed(s, o)'
        <4>1. taken[s][o] \in Runs \cup {NoOne} /\ (store[o] # NoRecord => store[o].by \in Runs \ {r})
          BY <1>1 DEF JInv, TypeOK, StoreInv, Records
        <4> QED
          BY <1>1, <1>2, <2>3, <3>2, <4>1, JournalAssumption DEF Listed, SameBoot
      <3> QED
        BY <1>1, <1>2, <2>3, <3>1, <3>2 DEF Recovers, Recovered
    <2> QED
      BY <2>2, <2>3
  <1>6. PlaceInv'
    <2>1. SUFFICES ASSUME NEW s \in Runs, Live(s)' PROVE Place(s)'
      BY DEF PlaceInv
    <2>2. CASE s = r
      BY <1>1, <1>3, <2>2 DEF Place, Nothing
    <2>3. CASE s # r
      BY <1>1, <1>2, <2>1, <2>3 DEF KindInv, PlaceInv, Place, Live
    <2> QED
      BY <2>2, <2>3
  <1>7. \A s \in Runs : life[s] # "new" =>
           /\ born'[s] = born[s]
           /\ Live(s)' => Live(s) /\ (Keeps(s) => Keeps(s)') /\ (KeepsSplit(s) => KeepsSplit(s)')
    BY <1>1, <1>2 DEF Live, Keeps, KeepsSplit
  <1>8. \A o \in Pids : (Bears(o) => Bears(o)') /\ (BearsSplit(o) => BearsSplit(o)')
    BY <1>1, <1>7, BearsStay
  <1> QED
    BY <1>1, <1>4, <1>5, <1>6, <1>8 DEF KindInv, KillInv, SplitInv

LEMMA DieKind ==
  ASSUME JInv, Kind, TypeOK', LifeInv', NEW r \in Runs, Die(r)
  PROVE  KindInv'
  <1>1. /\ KindInv /\ TypeOK
        /\ UNCHANGED <<chain, cgroup, boot, store, pid, born, before, kernelFaults>>
    BY DEF Die, host, JInv
  <1>2. /\ \A s \in Runs \ {r} : /\ life'[s] = life[s] /\ pc'[s] = pc[s] /\ own'[s] = own[s]
                                 /\ written'[s] = written[s] /\ session'[s] = session[s]
                                 /\ on'[s] = on[s] /\ found'[s] = found[s] /\ taken'[s] = taken[s]
        /\ life'[r] = "dead"
    BY DEF Die, Forget
  <1>3. \A s \in Runs : Live(s)' => s # r /\ Live(s)
    BY <1>2 DEF Live
  <1>4. OwnInv'
    BY <1>1, <1>2, <1>3 DEF KindInv, OwnInv, Owns
  <1>5. RecoveryInv'
    <2>1. SUFFICES ASSUME NEW s \in Runs, Live(s)' PROVE Recovers(s)'
      BY DEF RecoveryInv
    <2>2. Recovers(s) /\ s # r
      BY <1>1, <1>3, <2>1 DEF KindInv, RecoveryInv
    <2>3. ASSUME NEW o \in Pids, Listed(s, o) PROVE Listed(s, o)'
      <3>1. taken[s][o] \in Runs \cup {NoOne}
        BY <1>1 DEF TypeOK
      <3> QED
        BY <1>1, <1>2, <2>2, <2>3, <3>1 DEF Listed, SameBoot
    <2> QED
      BY <1>1, <1>2, <2>2, <2>3 DEF Recovers, Recovered
  <1>6. PlaceInv'
    BY <1>1, <1>2, <1>3 DEF KindInv, PlaceInv, Place
  <1>7. \A s \in Runs : life[s] # "new" =>
           /\ born'[s] = born[s]
           /\ Live(s)' => Live(s) /\ (Keeps(s) => Keeps(s)') /\ (KeepsSplit(s) => KeepsSplit(s)')
    BY <1>1, <1>2, <1>3 DEF Keeps, KeepsSplit
  <1>8. \A o \in Pids : (Bears(o) => Bears(o)') /\ (BearsSplit(o) => BearsSplit(o)')
    BY <1>1, <1>7, BearsStay
  <1> QED
    BY <1>1, <1>4, <1>5, <1>6, <1>8 DEF KindInv, KillInv, SplitInv

LEMMA RebootKind ==
  ASSUME Reboot
  PROVE  KindInv'
  <1>1. chain' = NoOne /\ ~cgroup' /\ \A s \in Runs : ~Live(s)'
    BY DEF Reboot, Forget, Live
  <1> QED
    BY <1>1 DEF KindInv, OwnInv, RecoveryInv, PlaceInv, KillInv, SplitInv

\* Another run's list, when p's record becomes r's own or goes.
LEMMA OthersStay ==
  ASSUME JInv, NEW r \in Runs, Live(r), NEW s \in Runs \ {r}, Live(s),
         NEW p \in Pids, UNCHANGED <<life, pid, born, before, boot>>,
         UNCHANGED <<pc[s], own[s], written[s], found[s], taken[s]>>,
         \A o \in Pids \ {p} : store'[o] = store[o],
         \/ p = pid[r] /\ store'[p].by = r
         \/ store'[p] = NoRecord /\ store[p].by \notin {u \in Runs : Live(u)},
         KindInv
  PROVE  Owns(s)' /\ Recovers(s)'
  <1>1. /\ pid[s] \in Pids /\ pid[s] # pid[r] /\ NoOne \notin Runs
        /\ \A u \in before[s] : u \in Runs /\ life[u] = "dead"
        /\ Owns(s) /\ Recovers(s)
    BY JournalAssumption DEF JInv, TypeOK, LifeInv, KindInv, OwnInv, RecoveryInv, Live
  <1>2. r \notin before[s] /\ NoOne \notin before[s]
    BY <1>1 DEF Live
  <1>3. Owns(s)'
    <2>1. CASE store'[pid[s]] = store[pid[s]]
      BY <1>1, <2>1 DEF Owns
    <2>2. CASE p = pid[s]
      <3>1. ~written[s] /\ store'[pid[s]].by = NoOne
        BY <1>1, <2>2 DEF Owns, NoRecord
      <3> QED
        BY <1>1, <3>1 DEF Owns
    <2> QED
      BY <1>1, <2>1, <2>2
  <1>4. ASSUME NEW o \in Pids, Listed(s, o) PROVE Listed(s, o)'
    <2>1. CASE o # p
      BY <1>4, <2>1 DEF Listed, SameBoot
    <2>2. CASE o = p /\ p = pid[r] /\ store'[p].by = r
      <3>1. taken[s][o] # r
        BY <1>1, <1>4 DEF Listed, Live
      <3> QED
        BY <1>1, <1>2, <1>4, <2>2, <3>1 DEF Listed
    <2>3. CASE o = p /\ store'[p] = NoRecord
      BY <1>1, <1>2, <1>4, <2>3 DEF Listed, NoRecord
    <2> QED
      BY <2>1, <2>2, <2>3
  <1>5. Recovered(s) => Recovered(s)'
    <2>1. store'[p].by \in {r, NoOne} /\ (store'[pid[s]] = store[pid[s]] \/ store'[pid[s]] = NoRecord)
      BY <1>1 DEF NoRecord
    <2> QED
      BY <1>1, <1>2, <2>1 DEF Recovered
  <1> QED
    BY <1>1, <1>3, <1>4, <1>5 DEF Recovers

LEMMA ReadKind ==
  ASSUME JInv, Kind, TypeOK', LifeInv', NEW r \in Runs, Read(r)
  PROVE  KindInv'
  <1>1. /\ KindInv /\ TypeOK /\ LifeInv /\ StoreInv /\ Live(r) /\ pc[r] = "read" /\ pid[r] \in Pids
        /\ UNCHANGED <<life, pid, born, before, chain, cgroup, boot, store, own, written, session, on, kernelFaults>>
    BY DEF Read, At, JInv, host, who, app, memory, LifeInv, Live
  <1>2. /\ \A s \in Runs \ {r} : pc'[s] = pc[s] /\ found'[s] = found[s] /\ taken'[s] = taken[s]
        /\ pc'[r] = "takeover"
        /\ taken'[r] = [p \in Pids |-> IF p \in Dropped THEN store[p].by ELSE NoOne]
        /\ found'[r].kill = \E p \in Orphaned : store[p].what.kill
        /\ found'[r].split = \E p \in Orphaned : store[p].what.split
    BY <1>1 DEF Read, Goto, TypeOK
  <1>3. OwnInv'
    BY <1>1 DEF KindInv, OwnInv, Owns, Live
  <1>4. ASSUME NEW p \in Pids PROVE Listed(r, p)'
    <2>1. CASE store[p] = NoRecord
      <3>1. store[p].by = NoOne /\ taken'[r][p] = NoOne /\ NoOne \notin before[r]
        BY <1>1, <1>2, <2>1, JournalAssumption DEF Dropped, NoRecord, TypeOK
      <3> QED
        BY <1>1, <2>1, <3>1 DEF Listed
    <2>2. CASE store[p] # NoRecord
      <3>1. /\ store[p].by \in Runs /\ pid[store[p].by] = p /\ life[store[p].by] \in {"live", "dead"}
            /\ taken'[r][p] \in {store[p].by, NoOne} /\ NoOne \notin Runs
        BY <1>1, <1>2, <2>2, JournalAssumption DEF TypeOK, StoreInv, Records
      <3>2. Kept(p) <=> Live(store[p].by)
        BY <1>1, <2>2, <3>1 DEF Kept, SameBoot, ProcessAlive, LifeInv
      <3>3. taken'[r][p] # NoOne <=> life[store[p].by] = "dead"
        BY <1>2, <2>2, <3>1, <3>2 DEF Dropped, Live
      <3>4. taken'[r][p] = store[p].by /\ SameBoot(p) =>
              (store[p].what.kill => found'[r].kill) /\ (store[p].what.split => found'[r].split)
        BY <1>2, <2>2, <3>1, <3>3 DEF Orphaned, ProcessAlive, Live
      <3>5. p = pid[r] => store[p].by = r \/ taken'[r][p] = store[p].by
        BY <1>1, <3>1, <3>3 DEF LifeInv, Live
      <3>6. store[p].by \in before[r] => taken'[r][p] = store[p].by
        BY <1>1, <3>1, <3>3 DEF LifeInv
      <3> QED
        BY <1>1, <3>1, <3>3, <3>4, <3>5, <3>6 DEF Listed, SameBoot
    <2> QED
      BY <2>1, <2>2
  <1>5. RecoveryInv'
    <2>1. SUFFICES ASSUME NEW s \in Runs, Live(s) PROVE Recovers(s)'
      BY <1>1 DEF RecoveryInv, Live
    <2>2. Recovers(s)
      BY <1>1, <2>1 DEF KindInv, RecoveryInv
    <2>3. CASE s = r
      BY <1>1, <1>2, <1>4, <2>2, <2>3 DEF Recovers, Recovering
    <2>4. CASE s # r
      BY <1>1, <1>2, <2>2, <2>4 DEF Recovers, Recovered, Listed, SameBoot
    <2> QED
      BY <2>3, <2>4
  <1>6. PlaceInv'
    <2>1. SUFFICES ASSUME NEW s \in Runs, Live(s) PROVE Place(s)'
      BY <1>1 DEF PlaceInv, Live
    <2>2. CASE s = r
      BY <1>1, <1>2, <2>2 DEF Place, Nothing, KindInv, RecoveryInv, Recovers
    <2>3. CASE s # r
      BY <1>1, <1>2, <2>1, <2>3 DEF KindInv, PlaceInv, Place
    <2> QED
      BY <2>2, <2>3
  <1>7. \A s \in Runs : life[s] # "new" =>
           /\ born'[s] = born[s]
           /\ Live(s)' => Live(s) /\ (Keeps(s) => Keeps(s)') /\ (KeepsSplit(s) => KeepsSplit(s)')
    BY <1>1, <1>2 DEF Live, Keeps, KeepsSplit
  <1>8. \A o \in Pids : (Bears(o) => Bears(o)') /\ (BearsSplit(o) => BearsSplit(o)')
    BY <1>1, <1>7, BearsStay
  <1> QED
    BY <1>1, <1>3, <1>5, <1>6, <1>8 DEF KindInv, KillInv, SplitInv

\* The record under its own pid that r replaces is one it has read, so what that
\* one bore, r's own bears.
LEMMA TakeOverKind ==
  ASSUME JInv, Kind, TypeOK', LifeInv', NEW r \in Runs, TakeOver(r), storeFaults' = 0
  PROVE  KindInv'
  <1>1. /\ KindInv /\ TypeOK /\ LifeInv /\ StoreInv /\ Live(r) /\ pc[r] = "takeover"
        /\ pid[r] \in Pids /\ NoOne \notin Runs /\ found[r] \in Changes /\ born[r] = boot
        /\ UNCHANGED <<life, pid, born, before, chain, cgroup, boot, session, on, found, taken, kernelFaults>>
    BY JournalAssumption DEF TakeOver, At, JInv, host, who, app, todo, LifeInv, Live, TypeOK
  <1>2. pc' = [pc EXCEPT ![r] = "drop"] /\ pc'[r] = "drop" /\ \A s \in Runs \ {r} : pc'[s] = pc[s]
    BY <1>1 DEF TakeOver, Goto, TypeOK
  <1>3. own[r] = Nothing /\ ~written[r] /\ Owns(r) /\ \A p \in Pids : Listed(r, p)
    <2>1. Owns(r) /\ Recovers(r)
      BY <1>1 DEF KindInv, OwnInv, RecoveryInv
    <2>2. own[r] = Nothing /\ \A p \in Pids : Listed(r, p)
      BY <1>1, <2>1 DEF Recovers
    <2>3. IsEmpty(own[r])
      BY <2>2 DEF IsEmpty, Nothing
    <2>4. ~written[r]
      BY <2>1, <2>3 DEF Owns
    <2> QED
      BY <2>1, <2>2, <2>4
  <1>4. /\ own'[r].kill = found[r].kill /\ own'[r].split = found[r].split
        /\ written'[r] = ~IsEmpty(found[r])
        /\ ~IsEmpty(found[r]) => store' = [store EXCEPT ![pid[r]] = [by |-> r, what |-> own'[r]]]
        /\ IsEmpty(found[r]) => store' = store
        /\ \A s \in Runs \ {r} : own'[s] = own[s] /\ written'[s] = written[s]
    <2>1. CASE IsEmpty(found[r])
      <3>1. UNCHANGED <<own, written, store>>
        BY <2>1 DEF TakeOver
      <3>2. ~found[r].kill /\ ~found[r].split
        BY <2>1 DEF IsEmpty
      <3> QED
        BY <1>1, <1>3, <2>1, <3>1, <3>2 DEF Nothing, Changes, TypeOK
    <2>2. CASE ~IsEmpty(found[r])
      <3>1. Note(r, Takeover(r)) /\ ~StoreFault
        BY <2>2 DEF TakeOver, Kind, StoreFault
      <3>2. Takeover(r).kill = found[r].kill /\ Takeover(r).split = found[r].split
        BY <1>1, <1>3 DEF Takeover, Nothing, Changes
      <3>3. ~IsEmpty(Takeover(r))
        BY <2>2, <3>2 DEF IsEmpty
      <3>4. own' = [own EXCEPT ![r] = Takeover(r)] /\ own'[r] = Takeover(r)
        BY <1>1, <3>1 DEF Note, TypeOK
      <3>5. /\ store' = [store EXCEPT ![pid[r]] = [by |-> r, what |-> Takeover(r)]]
            /\ written' = [written EXCEPT ![r] = TRUE]
        BY <3>1, <3>3 DEF Note
      <3>6. \A s \in Runs \ {r} : own'[s] = own[s] /\ written'[s] = written[s]
        BY <3>4, <3>5
      <3>7. written'[r]
        BY <1>1, <3>5 DEF TypeOK
      <3> QED
        BY <2>2, <3>2, <3>4, <3>5, <3>6, <3>7
    <2> QED
      BY <2>1, <2>2
  <1>5. IsEmpty(own'[r]) <=> IsEmpty(found[r])
    BY <1>4 DEF IsEmpty
  <1>6. /\ \A p \in Pids \ {pid[r]} : store'[p] = store[p]
        /\ ~IsEmpty(found[r]) => store'[pid[r]] = [by |-> r, what |-> own'[r]] /\ store'[pid[r]] # NoRecord
    BY <1>1, <1>4 DEF TypeOK, NoRecord
  <1>7. Owns(r)' /\ Recovers(r)'
    <2>1. Owns(r)'
      BY <1>1, <1>3, <1>4, <1>5, <1>6 DEF Owns
    <2>2. ASSUME NEW p \in Pids PROVE Listed(r, p)'
      <3>1. CASE store'[p] = store[p]
        BY <1>1, <1>3, <3>1 DEF Listed, SameBoot
      <3>2. CASE p = pid[r] /\ ~IsEmpty(found[r])
        <4>1. store'[p].by = r /\ taken[r][p] # r /\ r \notin before[r]
          BY <1>1, <1>3, <1>6, <3>2 DEF Listed, LifeInv, Live
        <4>2. taken[r][p] # NoOne => life[taken[r][p]] = "dead"
          BY <1>3 DEF Listed
        <4> QED
          BY <1>1, <3>2, <4>1, <4>2 DEF Listed
      <3> QED
        BY <1>4, <1>6, <3>1, <3>2
    <2> QED
      BY <1>1, <1>2, <1>4, <2>1, <2>2 DEF Recovers, Recovering
  <1>8. ASSUME NEW s \in Runs \ {r}, Live(s) PROVE Owns(s)' /\ Recovers(s)'
    <2>1. CASE IsEmpty(found[r])
      <3>1. Owns(s) /\ Recovers(s) /\ UNCHANGED store
        BY <1>1, <1>4, <1>8, <2>1 DEF KindInv, OwnInv, RecoveryInv
      <3> QED
        BY <1>1, <1>2, <1>4, <1>8, <3>1 DEF Owns, Recovers, Recovered, Listed, SameBoot
    <2>2. CASE ~IsEmpty(found[r])
      <3>1. store'[pid[r]].by = r
        BY <1>6, <2>2
      <3> QED
        BY <1>1, <1>2, <1>4, <1>6, <1>8, <3>1, OthersStay
    <2> QED
      BY <2>1, <2>2
  <1>9. PlaceInv'
    <2>1. SUFFICES ASSUME NEW s \in Runs, Live(s) PROVE Place(s)'
      BY <1>1 DEF PlaceInv, Live
    <2>2. CASE s = r
      BY <1>1, <1>2, <1>4, <2>2 DEF Place
    <2>3. CASE s # r
      BY <1>1, <1>2, <1>4, <2>1, <2>3 DEF KindInv, PlaceInv, Place
    <2> QED
      BY <2>2, <2>3
  <1>10. \A s \in Runs : life[s] # "new" =>
           /\ born'[s] = born[s]
           /\ Live(s)' => Live(s) /\ (Keeps(s) => Keeps(s)') /\ (KeepsSplit(s) => KeepsSplit(s)')
    BY <1>1, <1>2 DEF Live, Keeps, KeepsSplit
  <1>11. ASSUME NEW p \in Pids
         PROVE  (Bears(p) => Bears(p)') /\ (BearsSplit(p) => BearsSplit(p)')
    <2>1. CASE store'[p] = store[p]
      BY <1>1, <1>10, <2>1, BearsStay
    <2>2. CASE p = pid[r] /\ ~IsEmpty(found[r])
      <3>1. /\ Standing(p)' /\ store'[p].by = r /\ store'[p].what = own'[r]
            /\ Keeps(r)' /\ KeepsSplit(r)'
        BY <1>1, <1>2, <1>6, <2>2 DEF Standing, SameBoot, Keeps, KeepsSplit
      <3>2. Standing(p) => (store[p].what.kill => found[r].kill) /\ (store[p].what.split => found[r].split)
        BY <1>3, <2>2 DEF Standing, Listed, Owns
      <3> QED
        BY <1>4, <3>1, <3>2 DEF Bears, BearsSplit
    <2> QED
      BY <1>4, <1>6, <2>1, <2>2
  <1>12. OwnInv' /\ RecoveryInv'
    BY <1>1, <1>7, <1>8 DEF OwnInv, RecoveryInv, Live
  <1> QED
    BY <1>1, <1>9, <1>11, <1>12 DEF KindInv, KillInv, SplitInv

\* The record r drops is a dead run's, whose changes r's own record holds.
LEMMA DropKind ==
  ASSUME JInv, Kind, TypeOK', LifeInv', NEW r \in Runs, NEW p \in Pids, Drop(r, p), Kind'
  PROVE  KindInv'
  <1>1. /\ KindInv /\ TypeOK /\ LifeInv /\ StoreInv /\ Live(r) /\ pc[r] = "drop"
        /\ pid[r] \in Pids /\ NoOne \notin Runs /\ born[r] = boot
        /\ UNCHANGED <<life, pid, born, before, chain, cgroup, boot, session, on, found, pc, own, written, kernelFaults>>
    BY JournalAssumption DEF Drop, At, JInv, host, who, app, memory, LifeInv, Live, TypeOK
  <1>2. /\ Owns(r) /\ \A o \in Pids : Listed(r, o)
        /\ own[r].kill = found[r].kill /\ own[r].split = found[r].split
    BY <1>1 DEF KindInv, OwnInv, RecoveryInv, Recovers
  <1>3. /\ taken[r][p] # NoOne /\ life[taken[r][p]] = "dead" /\ taken'[r][p] = NoOne
        /\ \A o \in Pids \ {p} : taken'[r][o] = taken[r][o]
        /\ \A s \in Runs \ {r} : taken'[s] = taken[s]
    BY <1>1, <1>2 DEF Drop, TypeOK, Listed
  <1>4. ~IsEmpty(own[r]) <=> ~IsEmpty(found[r])
    BY <1>2 DEF IsEmpty
  <1>5. CASE Replaced(r, p)
    <2>1. store' = store /\ p = pid[r] /\ store[p].by = r /\ store[p] # NoRecord
      <3>1. store' = store /\ p = pid[r] /\ ~IsEmpty(own[r])
        BY <1>4, <1>5 DEF Drop, Replaced
      <3>2. store[p] = [by |-> r, what |-> own[r]]
        BY <1>2, <3>1 DEF Owns
      <3> QED
        BY <1>1, <3>1, <3>2 DEF NoRecord
    <2>2. \A o \in Pids : Listed(r, o)'
      BY <1>1, <1>2, <1>3, <2>1 DEF Listed, SameBoot, LifeInv, Live
    <2>3. OwnInv'
      BY <1>1, <2>1 DEF KindInv, OwnInv, Owns, Live
    <2>4. RecoveryInv'
      <3>1. SUFFICES ASSUME NEW s \in Runs, Live(s) PROVE Recovers(s)'
        BY <1>1 DEF RecoveryInv, Live
      <3>2. Recovers(s)
        BY <1>1, <3>1 DEF KindInv, RecoveryInv
      <3> QED
        BY <1>1, <1>3, <2>1, <2>2, <3>2 DEF Recovers, Recovered, Recovering, Listed, SameBoot
    <2>5. PlaceInv' /\ KillInv' /\ SplitInv'
      BY <1>1, <2>1 DEF KindInv, PlaceInv, Place, KillInv, SplitInv, Bears, BearsSplit, Standing, SameBoot,
        Keeps, KeepsSplit, Live
    <2> QED
      BY <2>3, <2>4, <2>5 DEF KindInv
  <1>6. CASE ~Replaced(r, p)
    <2>1. store' = [store EXCEPT ![p] = NoRecord] /\ store[p].by \in {taken[r][p], r, NoOne}
      BY <1>6 DEF Drop, Kind, StoreFault, JInv, TypeOK
    <2>2. store'[p] = NoRecord /\ \A o \in Pids \ {p} : store'[o] = store[o]
      BY <1>1, <2>1 DEF TypeOK
    <2>3. store[p].by # r
      <3>1. CASE IsEmpty(found[r])
        <4>1. ~written[r]
          BY <1>2, <1>4, <3>1 DEF Owns
        <4>2. store[p].by = r => p = pid[r]
          BY <1>1 DEF StoreInv, NoRecord
        <4> QED
          BY <1>2, <4>1, <4>2 DEF Owns
      <3>2. CASE p # pid[r]
        BY <1>1, <3>2 DEF StoreInv, NoRecord
      <3> QED
        BY <1>6, <3>1, <3>2 DEF Replaced
    <2>4. store[p].by \notin {s \in Runs : Live(s)}
      BY <1>1, <1>3, <2>1, <2>3 DEF Live
    <2>5. Owns(r)' /\ Recovers(r)'
      <3>1. Owns(r)'
        <4>1. p = pid[r] => ~written[r]
          BY <1>2, <2>3 DEF Owns
        <4> QED
          BY <1>1, <1>2, <2>2, <4>1 DEF Owns, NoRecord
      <3>2. ASSUME NEW o \in Pids PROVE Listed(r, o)'
        <4>1. CASE o = p
          <5>1. NoOne \notin before[r]
            BY <1>1 DEF TypeOK
          <5> QED
            BY <1>1, <1>3, <2>2, <4>1, <5>1 DEF Listed, NoRecord
        <4>2. CASE o # p
          BY <1>1, <1>2, <1>3, <2>2, <4>2 DEF Listed, SameBoot
        <4> QED
          BY <4>1, <4>2
      <3> QED
        BY <1>1, <1>2, <3>1, <3>2 DEF Recovers, Recovering
    <2>6. ASSUME NEW s \in Runs \ {r}, Live(s) PROVE Owns(s)' /\ Recovers(s)'
      BY <1>1, <1>3, <2>2, <2>4, <2>6, OthersStay
    <2>7. \A s \in Runs : life[s] # "new" =>
             /\ born'[s] = born[s]
             /\ Live(s)' => Live(s) /\ (Keeps(s) => Keeps(s)') /\ (KeepsSplit(s) => KeepsSplit(s)')
      BY <1>1 DEF Live, Keeps, KeepsSplit
    <2>8. \A o \in Pids \ {p} : (Bears(o) => Bears(o)') /\ (BearsSplit(o) => BearsSplit(o)')
      BY <1>1, <2>2, <2>7, BearsStay
    <2>9. ASSUME own[r].kill \/ own[r].split
          PROVE  /\ p # pid[r] /\ store'[pid[r]].what = own[r] /\ store'[pid[r]].by = r /\ Standing(pid[r])'
                 /\ Keeps(r)' /\ KeepsSplit(r)'
      <3>1. ~IsEmpty(own[r]) /\ p # pid[r]
        BY <1>4, <1>6, <2>9 DEF IsEmpty, Replaced
      <3>2. store'[pid[r]] = [by |-> r, what |-> own[r]] /\ store'[pid[r]] # NoRecord
        <4>1. store[pid[r]] = [by |-> r, what |-> own[r]]
          BY <1>2, <3>1 DEF Owns
        <4>2. store'[pid[r]] = store[pid[r]]
          BY <1>1, <2>2, <3>1
        <4> QED
          BY <1>1, <4>1, <4>2 DEF NoRecord
      <3> QED
        BY <1>1, <3>1, <3>2 DEF Standing, SameBoot, Keeps, KeepsSplit
    <2>10. Standing(p) => (store[p].what.kill => own[r].kill) /\ (store[p].what.split => own[r].split)
      <3>1. Standing(p) => store[p] # NoRecord /\ SameBoot(p) /\ store[p].by \in Runs
        BY <1>1 DEF Standing, TypeOK, Records
      <3> QED
        BY <1>1, <1>2, <2>1, <2>3, <3>1 DEF Listed
    <2>11. KillInv' /\ SplitInv'
      <3>1. Bears(p) => own[r].kill
        BY <2>10 DEF Bears
      <3>2. BearsSplit(p) => own[r].split
        BY <2>10 DEF BearsSplit
      <3>3. own[r].kill => \E o \in Pids : Bears(o)'
        BY <1>1, <2>9 DEF Bears
      <3>4. own[r].split => \E o \in Pids : BearsSplit(o)'
        BY <1>1, <2>9 DEF BearsSplit
      <3> QED
        BY <1>1, <2>8, <3>1, <3>2, <3>3, <3>4 DEF KindInv, KillInv, SplitInv
    <2>12. OwnInv' /\ RecoveryInv' /\ PlaceInv'
      BY <1>1, <2>5, <2>6 DEF OwnInv, RecoveryInv, KindInv, PlaceInv, Place, Live
    <2> QED
      BY <2>11, <2>12 DEF KindInv
  <1> QED
    BY <1>5, <1>6

LEMMA DroppingKind ==
  ASSUME JInv, Kind, TypeOK', LifeInv', NEW r \in Runs, Dropping(r)
  PROVE  KindInv'
  <1>1. /\ KindInv /\ TypeOK /\ LifeInv /\ Live(r) /\ pc[r] = "drop" /\ pid[r] \in Pids /\ NoOne \notin Runs
        /\ UNCHANGED <<life, pid, born, before, chain, cgroup, boot, store, session, on, found, taken, own,
                       written, kernelFaults>>
    BY JournalAssumption DEF Dropping, At, JInv, host, who, app, memory, todo, LifeInv, Live
  <1>2. /\ pc'[r] = IF found[r].kill THEN "unkill" ELSE IF found[r].split THEN "recoversplit" ELSE "ready"
        /\ \A s \in Runs \ {r} : pc'[s] = pc[s]
    BY <1>1 DEF Dropping, Onward, Goto, TypeOK
  <1>3. Recovers(r) /\ \A p \in Pids : Listed(r, p) /\ taken[r][p] = NoOne
    BY <1>1 DEF KindInv, RecoveryInv, Recovers, Dropping, NoneTaken
  <1>4. Recovered(r)
    <2>1. NoOne \notin before[r]
      BY <1>1 DEF TypeOK
    <2>2. \A p \in Pids : store[p] # NoRecord => store[p].by \in Runs
      BY <1>1 DEF TypeOK, Records
    <2> QED
      BY <1>1, <1>3, <2>1, <2>2 DEF Listed, Recovered
  <1>5. RecoveryInv'
    <2>1. SUFFICES ASSUME NEW s \in Runs, Live(s) PROVE Recovers(s)'
      BY <1>1 DEF RecoveryInv, Live
    <2>2. CASE s = r
      BY <1>1, <1>2, <1>4, <2>2 DEF Recovers, Recovered, Recovering
    <2>3. CASE s # r
      <3>1. Recovers(s)
        BY <1>1, <2>1 DEF KindInv, RecoveryInv
      <3> QED
        BY <1>1, <1>2, <2>3, <3>1 DEF Recovers, Recovered, Listed, SameBoot
    <2> QED
      BY <2>2, <2>3
  <1>6. PlaceInv'
    <2>1. SUFFICES ASSUME NEW s \in Runs, Live(s) PROVE Place(s)'
      BY <1>1 DEF PlaceInv, Live
    <2>2. CASE s = r
      BY <1>1, <1>2, <1>3, <2>2 DEF Place, Recovers
    <2>3. CASE s # r
      BY <1>1, <1>2, <2>1, <2>3 DEF KindInv, PlaceInv, Place
    <2> QED
      BY <2>2, <2>3
  <1>7. \A s \in Runs : life[s] # "new" =>
           /\ born'[s] = born[s]
           /\ Live(s)' => Live(s) /\ (Keeps(s) => Keeps(s)') /\ (KeepsSplit(s) => KeepsSplit(s)')
    BY <1>1, <1>2 DEF Live, Keeps, KeepsSplit
  <1>8. \A o \in Pids : (Bears(o) => Bears(o)') /\ (BearsSplit(o) => BearsSplit(o)')
    BY <1>1, <1>7, BearsStay
  <1>9. OwnInv'
    BY <1>1 DEF KindInv, OwnInv, Owns, Live
  <1> QED
    BY <1>1, <1>5, <1>6, <1>8, <1>9 DEF KindInv, KillInv, SplitInv

-----------------------------------------------------------------------------
\* Once a write has failed, or a pid has come round, it has.
LEMMA KindWas ==
  ASSUME TypeOK, [Next]_vars, Kind'
  PROVE  Kind
  <1>1. ASSUME StoreFault PROVE storeFaults' # 0
    BY <1>1 DEF StoreFault, TypeOK
  <1>2. (storeFaults' = storeFaults \/ StoreFault) /\ (clash => clash')
    <2>1. ASSUME NEW r \in Runs, RecoverNext(r)
          PROVE  (storeFaults' = storeFaults \/ StoreFault) /\ (clash => clash')
      <3>1. CASE \E p \in Pids : Start(r, p) \/ Drop(r, p)
        BY <3>1 DEF Start, Drop, TypeOK
      <3>2. CASE TakeOver(r)
        BY <3>2 DEF TakeOver, Note
      <3>3. CASE Read(r) \/ ReadFails(r) \/ Dropping(r) \/ RecoverSplit(r)
        BY <3>3 DEF Read, ReadFails, Dropping, RecoverSplit
      <3> QED
        BY <2>1, <3>1, <3>2, <3>3 DEF RecoverNext
    <2>2. \A r \in Runs : KillSwitchNext(r) => (storeFaults' = storeFaults \/ StoreFault) /\ (clash => clash')
      BY DEF KillSwitchNext, EnableKillSwitch, ReplaceChain, NoteRefused, Release, RemoveChain, NoteUnkilled, Note
    <2>3. \A r \in Runs : SplitNext(r) => (storeFaults' = storeFaults \/ StoreFault) /\ (clash => clash')
      BY DEF SplitNext, EnableSplit, MakeSplit, RefreshSplit, NothingMoved, NoteHomes, DisableSplit, RemoveCgroup,
        NoteUnsplit, Move, RestorePid, Note
    <2>4. \A r \in Runs : Die(r) => storeFaults' = storeFaults /\ (clash => clash')
      BY DEF Die
    <2>5. Reboot => storeFaults' = storeFaults /\ (clash => clash')
      BY DEF Reboot
    <2> QED
      BY <2>1, <2>2, <2>3, <2>4, <2>5 DEF Next, vars
  <1> QED
    BY <1>1, <1>2 DEF Kind

LEMMA JournalStep == JInv /\ [Next]_vars => JInv'
  <1> SUFFICES ASSUME JInv, [Next]_vars PROVE JInv'
    OBVIOUS
  <1>1. TypeOK' /\ LifeInv' /\ StoreInv'
    BY AlwaysKept DEF JInv
  <1>2. ASSUME Kind' PROVE KindInv'
    <2>1. Kind /\ storeFaults' = 0
      BY <1>2, KindWas DEF JInv, Kind
    <2>2. ASSUME NEW r \in Runs, RecoverNext(r) PROVE KindInv'
      <3>1. ASSUME NEW p \in Pids, Start(r, p) PROVE KindInv'
        BY <1>1, <2>1, <3>1, StartKind
      <3>2. ASSUME NEW p \in Pids, Drop(r, p) PROVE KindInv'
        BY <1>1, <1>2, <2>1, <3>2, DropKind
      <3>3. CASE Read(r)
        BY <1>1, <2>1, <3>3, ReadKind
      <3>4. CASE ReadFails(r)
        BY <2>1, <3>4 DEF ReadFails, StoreFault, JInv, TypeOK
      <3>5. CASE TakeOver(r)
        BY <1>1, <2>1, <3>5, TakeOverKind
      <3>6. CASE Dropping(r)
        BY <1>1, <2>1, <3>6, DroppingKind
      <3>7. CASE RecoverSplit(r)
        BY <1>1, <2>1, <3>7, SplitKind
      <3> QED
        BY <2>2, <3>1, <3>2, <3>3, <3>4, <3>5, <3>6, <3>7 DEF RecoverNext
    <2>3. ASSUME NEW r \in Runs, KillSwitchNext(r) \/ SplitNext(r) PROVE KindInv'
      BY <1>1, <2>1, <2>3, KillSwitchKind, SplitKind
    <2>4. ASSUME NEW r \in Runs, Die(r) PROVE KindInv'
      BY <1>1, <2>1, <2>4, DieKind
    <2>5. CASE Reboot
      BY <2>5, RebootKind
    <2>6. CASE UNCHANGED vars
      <3>1. KindInv
        BY <2>1 DEF JInv
      <3>2. OwnInv' /\ RecoveryInv' /\ PlaceInv'
        BY <2>6, <3>1 DEF vars, host, who, memory, app, todo, KindInv, OwnInv, Owns, RecoveryInv, Recovers,
          Recovered, Listed, SameBoot, PlaceInv, Place, Live
      <3>3. KillInv' /\ SplitInv'
        BY <2>6, <3>1 DEF vars, host, who, memory, app, todo, KindInv, KillInv, SplitInv, Bears, BearsSplit,
          Standing, SameBoot, Keeps, KeepsSplit, Live
      <3> QED
        BY <3>2, <3>3 DEF KindInv
    <2> QED
      BY <2>2, <2>3, <2>4, <2>5, <2>6 DEF Next
  <1> QED
    BY <1>1, <1>2 DEF JInv

-----------------------------------------------------------------------------
(* The theorems. *)

THEOREM JournalInvariance == Spec => []JInv
  BY JournalInit, JournalStep, PTL DEF Spec

\* The variables keep their types, whatever is refused, lost or killed.
THEOREM JournalTypes == Spec => []TypeOK
  <1>1. JInv => TypeOK
    BY DEF JInv
  <1> QED
    BY <1>1, JournalInvariance, PTL

\* A kill switch on the host is named by a record that the next run takes over,
\* whatever dies between two steps and whoever has it then.
THEOREM KillSwitchIsRemembered == Spec => []KillSwitchRemembered
  <1>1. JInv => KillSwitchRemembered
    BY DEF JInv, KindInv, KillInv, KillSwitchRemembered, Bears
  <1> QED
    BY <1>1, JournalInvariance, PTL

\* So is the split's cgroup, however often the kernel refuses.
THEOREM SplitIsRemembered == Spec => []SplitRemembered
  <1>1. JInv => SplitRemembered
    BY DEF JInv, KindInv, SplitInv, SplitRemembered, BearsSplit
  <1> QED
    BY <1>1, JournalInvariance, PTL

\* A run at rest has its own record in the store, and under its pid nobody
\* else's: what it took over and dropped, no other record suffers for.
THEOREM RecordsAreTrue == Spec => []RecordIsTrue
  <1>1. JInv => RecordIsTrue
    BY DEF JInv, KindInv, OwnInv, Owns, RecoveryInv, Recovers, Recovered, Recovering, RecordIsTrue, At
  <1> QED
    BY <1>1, JournalInvariance, PTL

\* A run past its recovery has left no record of a run that was gone when it
\* started.
THEOREM NoDeadRecords == Spec => []DeadRecordsGo
  <1>1. JInv => DeadRecordsGo
    BY DEF JInv, KindInv, RecoveryInv, Recovers, Recovered, Recovering, DeadRecordsGo
  <1> QED
    BY <1>1, JournalInvariance, PTL

=============================================================================
