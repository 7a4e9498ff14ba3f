---------------------------- MODULE LibraryProof ----------------------------
(***************************************************************************)
(* What the runs check of Library, for any subscriptions and any number of *)
(* tasks.  The three properties speak of the screens and the disk; the     *)
(* invariant they follow from says where the one task that may still act   *)
(* is, and what it has in hand.                                            *)
(***************************************************************************)
EXTENDS Library, FiniteSetTheorems, SequenceTheorems, WellFoundedInduction, TLAPS

Waited == task[waits]

\* What a task has at each of its places.
Fit(k) ==
  /\ k.kind = "none" <=> k.pc = "idle"
  /\ k.pc = "list" => k.kind = "add"
  /\ k.pc = "look" => k.kind = "load"
  /\ k.pc \in {"copy", "assets", "install", "switch"} => k.kind \in {"load", "refresh"}
  /\ k.pc \notin {"idle", "done"} \/ k.kind = "refresh" => k.sub \in Subs
  /\ k.pc = "install" => k.sub \in WithGeo
  /\ k.dir = Core \/ (k.pc = "switch" /\ k.dir = k.sub)

TaskInv == \A t \in Tasks : Fit(task[t])

\* The screen waits for the one task that has not been left, and no addition is
\* ever left.
ScreenInv ==
  /\ up => Readable(keyed)
  /\ screen = "subs" => waits = 0
  /\ screen = "loading" => /\ waits # 0 /\ Waited.kind \in {"load", "add"}
                           /\ Waited.kind = "load" => choice # 0
  /\ screen = "list" => open \in Subs /\ (waits # 0 => Waited.kind = "refresh")
  /\ \A t \in Tasks :
       /\ task[t].kind = "add" => waits = t /\ ~task[t].left
       /\ task[t].pc \notin {"idle", "done"} /\ ~task[t].left => waits = t

\* The databases in use are s's or the core's, and are there.
GeoIs(s) == geoDir \in {Core, s} /\ geoDir \in dirs \cup {Core}

\* The screen a deletion is made from shows the list, and what is about to be
\* written back is the list still.
ListInv ==
  /\ List = wanted /\ IsInjective(wanted) /\ copies \subseteq Range(wanted)
  /\ up /\ (screen = "subs" \/ (screen = "loading" /\ Waited.kind = "load")) => shown = List
  /\ \A t \in Tasks : ~task[t].left =>
       /\ task[t].pc = "write" => task[t].got = List
       /\ task[t].dir \in dirs \cup {Core}

\* The load waited for is of the subscription chosen.
LoadInv ==
  screen = "loading" /\ Waited.kind = "load" =>
     /\ choice <= Len(List)
     /\ Waited.pc # "done" => Waited.sub = List[choice]
     /\ Waited.fresh => loaded = List[choice]
     /\ Waited.pc \in {"name", "write", "commit"} => GeoIs(List[choice])
     /\ Waited.pc = "done" /\ Waited.ok => loaded = List[choice] /\ GeoIs(List[choice])

\* And the refresh waited for is of the one open, which is listed.
OpenInv ==
  screen = "list" => /\ loaded = open /\ rows = open /\ GeoIs(open) /\ open \in Range(List)
                     /\ waits # 0 => Waited.sub = open

Straight == ~strayed => ListInv /\ LoadInv /\ OpenInv

LibraryInv == TypeOK /\ TaskInv /\ ScreenInv /\ Straight

-----------------------------------------------------------------------------
\* The list is a sequence of subscriptions in either form.
LEMMA ListTyped == ASSUME TypeOK PROVE List \in Seq(Subs)
BY DEF TypeOK, List, Kept

\* RemoveAt takes one element out and leaves the rest, each once.
LEMMA RemoveAtIs ==
  ASSUME NEW S, NEW l \in Seq(S), NEW i \in 1..Len(l)
  PROVE  /\ RemoveAt(l, i) \in Seq(S)
         /\ Len(RemoveAt(l, i)) = Len(l) - 1
         /\ \A j \in 1..(Len(l) - 1) : RemoveAt(l, i)[j] = l[IF j < i THEN j ELSE j + 1]
<1> DEFINE a == SubSeq(l, 1, i - 1)
           b == SubSeq(l, i + 1, Len(l))
<1>1. Len(l) \in Nat /\ i \in 1..Len(l) /\ \A j \in 1..Len(l) : l[j] \in S
  OBVIOUS
<1>2. /\ a \in Seq(S) /\ Len(a) = i - 1
      /\ \A j \in 1..(i - 1) : a[j] = l[j]
  <2>1. /\ a \in Seq(S)
        /\ Len(a) = IF 1 <= i - 1 THEN (i - 1) - 1 + 1 ELSE 0
        /\ \A j \in 1..((i - 1) - 1 + 1) : a[j] = l[1 + j - 1]
    <3>1. \A j \in 1..(i - 1) : l[j] \in S
      BY <1>1
    <3>2. 1 \in Int /\ i - 1 \in Int
      BY <1>1
    <3> QED  BY <3>1, <3>2, SubSeqProperties
  <2> QED  BY <2>1, <1>1
<1>3. /\ b \in Seq(S) /\ Len(b) = Len(l) - i
      /\ \A j \in 1..(Len(l) - i) : b[j] = l[i + j]
  <2>1. /\ b \in Seq(S)
        /\ Len(b) = IF i + 1 <= Len(l) THEN Len(l) - (i + 1) + 1 ELSE 0
        /\ \A j \in 1..(Len(l) - (i + 1) + 1) : b[j] = l[(i + 1) + j - 1]
    <3>1. \A j \in (i + 1)..Len(l) : l[j] \in S
      BY <1>1
    <3>2. i + 1 \in Int /\ Len(l) \in Int
      BY <1>1
    <3> QED  BY <3>1, <3>2, SubSeqProperties
  <2> QED  BY <2>1, <1>1
<1>4. RemoveAt(l, i) = a \o b
  BY DEF RemoveAt
<1> HIDE DEF a, b
<1>5. a \o b \in Seq(S) /\ Len(a \o b) = Len(l) - 1
  <2>1. a \o b \in Seq(S) /\ Len(a \o b) = Len(a) + Len(b)
    BY <1>2, <1>3, ConcatProperties
  <2> QED  BY <2>1, <1>1, <1>2, <1>3
<1>6. ASSUME NEW j \in 1..(Len(l) - 1)  PROVE (a \o b)[j] = l[IF j < i THEN j ELSE j + 1]
  <2>1. CASE j < i
    BY <2>1, <1>1, <1>2, <1>3
  <2>2. CASE ~(j < i)
    <3>1. (a \o b)[j] = b[j - Len(a)]
      BY <2>2, <1>1, <1>2, <1>3
    <3> QED  BY <3>1, <2>2, <1>1, <1>2, <1>3
  <2> QED  BY <2>1, <2>2
<1> QED  BY <1>4, <1>5, <1>6

\* Of a list without repetitions: what is left has none, and all but the one.
LEMMA RemoveAtOnce ==
  ASSUME NEW S, NEW l \in Seq(S), IsInjective(l), NEW i \in 1..Len(l)
  PROVE  /\ RemoveAt(l, i) \in Seq(S) /\ IsInjective(RemoveAt(l, i))
         /\ Range(l) \ {l[i]} \subseteq Range(RemoveAt(l, i))
<1> DEFINE r == RemoveAt(l, i)
           at(j) == IF j < i THEN j ELSE j + 1
<1>1. /\ r \in Seq(S) /\ Len(r) = Len(l) - 1
      /\ \A j \in 1..(Len(l) - 1) : r[j] = l[at(j)]
  BY RemoveAtIs
<1>2. Len(l) \in Nat /\ DOMAIN l = 1..Len(l) /\ DOMAIN r = 1..(Len(l) - 1)
  BY <1>1
<1> HIDE DEF r
<1>3. ASSUME NEW j \in DOMAIN r, NEW k \in DOMAIN r, r[j] = r[k]  PROVE j = k
  <2>1. at(j) \in DOMAIN l /\ at(k) \in DOMAIN l /\ l[at(j)] = l[at(k)]
    <3>1. at(j) \in DOMAIN l /\ at(k) \in DOMAIN l
      BY <1>2
    <3>2. r[j] = l[at(j)] /\ r[k] = l[at(k)]
      BY <1>1, <1>2
    <3> QED  BY <3>1, <3>2, <1>3
  <2>2. at(j) = at(k)
    <3> HIDE DEF at
    <3> QED  BY <2>1 DEF IsInjective
  <2> QED  BY <2>2, <1>2
<1>4. IsInjective(r)
  BY <1>3 DEF IsInjective
<1>5. ASSUME NEW k \in DOMAIN l, l[k] # l[i]  PROVE \E j \in DOMAIN r : r[j] = l[k]
  <2>1. k # i
    BY <1>5
  <2>2. CASE k < i
    <3>1. k \in DOMAIN r /\ at(k) = k
      BY <2>2, <1>2
    <3> QED  BY <3>1, <1>1, <1>2
  <2>3. CASE k > i
    <3>1. k - 1 \in DOMAIN r /\ at(k - 1) = k
      BY <2>3, <1>2
    <3> QED  BY <3>1, <1>1, <1>2
  <2> QED  BY <2>1, <2>2, <2>3, <1>2
<1>6. Range(l) \ {l[i]} \subseteq Range(r)
  BY <1>5 DEF Range
<1> QED  BY <1>1, <1>4, <1>6 DEF r

\* A new one at the end leaves a list without repetitions.
LEMMA AppendOnce ==
  ASSUME NEW S, NEW l \in Seq(S), IsInjective(l), NEW e \in S, e \notin Range(l)
  PROVE  IsInjective(Append(l, e)) /\ Range(l) \subseteq Range(Append(l, e))
<1> DEFINE r == Append(l, e)
<1>1. /\ Len(l) \in Nat /\ DOMAIN l = 1..Len(l) /\ DOMAIN r = 1..(Len(l) + 1)
      /\ \A j \in 1..Len(l) : r[j] = l[j] /\ l[j] # e
      /\ r[Len(l) + 1] = e
  BY AppendProperties DEF Range
<1> HIDE DEF r
<1>2. IsInjective(r)
  BY <1>1 DEF IsInjective
<1>3. Range(l) \subseteq Range(r)
  BY <1>1 DEF Range
<1> QED  BY <1>2, <1>3 DEF r

\* What the user means by the entry on the screen is what is at its place.
LEMMA RemoveFirstIs ==
  ASSUME NEW S, NEW l \in Seq(S), IsInjective(l), NEW i \in 1..Len(l)
  PROVE  RemoveFirst(l, l[i]) = RemoveAt(l, i)
<1>1. Len(l) \in Nat /\ DOMAIN l = 1..Len(l)
  OBVIOUS
<1>2. {j \in 1..Len(l) : l[j] = l[i]} = {i}
  BY <1>1 DEF IsInjective
<1>3. Min({i}) = i
  BY <1>1 DEF Min
<1> QED  BY <1>2, <1>3 DEF RemoveFirst, SelectInSeq

\* RemoveFirst gives a list of the same subscriptions.
LEMMA RemoveFirstTyped ==
  ASSUME NEW S, NEW l \in Seq(S), NEW e  PROVE RemoveFirst(l, e) \in Seq(S)
<1> DEFINE I == {j \in 1..Len(l) : l[j] = e}
<1>1. CASE I = {}
  BY <1>1 DEF RemoveFirst
<1>2. CASE I # {}
  <2>1. PICK m \in I : \A j \in I : m <= j
    <3>1. I \subseteq Nat
      OBVIOUS
    <3> DEFINE R == OpToRel(<, Nat)
    <3>2. PICK m \in I : \A j \in I : <<j, m>> \notin R
      <4> HIDE DEF I, R
      <4> QED  BY <1>2, <3>1, NatLessThanWellFounded, WFMin DEF R
    <3>3. \A j \in I : ~(j < m)
      BY <3>1, <3>2 DEF OpToRel
    <3> QED  BY <3>1, <3>3
  <2>2. Min(I) \in I
    <3> HIDE DEF I
    <3> QED  BY <2>1 DEF Min
  <2>3. RemoveFirst(l, e) = RemoveAt(l, Min(I))
    BY <1>2 DEF RemoveFirst, SelectInSeq
  <2>4. Min(I) \in 1..Len(l)
    BY <2>2
  <2> QED  BY <2>3, <2>4, RemoveAtIs
<1> QED  BY <1>1, <1>2

-----------------------------------------------------------------------------
\* What is not touched keeps the list.
LEMMA ListKept == ASSUME UNCHANGED <<plain, sealed>> PROVE List' = List
BY DEF List, Kept

\* The screen is loading or open while it waits, for a task of its kind.
LEMMA WaitedIs ==
  ASSUME LibraryInv, waits # 0
  PROVE  /\ waits \in Tasks
         /\ \/ screen = "loading" /\ Waited.kind = "load"
            \/ screen = "loading" /\ Waited.kind = "add"
            \/ screen = "list" /\ Waited.kind = "refresh"
BY DEF LibraryInv, TypeOK, ScreenInv, Tasks

\* A step of a task moves it on, and changes of the screens nothing.
Moves(t, k) ==
  /\ task[t].pc \notin {"idle", "done"} /\ task' = [task EXCEPT ![t] = k]
  /\ k \in TaskState /\ Fit(k) /\ k.kind = task[t].kind /\ k.pc # "idle"
  /\ k.left = task[t].left \/ (k.pc = "done" /\ ~k.left)
  /\ UNCHANGED <<run, menu>>

LEMMA MovesKeep ==
  ASSUME LibraryInv, NEW t \in Tasks, NEW k, Moves(t, k), Readable(keyed)'
  PROVE  /\ task' \in [Tasks -> TaskState] /\ TaskInv' /\ ScreenInv'
         /\ task'[t] = k /\ \A u \in Tasks \ {t} : task'[u] = task[u]
<1>1. /\ task \in [Tasks -> TaskState] /\ task' = [task EXCEPT ![t] = k] /\ k \in TaskState
      /\ UNCHANGED <<up, keyed, screen, shown, choice, waits, open, rows>>
      /\ task[t].pc \notin {"idle", "done"} /\ k.kind = task[t].kind
      /\ k.left = task[t].left \/ (k.pc = "done" /\ ~k.left)
  BY DEF LibraryInv, TypeOK, Moves, run, menu
<1>2. /\ task' \in [Tasks -> TaskState]
      /\ task'[t] = k /\ \A u \in Tasks \ {t} : task'[u] = task[u]
  BY <1>1
<1>3. TaskInv'
  <2> SUFFICES ASSUME NEW u \in Tasks  PROVE Fit(task'[u])
    BY DEF TaskInv, Fit
  <2>1. CASE u = t
    BY <2>1, <1>2 DEF Moves
  <2>2. CASE u # t
    BY <2>2, <1>2 DEF LibraryInv, TaskInv
  <2> QED  BY <2>1, <2>2
<1>4. waits \in Tasks => Waited'.kind = Waited.kind
  BY <1>1, <1>2 DEF Waited
<1>5. ScreenInv'
  <2>1. waits = 0 \/ waits \in Tasks
    BY DEF LibraryInv, TypeOK, Tasks
  <2>2. /\ up' => Readable(keyed)'
        /\ screen' = "subs" => waits' = 0
        /\ screen' = "loading" => /\ waits' # 0 /\ Waited'.kind \in {"load", "add"}
                                  /\ Waited'.kind = "load" => choice' # 0
        /\ screen' = "list" => open' \in Subs /\ (waits' # 0 => Waited'.kind = "refresh")
    BY <1>1, <1>4, <2>1 DEF LibraryInv, ScreenInv
  <2>3. ASSUME NEW u \in Tasks
        PROVE  /\ task'[u].kind = "add" => waits = u /\ ~task'[u].left
               /\ task'[u].pc \notin {"idle", "done"} /\ ~task'[u].left => waits = u
    <3>1. /\ task[u].kind = "add" => waits = u /\ ~task[u].left
          /\ task[u].pc \notin {"idle", "done"} /\ ~task[u].left => waits = u
      BY DEF LibraryInv, ScreenInv
    <3>2. CASE u = t
      BY <3>1, <3>2, <1>1, <1>2
    <3>3. CASE u # t
      BY <3>1, <3>3, <1>2
    <3> QED  BY <3>2, <3>3
  <2> QED  BY <2>2, <2>3, <1>1 DEF ScreenInv, Waited
<1> QED  BY <1>2, <1>3, <1>5

\* It keeps what the screens show if one that is left changes nothing they go
\* by, and the databases of who is listed stay.
LEMMA MovesStraight ==
  ASSUME LibraryInv, NEW t \in Tasks, NEW k, Moves(t, k), ~strayed,
         List' = List, wanted' = wanted,
         copies' \subseteq Range(wanted), dirs \cap Range(List) \subseteq dirs',
         waits # t => UNCHANGED <<loaded, geoDir>>,
         waits = t => LoadInv' /\ OpenInv',
         ~k.left => /\ k.pc = "write" => k.got = List
                    /\ k.dir \in dirs' \cup {Core}
  PROVE  ListInv' /\ LoadInv' /\ OpenInv'
<1>1. /\ UNCHANGED <<up, keyed, screen, shown, choice, waits, open, rows>>
      /\ task[t].pc \notin {"idle", "done"} /\ k.kind = task[t].kind
  BY DEF Moves, run, menu
<1>2. List' = List /\ List \in Seq(Subs)
  BY ListTyped DEF LibraryInv
<1>3. task'[t] = k /\ \A u \in Tasks \ {t} : task'[u] = task[u]
  BY DEF Moves, LibraryInv, TypeOK
<1>4. ListInv /\ LoadInv /\ OpenInv
  BY DEF LibraryInv, Straight
<1>5. waits \in Tasks \/ waits = 0
  BY DEF LibraryInv, TypeOK, Tasks
<1>6. waits # t /\ waits # 0 => Waited' = Waited
  BY <1>1, <1>3, <1>5 DEF Waited
<1>7. waits \in Tasks => Waited'.kind = Waited.kind
  BY <1>1, <1>3 DEF Waited
<1>8. ASSUME NEW s \in Range(List), GeoIs(s), geoDir' = geoDir  PROVE GeoIs(s)'
  BY <1>8 DEF GeoIs
<1>9. ListInv'
  <2>1. List' = wanted' /\ IsInjective(wanted') /\ copies' \subseteq Range(wanted')
    BY <1>2, <1>4 DEF ListInv
  <2>2. up' /\ (screen' = "subs" \/ (screen' = "loading" /\ Waited'.kind = "load")) => shown' = List'
    <3>1. screen = "loading" => waits # 0
      BY DEF LibraryInv, ScreenInv
    <3> QED  BY <3>1, <1>1, <1>2, <1>4, <1>5, <1>7 DEF ListInv
  <2>3. ASSUME NEW u \in Tasks, ~task'[u].left
        PROVE  /\ task'[u].pc = "write" => task'[u].got = List'
               /\ task'[u].dir \in dirs' \cup {Core}
    <3>1. CASE u = t
      BY <3>1, <2>3, <1>2, <1>3
    <3>2. CASE u # t
      <4>1. task'[u] = task[u] /\ ~task[u].left /\ Fit(task[u])
        BY <3>2, <2>3, <1>3 DEF LibraryInv, TaskInv
      <4>2. task[u].pc = "write" => task[u].got = List
        BY <4>1, <1>4 DEF ListInv
      <4>3. task[u].dir \in dirs \cup {Core}
        BY <4>1, <1>4 DEF ListInv
      <4>4. CASE task[u].dir # Core
        <5>1. task[u].pc = "switch" /\ task[u].dir = task[u].sub /\ waits = u
          BY <4>1, <4>4 DEF Fit, LibraryInv, ScreenInv
        <5>2. Waited = task[u] /\ waits # 0
          BY <5>1 DEF Waited, Tasks
        <5>3. task[u].kind \in {"load", "refresh"}
          BY <4>1, <5>1 DEF Fit
        <5>4. CASE screen = "loading" /\ Waited.kind = "load"
          <6>1. choice \in 1..Len(List) /\ task[u].sub = List[choice]
            BY <5>1, <5>2, <5>4, <1>2, <1>4 DEF LoadInv, LibraryInv, ScreenInv, TypeOK
          <6> QED  BY <6>1, <5>1, <4>1, <4>2, <4>3, <4>4, <1>2 DEF Range
        <5>5. CASE screen = "list"
          <6>1. task[u].sub \in Range(List)
            BY <5>2, <5>5, <1>4 DEF OpenInv
          <6> QED  BY <6>1, <5>1, <4>1, <4>2, <4>3, <4>4, <1>2
        <5> QED  BY <5>2, <5>3, <5>4, <5>5, WaitedIs
      <4>5. CASE task[u].dir = Core
        BY <4>1, <4>2, <4>5, <1>2
      <4> QED  BY <4>4, <4>5
    <3> QED  BY <3>1, <3>2
  <2> QED  BY <2>1, <2>2, <2>3, <1>1 DEF ListInv, Waited
<1>10. CASE waits # t
  <2>1. UNCHANGED <<loaded, geoDir>>
    BY <1>10
  <2>2. LoadInv'
    <3> SUFFICES ASSUME screen = "loading", Waited.kind = "load"  PROVE LoadInv'
      BY <1>1, <1>5, <1>7 DEF LoadInv, LibraryInv, ScreenInv
    <3>1. choice \in 1..Len(List) /\ waits # 0
      BY <1>2, <1>4 DEF LoadInv, LibraryInv, ScreenInv, TypeOK
    <3>2. GeoIs(List[choice]) => GeoIs(List[choice])'
      BY <3>1, <2>1, <1>1, <1>2 DEF Range, GeoIs
    <3> QED  BY <3>1, <3>2, <2>1, <1>1, <1>2, <1>4, <1>6, <1>10 DEF LoadInv, GeoIs
  <2>3. OpenInv'
    <3> SUFFICES ASSUME screen = "list"  PROVE OpenInv'
      BY <1>1 DEF OpenInv
    <3>1. GeoIs(open)'
      BY <2>1, <1>1, <1>4 DEF OpenInv, GeoIs
    <3> QED  BY <3>1, <2>1, <1>1, <1>2, <1>4, <1>6, <1>10 DEF OpenInv
  <2> QED  BY <1>9, <2>2, <2>3
<1> QED  BY <1>9, <1>10

-----------------------------------------------------------------------------
\* A load that finds its profiles in hand is fresh.
LEMMA LookKeeps == ASSUME LibraryInv, NEW t \in Tasks, Look(t) PROVE LibraryInv'
<1> DEFINE k == task'[t]
<1>1. UNCHANGED <<disk, run, nav, menu, ghosts>>
  BY DEF Look
<1>2. /\ task[t] \in TaskState /\ task[t].pc = "look" /\ task[t].kind = "load"
      /\ task \in [Tasks -> TaskState] /\ task[t].sub \in Subs /\ task[t].dir = Core
  BY DEF Look, At, LibraryInv, TypeOK, TaskInv, Fit
<1>3. /\ task' = [task EXCEPT ![t] = k] /\ k \in TaskState
      /\ k.kind = "load" /\ k.pc \in {"assets", "fetch"} /\ k.sub = task[t].sub /\ k.dir = Core
      /\ k.left = task[t].left /\ (k.fresh => task[t].fresh \/ loaded = k.sub)
  <2>1. CASE task' = [task EXCEPT ![t].pc = "assets", ![t].fresh = TRUE] /\ loaded = task[t].sub
    BY <2>1, <1>2 DEF TaskState
  <2>2. CASE task' = [task EXCEPT ![t].pc = "fetch"]
    BY <2>2, <1>2 DEF TaskState
  <2> QED  BY <2>1, <2>2 DEF Look, Goes
<1>4. Moves(t, k)
  BY <1>1, <1>2, <1>3 DEF Moves, Fit
<1>5. TypeOK'
  BY <1>1, <1>2, <1>3 DEF LibraryInv, TypeOK, disk, run, nav, menu, ghosts
<1>6. TaskInv' /\ ScreenInv'
  BY <1>1, <1>4, MovesKeep DEF Look, At, LibraryInv, ScreenInv, Readable, disk, run
<1>7. ASSUME ~strayed'  PROVE ListInv' /\ LoadInv' /\ OpenInv'
  <2>1. ListInv /\ LoadInv /\ OpenInv /\ ~strayed
    BY <1>1, <1>7 DEF LibraryInv, Straight, ghosts
  <2>2. waits = t => LoadInv' /\ OpenInv'
    <3>1. CASE waits = t
      <4>1. screen # "list" /\ Waited = task[t] /\ Waited' = k
        BY <1>1, <1>2, <3>1, WaitedIs DEF Waited, menu, Tasks
      <4> QED  BY <4>1, <2>1, <1>1, <1>2, <1>3, ListKept DEF LoadInv, OpenInv, disk, menu, nav
    <3> QED  BY <3>1
  <2>3. k.dir \in dirs' \cup {Core}
    BY <1>3
  <2>4. /\ UNCHANGED <<plain, sealed, wanted, loaded, geoDir>>
        /\ copies' \subseteq Range(wanted) /\ dirs \cap Range(List) \subseteq dirs'
    BY <1>1, <2>1 DEF ListInv, disk, nav, ghosts
  <2> QED  BY <1>3, <1>4, <2>1, <2>2, <2>3, <2>4, ListKept, MovesStraight
<1> QED  BY <1>5, <1>6, <1>7 DEF LibraryInv, Straight

\* A task that is none fits.
LEMMA IdleFits == Idle \in TaskState /\ Fit(Idle) /\ Idle.dir = Core /\ Idle.kind = "none"
                  /\ Idle.pc = "idle" /\ ~Idle.left /\ ~Idle.fresh
<1>1. <<>> \in Seq(Subs)
  BY EmptySeq
<1> QED  BY <1>1 DEF Idle, TaskState, Fit

\* A step that ends keeps the subscription of a refresh, and how it went.
LEMMA EndsIs ==
  ASSUME LibraryInv, NEW t \in Tasks, NEW ok \in BOOLEAN, Ends(t, ok)
  PROVE  /\ task' = [task EXCEPT ![t] = task'[t]] /\ task'[t] \in TaskState
         /\ task'[t].kind = task[t].kind /\ task'[t].pc = "done" /\ ~task'[t].left
         /\ ~task'[t].fresh /\ task'[t].ok = ok /\ task'[t].dir = Core
         /\ task'[t].sub = IF task[t].kind = "refresh" THEN task[t].sub ELSE None
<1> DEFINE k == [NewTask(task[t].kind, "done", IF task[t].kind = "refresh" THEN task[t].sub ELSE None)
                 EXCEPT !.ok = ok]
<1>1. task \in [Tasks -> TaskState] /\ task[t] \in TaskState /\ task' = [task EXCEPT ![t] = k]
  BY DEF LibraryInv, TypeOK, Ends
<1>2. /\ k \in TaskState
      /\ k.kind = task[t].kind /\ k.pc = "done" /\ ~k.left /\ ~k.fresh /\ k.ok = ok /\ k.dir = Core
      /\ k.sub = IF task[t].kind = "refresh" THEN task[t].sub ELSE None
  <2> DEFINE s == IF task[t].kind = "refresh" THEN task[t].sub ELSE None
             n == NewTask(task[t].kind, "done", s)
  <2>1. task[t].kind \in {"none", "load", "add", "refresh"} /\ s \in Subs \cup {None}
    BY <1>1 DEF TaskState
  <2>2. /\ n \in TaskState /\ n.kind = task[t].kind /\ n.pc = "done" /\ n.sub = s
        /\ ~n.left /\ ~n.fresh /\ n.dir = Core
    <3> HIDE DEF s
    <3> QED  BY <2>1, IdleFits DEF NewTask, TaskState
  <2> HIDE DEF n
  <2>3. k = [n EXCEPT !.ok = ok]
    BY DEF n
  <2> HIDE DEF k
  <2> QED  BY <2>2, <2>3 DEF TaskState
<1> HIDE DEF k
<1> QED  BY <1>1, <1>2

\* A saved answer stands in for a panel that fails.
LEMMA FetchKeeps == ASSUME LibraryInv, NEW t \in Tasks, Fetch(t) PROVE LibraryInv'
<1> DEFINE k == task'[t]
<1>1. UNCHANGED <<disk, run, nav, menu, ghosts>> /\ up
  BY DEF Fetch, At
<1>2. /\ task[t] \in TaskState /\ task[t].pc = "fetch" /\ task[t].kind # "none"
      /\ task \in [Tasks -> TaskState] /\ task[t].sub \in Subs /\ task[t].dir = Core
  BY DEF Fetch, At, LibraryInv, TypeOK, TaskInv, Fit
<1>3. /\ task' = [task EXCEPT ![t] = k] /\ k \in TaskState
      /\ k.kind = task[t].kind /\ k.dir = Core
      /\ \/ /\ k.pc \in {"copy", "assets"} /\ k.kind # "add"
            /\ k.left = task[t].left /\ k.sub = task[t].sub /\ k.fresh = task[t].fresh
         \/ /\ k.pc = "name" /\ k.kind = "add"
            /\ k.left = task[t].left /\ k.sub = task[t].sub /\ k.fresh = task[t].fresh
         \/ /\ k.pc = "done" /\ ~k.left /\ (k.ok => k.kind = "add") /\ ~k.fresh
            /\ (k.kind = "refresh" => k.sub = task[t].sub)
  <2>1. CASE task' = [task EXCEPT ![t].pc = IF task[t].kind = "add" THEN "name" ELSE "copy"]
    BY <2>1, <1>2 DEF TaskState
  <2>2. CASE task[t].kind = "add" /\ Ends(t, TRUE)
    BY <2>2, EndsIs
  <2>3. CASE Ends(t, FALSE)
    BY <2>3, EndsIs
  <2>4. CASE task[t].kind # "add" /\ task' = [task EXCEPT ![t].pc = "assets", ![t].stale = TRUE]
    BY <2>4, <1>2 DEF TaskState
  <2> QED  BY <2>1, <2>2, <2>3, <2>4 DEF Fetch, Goes
<1>4. Moves(t, k)
  BY <1>1, <1>2, <1>3 DEF Moves, Fit, TaskState
<1>5. TypeOK'
  BY <1>1, <1>2, <1>3 DEF LibraryInv, TypeOK, disk, run, nav, menu, ghosts
<1>6. TaskInv' /\ ScreenInv'
  BY <1>1, <1>4, MovesKeep DEF LibraryInv, ScreenInv, Readable, disk, run
<1>7. ASSUME ~strayed'  PROVE ListInv' /\ LoadInv' /\ OpenInv'
  <2>1. ListInv /\ LoadInv /\ OpenInv /\ ~strayed
    BY <1>1, <1>7 DEF LibraryInv, Straight, ghosts
  <2>2. waits = t => LoadInv' /\ OpenInv'
    <3> SUFFICES ASSUME waits = t  PROVE LoadInv' /\ OpenInv'
      OBVIOUS
    <3>1. Waited = task[t] /\ Waited' = k
      BY <1>1 DEF Waited, menu
    <3>2. LoadInv'
      BY <3>1, <2>1, <1>1, <1>2, <1>3, ListKept DEF LoadInv, disk, menu, nav
    <3>3. OpenInv'
      BY <3>1, <2>1, <1>1, <1>2, <1>3, ListKept, WaitedIs DEF OpenInv, GeoIs, Tasks, disk, menu, nav
    <3> QED  BY <3>2, <3>3
  <2>3. k.pc # "write" /\ k.dir \in dirs' \cup {Core}
    BY <1>3
  <2>4. /\ UNCHANGED <<plain, sealed, wanted, loaded, geoDir>>
        /\ copies' \subseteq Range(wanted) /\ dirs \cap Range(List) \subseteq dirs'
    BY <1>1, <2>1 DEF ListInv, disk, nav, ghosts
  <2> QED  BY <1>3, <1>4, <2>1, <2>2, <2>3, <2>4, ListKept, MovesStraight
<1> QED  BY <1>5, <1>6, <1>7 DEF LibraryInv, Straight

\* The ghost takes note of a task that is left.
LEMMA StraysTyped == ASSUME NEW t \in Tasks, Strays(t)  PROVE strayed' \in BOOLEAN
BY DEF Strays

\* What a panel answered is kept for one that is listed.
LEMMA SaveCachedKeeps == ASSUME LibraryInv, NEW t \in Tasks, SaveCached(t) PROVE LibraryInv'
<1> DEFINE k == task'[t]
<1>1. UNCHANGED <<plain, sealed, dirs, run, nav, menu, wanted>> /\ up
  BY DEF SaveCached, At
<1>2. /\ task[t] \in TaskState /\ task[t].pc = "copy" /\ task[t].kind \in {"load", "refresh"}
      /\ task \in [Tasks -> TaskState] /\ task[t].sub \in Subs /\ task[t].dir = Core
  BY DEF SaveCached, At, LibraryInv, TypeOK, TaskInv, Fit
<1>3. /\ task' = [task EXCEPT ![t] = k] /\ k \in TaskState
      /\ k.kind = task[t].kind /\ k.dir = Core /\ k.pc = "assets"
      /\ k.left = task[t].left /\ k.sub = task[t].sub /\ k.fresh = task[t].fresh
  BY <1>2 DEF SaveCached, Goes, TaskState
<1>4. Moves(t, k)
  BY <1>1, <1>2, <1>3 DEF Moves, Fit
<1>5. TypeOK'
  <2>1. copies' \in SUBSET Subs /\ strayed' \in BOOLEAN
    BY <1>2, StraysTyped DEF SaveCached, LibraryInv, TypeOK
  <2> QED  BY <2>1, <1>1, <1>2, <1>3 DEF LibraryInv, TypeOK, run, nav, menu
<1>6. TaskInv' /\ ScreenInv'
  BY <1>1, <1>4, MovesKeep DEF LibraryInv, ScreenInv, Readable, run
<1>7. ASSUME ~strayed'  PROVE ListInv' /\ LoadInv' /\ OpenInv'
  <2>1. ListInv /\ LoadInv /\ OpenInv /\ ~strayed /\ ~task[t].left
    BY <1>7 DEF SaveCached, Strays, LibraryInv, Straight
  <2>2. waits = t /\ waits # 0 /\ Waited = task[t] /\ Waited' = k
    BY <1>1, <1>2, <2>1 DEF LibraryInv, ScreenInv, Waited, menu, Tasks
  <2>3. task[t].sub \in Range(List)
    <3>1. CASE screen = "loading" /\ Waited.kind = "load"
      <4>1. choice \in 1..Len(List) /\ task[t].sub = List[choice]
        BY <3>1, <1>2, <2>1, <2>2, ListTyped DEF LoadInv, LibraryInv, ScreenInv, TypeOK
      <4> QED  BY <4>1, ListTyped DEF LibraryInv, Range
    <3>2. CASE screen = "list"
      BY <3>2, <2>1, <2>2 DEF OpenInv
    <3> QED  BY <3>1, <3>2, <1>2, <2>2, WaitedIs
  <2>4. LoadInv' /\ OpenInv'
    BY <2>1, <2>2, <1>1, <1>2, <1>3, ListKept DEF LoadInv, OpenInv, GeoIs, menu, nav
  <2>5. k.pc # "write" /\ k.dir \in dirs' \cup {Core}
    BY <1>3
  <2>6. copies' \subseteq Range(wanted) /\ dirs \cap Range(List) \subseteq dirs'
    BY <1>1, <2>1, <2>3 DEF ListInv, SaveCached
  <2> QED  BY <1>1, <1>4, <2>1, <2>2, <2>4, <2>5, <2>6, ListKept, MovesStraight
<1> QED  BY <1>5, <1>6, <1>7 DEF LibraryInv, Straight

\* The databases of who is listed outlive the pruning.
LEMMA UseGeoAssetsKeeps == ASSUME LibraryInv, NEW t \in Tasks, UseGeoAssets(t) PROVE LibraryInv'
<1> DEFINE k == task'[t]
<1>1. UNCHANGED <<plain, sealed, copies, run, nav, menu, ghosts>> /\ up
  BY DEF UseGeoAssets, At
<1>2. /\ task[t] \in TaskState /\ task[t].pc = "assets" /\ task[t].kind \in {"load", "refresh"}
      /\ task \in [Tasks -> TaskState] /\ task[t].sub \in Subs /\ task[t].dir = Core
  BY DEF UseGeoAssets, At, LibraryInv, TypeOK, TaskInv, Fit
<1>3. /\ task' = [task EXCEPT ![t] = k] /\ k \in TaskState /\ k.kind = task[t].kind
      /\ k.left = task[t].left /\ k.sub = task[t].sub /\ k.fresh = task[t].fresh
      /\ k.pc \in {"install", "switch"} /\ (k.pc = "install" => k.sub \in WithGeo /\ k.dir = Core)
      /\ k.dir \in {Core, k.sub} /\ k.dir \in dirs' \cup {Core}
      /\ dirs' \subseteq dirs /\ dirs \cap Range(List) \subseteq dirs'
  <2>1. CASE task[t].sub \notin WithGeo
    BY <2>1, <1>2 DEF UseGeoAssets, Goes, TaskState
  <2>2. CASE task[t].sub \in WithGeo
    <3>1. dirs' = dirs \cap (Range(List) \cup {task[t].sub})
      BY <2>2 DEF UseGeoAssets, Pruned
    <3>2. CASE task[t].sub \in dirs /\ task' = [task EXCEPT ![t].pc = "switch", ![t].dir = task[t].sub]
      BY <3>1, <3>2, <2>2, <1>2 DEF TaskState
    <3>3. CASE task' = [task EXCEPT ![t].pc = "install"]
      BY <3>1, <3>3, <2>2, <1>2 DEF TaskState
    <3> QED  BY <2>2, <3>2, <3>3 DEF UseGeoAssets, Goes
  <2> QED  BY <2>1, <2>2
<1>4. Moves(t, k)
  BY <1>1, <1>2, <1>3 DEF Moves, Fit, TaskState
<1>5. TypeOK'
  BY <1>1, <1>2, <1>3 DEF LibraryInv, TypeOK, run, nav, menu, ghosts
<1>6. TaskInv' /\ ScreenInv'
  BY <1>1, <1>4, MovesKeep DEF LibraryInv, ScreenInv, Readable, run
<1>7. ASSUME ~strayed'  PROVE ListInv' /\ LoadInv' /\ OpenInv'
  <2>1. ListInv /\ LoadInv /\ OpenInv /\ ~strayed
    BY <1>1, <1>7 DEF LibraryInv, Straight, ghosts
  <2>2. waits = t => LoadInv' /\ OpenInv'
    <3> SUFFICES ASSUME waits = t  PROVE LoadInv' /\ OpenInv'
      OBVIOUS
    <3>1. Waited = task[t] /\ Waited' = k
      BY <1>1 DEF Waited, menu
    <3>2. LoadInv'
      BY <3>1, <2>1, <1>1, <1>2, <1>3, ListKept DEF LoadInv, menu, nav
    <3>3. OpenInv'
      BY <3>1, <2>1, <1>1, <1>2, <1>3, ListKept DEF OpenInv, GeoIs, menu, nav
    <3> QED  BY <3>2, <3>3
  <2>3. wanted' = wanted /\ copies' \subseteq Range(wanted) /\ UNCHANGED <<loaded, geoDir>>
    BY <1>1, <2>1 DEF ListInv, nav, ghosts
  <2> QED  BY <1>1, <1>3, <1>4, <2>1, <2>2, <2>3, ListKept, MovesStraight
<1> QED  BY <1>5, <1>6, <1>7 DEF LibraryInv, Straight

\* Installing only adds.
LEMMA InstallPanelGeoKeeps == ASSUME LibraryInv, NEW t \in Tasks, InstallPanelGeo(t) PROVE LibraryInv'
<1> DEFINE k == task'[t]
<1>1. UNCHANGED <<plain, sealed, copies, run, nav, menu, ghosts>> /\ up
  BY DEF InstallPanelGeo, At
<1>2. /\ task[t] \in TaskState /\ task[t].pc = "install" /\ task[t].kind \in {"load", "refresh"}
      /\ task \in [Tasks -> TaskState] /\ task[t].sub \in WithGeo /\ WithGeo \subseteq Subs
  BY LibraryAssumption DEF InstallPanelGeo, At, LibraryInv, TypeOK, TaskInv, Fit
<1>3. /\ task' = [task EXCEPT ![t] = k] /\ k \in TaskState /\ k.kind = task[t].kind
      /\ k.left = task[t].left /\ k.sub = task[t].sub /\ k.fresh = task[t].fresh
      /\ k.pc = "switch" /\ k.dir \in {Core, k.sub} /\ k.dir \in dirs' \cup {Core}
      /\ dirs \subseteq dirs' /\ dirs' \subseteq dirs \cup {task[t].sub}
  <2>1. dirs' = dirs \/ dirs' = dirs \cup {task[t].sub}
    BY DEF InstallPanelGeo
  <2>2. task' = [task EXCEPT ![t].pc = "switch",
                             ![t].dir = IF task[t].sub \in dirs' THEN task[t].sub ELSE Core]
    BY DEF InstallPanelGeo
  <2> QED  BY <2>1, <2>2, <1>2 DEF TaskState
<1>4. Moves(t, k)
  BY <1>1, <1>2, <1>3 DEF Moves, Fit, TaskState
<1>5. TypeOK'
  BY <1>1, <1>2, <1>3 DEF LibraryInv, TypeOK, run, nav, menu, ghosts
<1>6. TaskInv' /\ ScreenInv'
  BY <1>1, <1>4, MovesKeep DEF LibraryInv, ScreenInv, Readable, run
<1>7. ASSUME ~strayed'  PROVE ListInv' /\ LoadInv' /\ OpenInv'
  <2>1. ListInv /\ LoadInv /\ OpenInv /\ ~strayed
    BY <1>1, <1>7 DEF LibraryInv, Straight, ghosts
  <2>2. waits = t => LoadInv' /\ OpenInv'
    <3> SUFFICES ASSUME waits = t  PROVE LoadInv' /\ OpenInv'
      OBVIOUS
    <3>1. Waited = task[t] /\ Waited' = k
      BY <1>1 DEF Waited, menu
    <3>2. LoadInv'
      BY <3>1, <2>1, <1>1, <1>2, <1>3, ListKept DEF LoadInv, menu, nav
    <3>3. OpenInv'
      BY <3>1, <2>1, <1>1, <1>2, <1>3, ListKept DEF OpenInv, GeoIs, menu, nav
    <3> QED  BY <3>2, <3>3
  <2>3. wanted' = wanted /\ copies' \subseteq Range(wanted) /\ UNCHANGED <<loaded, geoDir>>
    BY <1>1, <2>1 DEF ListInv, nav, ghosts
  <2> QED  BY <1>1, <1>3, <1>4, <2>1, <2>2, <2>3, ListKept, MovesStraight
<1> QED  BY <1>5, <1>6, <1>7 DEF LibraryInv, Straight

\* Only what has not been left changes whose databases are in use.
LEMMA SwitchKeeps == ASSUME LibraryInv, NEW t \in Tasks, Switch(t) PROVE LibraryInv'
<1> DEFINE k == task'[t]
<1>1. UNCHANGED <<disk, run, loaded, stale, menu, ghosts>> /\ up
  BY DEF Switch, At
<1>2. /\ task[t] \in TaskState /\ task[t].pc = "switch" /\ task[t].kind \in {"load", "refresh"}
      /\ task \in [Tasks -> TaskState] /\ task[t].sub \in Subs
      /\ task[t].dir \in {Core, task[t].sub}
  BY DEF Switch, At, LibraryInv, TypeOK, TaskInv, Fit
<1>3. /\ task' = [task EXCEPT ![t] = k] /\ k \in TaskState /\ k.kind = task[t].kind
      /\ k.dir = Core /\ (k.kind = "refresh" => k.sub = task[t].sub)
      /\ IF task[t].left
           THEN k.pc = "done" /\ ~k.left /\ ~k.ok /\ ~k.fresh /\ geoDir' = geoDir
           ELSE /\ geoDir' = task[t].dir /\ ~k.left /\ ~k.fresh
                /\ \/ k.pc = "done" /\ task[t].fresh
                   \/ k.pc = "name" /\ k.sub = task[t].sub
  <2>1. CASE task[t].left
    BY <2>1, EndsIs DEF Switch, MayCommit
  <2>2. CASE ~task[t].left /\ task[t].fresh
    BY <2>2, EndsIs DEF Switch, MayCommit
  <2>3. CASE ~task[t].left /\ ~task[t].fresh
    <3>1. task' = [task EXCEPT ![t].pc = "name", ![t].dir = Core] /\ geoDir' = task[t].dir
      BY <2>3 DEF Switch, MayCommit
    <3> QED  BY <2>3, <3>1, <1>2 DEF TaskState
  <2> QED  BY <2>1, <2>2, <2>3, <1>2
<1>4. Moves(t, k)
  BY <1>1, <1>2, <1>3 DEF Moves, Fit, TaskState
<1>5. TypeOK'
  <2>1. geoDir' \in WithGeo \cup {Core}
    BY <1>2, <1>3 DEF LibraryInv, TypeOK, TaskState
  <2> QED  BY <2>1, <1>1, <1>2, <1>3 DEF LibraryInv, TypeOK, disk, run, menu, ghosts
<1>6. TaskInv' /\ ScreenInv'
  BY <1>1, <1>4, MovesKeep DEF LibraryInv, ScreenInv, Readable, disk, run
<1>7. ASSUME ~strayed'  PROVE ListInv' /\ LoadInv' /\ OpenInv'
  <2>1. ListInv /\ LoadInv /\ OpenInv /\ ~strayed
    BY <1>1, <1>7 DEF LibraryInv, Straight, ghosts
  <2>2. ~task[t].left => waits = t
    BY <1>2 DEF LibraryInv, ScreenInv
  <2>3. waits = t => LoadInv' /\ OpenInv'
    <3> SUFFICES ASSUME waits = t  PROVE LoadInv' /\ OpenInv'
      OBVIOUS
    <3>1. Waited = task[t] /\ Waited' = k
      BY <1>1 DEF Waited, menu
    <3>2. ~task[t].left => geoDir' = task[t].dir /\ geoDir' \in dirs \cup {Core}
      BY <1>3, <2>1 DEF ListInv
    <3>3. LoadInv'
      BY <3>1, <3>2, <2>1, <1>1, <1>2, <1>3, ListKept DEF LoadInv, GeoIs, disk, menu
    <3>4. OpenInv'
      BY <3>1, <3>2, <2>1, <1>1, <1>2, <1>3, ListKept, WaitedIs DEF OpenInv, GeoIs, Tasks, disk, menu
    <3> QED  BY <3>3, <3>4
  <2>4. wanted' = wanted /\ copies' \subseteq Range(wanted) /\ dirs' = dirs /\ loaded' = loaded
    BY <1>1, <2>1 DEF ListInv, disk, ghosts
  <2>5. waits # t => geoDir' = geoDir
    BY <1>3, <2>2
  <2>6. k.pc # "write" /\ k.dir \in dirs' \cup {Core}
    BY <1>3
  <2>7. List' = List
    BY <1>1, ListKept DEF disk
  <2> QED  BY <1>4, <2>1, <2>3, <2>4, <2>5, <2>6, <2>7, MovesStraight
<1> QED  BY <1>5, <1>6, <1>7 DEF LibraryInv, Straight

\* The list is read whole.
LEMMA ReadToNameKeeps == ASSUME LibraryInv, NEW t \in Tasks, ReadToName(t) PROVE LibraryInv'
<1> DEFINE k == task'[t]
<1>1. UNCHANGED <<disk, run, nav, menu, ghosts>> /\ up
  BY DEF ReadToName, At
<1>2. /\ task[t] \in TaskState /\ task[t].pc = "name" /\ task[t].kind # "none"
      /\ task \in [Tasks -> TaskState] /\ task[t].sub \in Subs /\ task[t].dir = Core
  BY DEF ReadToName, At, LibraryInv, TypeOK, TaskInv, Fit
<1>3. /\ task' = [task EXCEPT ![t] = k] /\ k \in TaskState /\ k.kind = task[t].kind
      /\ k.left = task[t].left /\ k.sub = task[t].sub /\ k.fresh = task[t].fresh
      /\ k.dir = Core /\ k.pc \in {"commit", "write"} /\ (k.pc = "write" => k.got = List)
  <2>1. CASE task' = [task EXCEPT ![t].pc = "commit"]
    BY <2>1, <1>2 DEF TaskState
  <2>2. CASE task' = [task EXCEPT ![t].pc = "write", ![t].got = List]
    <3>1. List \in Seq(Subs)
      BY ListTyped DEF LibraryInv
    <3> HIDE DEF List
    <3> QED  BY <2>2, <3>1, <1>2 DEF TaskState
  <2> QED  BY <2>1, <2>2 DEF ReadToName, Goes
<1>4. Moves(t, k)
  BY <1>1, <1>2, <1>3 DEF Moves, Fit, TaskState
<1>5. TypeOK'
  BY <1>1, <1>2, <1>3 DEF LibraryInv, TypeOK, disk, run, nav, menu, ghosts
<1>6. TaskInv' /\ ScreenInv'
  BY <1>1, <1>4, MovesKeep DEF LibraryInv, ScreenInv, Readable, disk, run
<1>7. ASSUME ~strayed'  PROVE ListInv' /\ LoadInv' /\ OpenInv'
  <2>1. ListInv /\ LoadInv /\ OpenInv /\ ~strayed
    BY <1>1, <1>7 DEF LibraryInv, Straight, ghosts
  <2>2. waits = t => LoadInv' /\ OpenInv'
    <3> SUFFICES ASSUME waits = t  PROVE LoadInv' /\ OpenInv'
      OBVIOUS
    <3>1. Waited = task[t] /\ Waited' = k
      BY <1>1 DEF Waited, menu
    <3>2. LoadInv'
      BY <3>1, <2>1, <1>1, <1>2, <1>3, ListKept DEF LoadInv, GeoIs, disk, menu, nav
    <3>3. OpenInv'
      BY <3>1, <2>1, <1>1, <1>2, <1>3, ListKept DEF OpenInv, GeoIs, disk, menu, nav
    <3> QED  BY <3>2, <3>3
  <2>3. /\ wanted' = wanted /\ copies' \subseteq Range(wanted)
        /\ dirs' = dirs /\ UNCHANGED <<loaded, geoDir>>
    BY <1>1, <2>1 DEF ListInv, disk, nav, ghosts
  <2>4. List' = List
    BY <1>1, ListKept DEF disk
  <2> QED  BY <1>3, <1>4, <2>1, <2>2, <2>3, <2>4, MovesStraight
<1> QED  BY <1>5, <1>6, <1>7 DEF LibraryInv, Straight

\* What is written is the list, in whichever form.
LEMMA WriteSubsIs ==
  ASSUME LibraryInv, NEW b \in BOOLEAN, Readable(b), NEW l \in Seq(Subs), WriteSubs(l, b)
  PROVE  /\ List' = l /\ Readable(b)'
         /\ plain' \in {None} \cup Seq(Subs) /\ sealed' \in {None} \cup Seq(Subs)
<1>1. l # None
  BY LibraryAssumption
<1>2. plain \in {None} \cup Seq(Subs) /\ sealed \in {None} \cup Seq(Subs)
  BY DEF LibraryInv, TypeOK
<1>3. CASE b
  BY <1>1, <1>2, <1>3 DEF WriteSubs, List, Kept, Readable
<1>4. CASE ~b
  BY <1>1, <1>2, <1>4 DEF WriteSubs, List, Kept, Readable
<1> QED  BY <1>3, <1>4

\* The name goes over the list as it was read, which is the list still unless
\* the task was left.
LEMMA WriteNameKeeps == ASSUME LibraryInv, NEW t \in Tasks, WriteName(t) PROVE LibraryInv'
<1> DEFINE k == task'[t]
<1>1. UNCHANGED <<copies, dirs, run, nav, menu, wanted>> /\ up
  BY DEF WriteName, At
<1>2. /\ task[t] \in TaskState /\ task[t].pc = "write" /\ task[t].kind # "none"
      /\ task \in [Tasks -> TaskState] /\ task[t].sub \in Subs /\ task[t].dir = Core
      /\ task[t].got \in Seq(Subs)
  BY DEF WriteName, At, LibraryInv, TypeOK, TaskInv, Fit, TaskState
<1>3. /\ task' = [task EXCEPT ![t] = k] /\ k \in TaskState /\ k.kind = task[t].kind
      /\ k.left = task[t].left /\ k.sub = task[t].sub /\ k.fresh = task[t].fresh
      /\ k.dir = Core /\ k.pc = "commit"
  BY <1>2, EmptySeq DEF WriteName, TaskState
<1>4. Moves(t, k)
  BY <1>1, <1>2, <1>3 DEF Moves, Fit, TaskState
<1>5. /\ List' = task[t].got /\ Readable(keyed)'
      /\ plain' \in {None} \cup Seq(Subs) /\ sealed' \in {None} \cup Seq(Subs)
  <2>1. Readable(keyed) /\ keyed \in BOOLEAN /\ keyed' = keyed
    BY <1>1 DEF LibraryInv, ScreenInv, TypeOK, run
  <2>2. WriteSubs(task[t].got, keyed)
    BY DEF WriteName
  <2>3. List' = task[t].got /\ (Readable(keyed))'
        /\ plain' \in {None} \cup Seq(Subs) /\ sealed' \in {None} \cup Seq(Subs)
    BY <1>2, <2>1, <2>2, WriteSubsIs DEF Readable
  <2> QED  BY <2>3
<1>6. TypeOK'
  <2>1. strayed' \in BOOLEAN
    BY StraysTyped DEF WriteName
  <2> QED  BY <2>1, <1>1, <1>2, <1>3, <1>5 DEF LibraryInv, TypeOK, run, nav, menu
<1>7. TaskInv' /\ ScreenInv'
  BY <1>4, <1>5, MovesKeep
<1>8. ASSUME ~strayed'  PROVE ListInv' /\ LoadInv' /\ OpenInv'
  <2>1. ListInv /\ LoadInv /\ OpenInv /\ ~strayed /\ ~task[t].left
    BY <1>8 DEF WriteName, Strays, LibraryInv, Straight
  <2>2. List' = List
    BY <1>2, <1>5, <2>1 DEF ListInv
  <2>3. waits = t /\ Waited = task[t] /\ Waited' = k
    BY <1>1, <1>2, <2>1 DEF LibraryInv, ScreenInv, Waited, menu
  <2>4. LoadInv' /\ OpenInv'
    <3>1. LoadInv'
      BY <2>1, <2>2, <2>3, <1>1, <1>2, <1>3 DEF LoadInv, GeoIs, menu, nav
    <3>2. OpenInv'
      BY <2>1, <2>2, <2>3, <1>1, <1>2, <1>3 DEF OpenInv, GeoIs, menu, nav
    <3> QED  BY <3>1, <3>2
  <2>5. copies' \subseteq Range(wanted)
    BY <1>1, <2>1 DEF ListInv
  <2> QED  BY <1>1, <1>3, <1>4, <2>1, <2>2, <2>3, <2>4, <2>5, MovesStraight
<1> QED  BY <1>6, <1>7, <1>8 DEF LibraryInv, Straight

\* What comes is put in place for the one waited for, or the ghost takes note.
LEMMA CommitKeeps == ASSUME LibraryInv, NEW t \in Tasks, Commit(t) PROVE LibraryInv'
<1> DEFINE k == task'[t]
<1>1. UNCHANGED <<disk, run, geoDir, menu, wanted>> /\ up
  BY DEF Commit, At
<1>2. /\ task[t] \in TaskState /\ task[t].pc = "commit"
      /\ task[t].kind \in {"load", "add", "refresh"}
      /\ task \in [Tasks -> TaskState] /\ task[t].sub \in Subs /\ task[t].dir = Core
  BY DEF Commit, At, LibraryInv, TypeOK, TaskInv, Fit, TaskState
<1>3. /\ task' = [task EXCEPT ![t] = k] /\ k \in TaskState /\ k.kind = task[t].kind
      /\ k.pc = "done" /\ ~k.left /\ ~k.fresh /\ k.dir = Core
      /\ (k.kind = "refresh" => k.sub = task[t].sub)
      /\ \/ /\ k.kind = "load" /\ ~task[t].left /\ strayed' = strayed
            /\ loaded' = task[t].sub /\ stale' = task[t].stale
         \/ /\ k.kind = "refresh" /\ loaded' = task[t].sub /\ stale' = task[t].stale /\ Strays(t)
         \/ /\ (k.kind = "load" => ~k.ok) /\ UNCHANGED <<loaded, stale, strayed>>
  <2>1. CASE task[t].kind = "load" /\ ~task[t].left
    BY <2>1, EndsIs DEF Commit, MayCommit, SetProfiles
  <2>2. CASE task[t].kind = "load" /\ task[t].left
    BY <2>2, EndsIs DEF Commit, MayCommit
  <2>3. CASE task[t].kind = "refresh" /\ ~task[t].stale
    BY <2>3, EndsIs DEF Commit, SetProfiles
  <2>4. CASE task[t].kind # "load" /\ ~(task[t].kind = "refresh" /\ ~task[t].stale)
    <3>1. Ends(t, task[t].kind = "add") /\ UNCHANGED <<loaded, stale, strayed>>
      BY <2>4 DEF Commit
    <3> QED  BY <2>4, <3>1, EndsIs
  <2> QED  BY <2>1, <2>2, <2>3, <2>4
<1>4. Moves(t, k)
  BY <1>1, <1>2, <1>3 DEF Moves, Fit, TaskState
<1>5. TypeOK'
  <2>1. strayed' \in BOOLEAN
    BY <1>3, StraysTyped DEF LibraryInv, TypeOK
  <2>2. loaded' \in Subs \cup {None} /\ stale' \in BOOLEAN
    BY <1>2, <1>3 DEF LibraryInv, TypeOK, TaskState
  <2> QED  BY <2>1, <2>2, <1>1, <1>2, <1>3 DEF LibraryInv, TypeOK, disk, run, menu
<1>6. TaskInv' /\ ScreenInv'
  BY <1>1, <1>4, MovesKeep DEF LibraryInv, ScreenInv, Readable, disk, run
<1>7. ASSUME ~strayed'  PROVE ListInv' /\ LoadInv' /\ OpenInv'
  <2>1. ListInv /\ LoadInv /\ OpenInv /\ ~strayed
    <3>1. strayed' = strayed \/ strayed' = (strayed \/ task[t].left)
      BY <1>3 DEF Strays
    <3>2. ~strayed
      BY <1>7, <3>1
    <3> QED  BY <3>2 DEF LibraryInv, Straight
  <2>2. ~task[t].left => waits = t
    BY <1>2 DEF LibraryInv, ScreenInv
  <2>3. loaded' = loaded \/ ~task[t].left
    BY <1>3, <1>7 DEF Strays
  <2>4. waits = t => LoadInv' /\ OpenInv'
    <3> SUFFICES ASSUME waits = t  PROVE LoadInv' /\ OpenInv'
      OBVIOUS
    <3>1. Waited = task[t] /\ Waited' = k
      BY <1>1 DEF Waited, menu
    <3>2. LoadInv'
      BY <3>1, <2>1, <1>1, <1>2, <1>3, ListKept DEF LoadInv, GeoIs, disk, menu
    <3>3. OpenInv'
      BY <3>1, <2>1, <1>1, <1>2, <1>3, ListKept, WaitedIs DEF OpenInv, GeoIs, Tasks, disk, menu
    <3> QED  BY <3>2, <3>3
  <2>5. /\ wanted' = wanted /\ copies' \subseteq Range(wanted) /\ dirs' = dirs
        /\ geoDir' = geoDir /\ (waits # t => loaded' = loaded)
    BY <1>1, <2>1, <2>2, <2>3 DEF ListInv, disk
  <2>6. k.pc # "write" /\ k.dir \in dirs' \cup {Core}
    BY <1>3
  <2>7. List' = List
    BY <1>1, ListKept DEF disk
  <2> QED  BY <1>4, <2>1, <2>4, <2>5, <2>6, <2>7, MovesStraight
<1> QED  BY <1>5, <1>6, <1>7 DEF LibraryInv, Straight

\* An addition puts a new subscription at the end, while no load and no list
\* screen goes by the places.
LEMMA SaveToListKeeps == ASSUME LibraryInv, NEW t \in Tasks, SaveToList(t) PROVE LibraryInv'
<1> DEFINE k == task'[t]
           s == task[t].sub
<1>1. UNCHANGED <<copies, dirs, run, nav, menu, strayed>> /\ up
  BY DEF SaveToList, At
<1>2. /\ task[t] \in TaskState /\ task[t].pc = "list" /\ task[t].kind = "add"
      /\ task \in [Tasks -> TaskState] /\ s \in Subs /\ task[t].dir = Core
  BY DEF SaveToList, At, LibraryInv, TypeOK, TaskInv, Fit
<1>3. /\ task' = [task EXCEPT ![t] = k] /\ k \in TaskState /\ k.kind = "add"
      /\ k.left = task[t].left /\ k.sub = s /\ k.dir = Core /\ k.pc = "fetch"
  BY <1>2 DEF SaveToList, Goes, TaskState
<1>4. Moves(t, k)
  BY <1>1, <1>2, <1>3 DEF Moves, Fit, TaskState
<1>5. List \in Seq(Subs) /\ wanted \in Seq(Subs)
  BY ListTyped DEF LibraryInv, TypeOK
<1>6. /\ Readable(keyed)'
      /\ plain' \in {None} \cup Seq(Subs) /\ sealed' \in {None} \cup Seq(Subs)
      /\ \/ s \in Range(List) /\ List' = List /\ wanted' = wanted
         \/ s \notin Range(List) /\ List' = Append(List, s) /\ wanted' = Append(wanted, s)
  <2>1. Readable(keyed) /\ keyed \in BOOLEAN /\ keyed' = keyed
    BY <1>1 DEF LibraryInv, ScreenInv, TypeOK, run
  <2>2. CASE s \in Range(List)
    <3>1. UNCHANGED <<plain, sealed, wanted>>
      BY <2>2 DEF SaveToList
    <3> QED  BY <2>1, <2>2, <3>1, ListKept DEF Readable, LibraryInv, TypeOK
  <2>3. CASE s \notin Range(List)
    <3>1. WriteSubs(Append(List, s), keyed) /\ wanted' = Append(wanted, s)
      BY <2>3 DEF SaveToList
    <3>2. Append(List, s) \in Seq(Subs)
      BY <1>2, <1>5, AppendProperties
    <3> QED  BY <2>1, <2>3, <3>1, <3>2, WriteSubsIs DEF Readable
  <2> QED  BY <2>2, <2>3
<1>7. TypeOK'
  <2>1. wanted' \in Seq(Subs)
    <3>1. Append(wanted, s) \in Seq(Subs)
      BY <1>2, <1>5, AppendProperties
    <3> QED  BY <3>1, <1>5, <1>6
  <2> QED  BY <2>1, <1>1, <1>2, <1>3, <1>6 DEF LibraryInv, TypeOK, run, nav, menu
<1>8. TaskInv' /\ ScreenInv'
  BY <1>4, <1>6, MovesKeep
<1>9. screen = "loading" /\ waits = t /\ Waited' = k /\ screen' = screen /\ waits' = waits
  BY <1>1, <1>2, WaitedIs DEF LibraryInv, ScreenInv, Waited, menu, Tasks
<1>10. ASSUME ~strayed'  PROVE ListInv' /\ LoadInv' /\ OpenInv'
  <2>1. ListInv /\ ~strayed
    BY <1>1, <1>10 DEF LibraryInv, Straight
  <2>2. List' = wanted' /\ IsInjective(wanted') /\ Range(wanted) \subseteq Range(wanted')
    <3>1. CASE wanted' = wanted
      BY <3>1, <2>1, <1>6 DEF ListInv
    <3>2. CASE s \notin Range(List) /\ List' = Append(List, s) /\ wanted' = Append(wanted, s)
      <4>1. List = wanted /\ IsInjective(wanted) /\ s \notin Range(wanted)
        BY <2>1, <3>2 DEF ListInv
      <4>2. IsInjective(Append(wanted, s)) /\ Range(wanted) \subseteq Range(Append(wanted, s))
        BY <1>2, <1>5, <4>1, AppendOnce
      <4> QED  BY <3>2, <4>1, <4>2
    <3> QED  BY <3>1, <3>2, <1>6
  <2>3. copies' \subseteq Range(wanted')
    BY <1>1, <2>1, <2>2 DEF ListInv
  <2>4. ASSUME NEW u \in Tasks, ~task'[u].left
        PROVE  /\ task'[u].pc = "write" => task'[u].got = List'
               /\ task'[u].dir \in dirs' \cup {Core}
    <3>1. CASE u = t
      BY <3>1, <1>3
    <3>2. CASE u # t
      <4>1. task'[u] = task[u] /\ Fit(task[u])
        BY <3>2, <1>2, <1>3 DEF LibraryInv, TaskInv
      <4>2. task[u].pc \in {"idle", "done"}
        BY <4>1, <3>2, <2>4, <1>9 DEF LibraryInv, ScreenInv
      <4> QED  BY <4>1, <4>2 DEF Fit
    <3> QED  BY <3>1, <3>2
  <2>5. ListInv'
    BY <2>2, <2>3, <2>4, <1>3, <1>9 DEF ListInv
  <2> QED  BY <2>5, <1>3, <1>9 DEF LoadInv, OpenInv
<1> QED  BY <1>7, <1>8, <1>10 DEF LibraryInv, Straight

-----------------------------------------------------------------------------
\* One task changes, and the rest are as they were.
LEMMA OneChanges ==
  ASSUME LibraryInv, NEW t \in Tasks, NEW k \in TaskState, Fit(k), task' = [task EXCEPT ![t] = k]
  PROVE  /\ task' \in [Tasks -> TaskState] /\ TaskInv'
         /\ task'[t] = k /\ \A u \in Tasks \ {t} : task'[u] = task[u]
<1>1. task \in [Tasks -> TaskState]
  BY DEF LibraryInv, TypeOK
<1>2. /\ task' \in [Tasks -> TaskState]
      /\ task'[t] = k /\ \A u \in Tasks \ {t} : task'[u] = task[u]
  BY <1>1
<1>3. TaskInv'
  BY <1>2 DEF LibraryInv, TaskInv, Fit
<1> QED  BY <1>2, <1>3

\* What a task begins with.
LEMMA BegunIs ==
  ASSUME LibraryInv, NEW t \in Tasks, NEW s \in Subs, NEW kind, NEW pc,
         <<kind, pc>> \in {<<"load", "look">>, <<"add", "list">>, <<"refresh", "fetch">>},
         Begin(t, NewTask(kind, pc, s))
  PROVE  /\ task' \in [Tasks -> TaskState] /\ TaskInv'
         /\ \A u \in Tasks \ {t} : task'[u] = task[u]
         /\ task'[t].kind = kind /\ task'[t].pc = pc /\ task'[t].sub = s /\ task'[t].dir = Core
         /\ ~task'[t].left /\ ~task'[t].fresh
<1> DEFINE k == NewTask(kind, pc, s)
<1>1. /\ k \in TaskState /\ Fit(k)
      /\ k.kind = kind /\ k.pc = pc /\ k.sub = s /\ k.dir = Core /\ ~k.left /\ ~k.fresh
  BY IdleFits DEF NewTask, TaskState, Fit
<1>2. task' = [task EXCEPT ![t] = k]
  BY DEF Begin
<1> HIDE DEF k
<1> QED  BY <1>1, <1>2, OneChanges

\* A task that is left is as it was otherwise.
LEMMA LeftIs ==
  ASSUME LibraryInv, NEW t \in Tasks, task' = [task EXCEPT ![t].left = TRUE]
  PROVE  /\ task' \in [Tasks -> TaskState] /\ TaskInv' /\ task'[t].left
         /\ \A u \in Tasks \ {t} : task'[u] = task[u]
         /\ \A u \in Tasks : task'[u].kind = task[u].kind /\ task'[u].pc = task[u].pc
<1> DEFINE k == [task[t] EXCEPT !.left = TRUE]
<1>1. /\ k \in TaskState /\ Fit(k) /\ k.left
      /\ k.kind = task[t].kind /\ k.pc = task[t].pc
  <2>1. task[t] \in TaskState /\ Fit(task[t])
    BY DEF LibraryInv, TypeOK, TaskInv
  <2>2. /\ k \in TaskState /\ k.left /\ k.kind = task[t].kind /\ k.pc = task[t].pc
        /\ k.sub = task[t].sub /\ k.dir = task[t].dir
    BY <2>1 DEF TaskState
  <2> HIDE DEF k
  <2> QED  BY <2>1, <2>2 DEF Fit
<1>2. task' = [task EXCEPT ![t] = k]
  OBVIOUS
<1> HIDE DEF k
<1> QED  BY <1>1, <1>2, OneChanges

\* On the subscription screen nothing may act that has not been left, and no
\* addition runs.
LEMMA AllLeft ==
  ASSUME LibraryInv, waits = 0, NEW t \in Tasks
  PROVE  task[t].kind # "add" /\ (task[t].pc \in {"idle", "done"} \/ task[t].left)
BY DEF LibraryInv, ScreenInv, Tasks

\* A run that ends leaves nothing but the disk.
LEMMA ForgetIs ==
  ASSUME Forget
  PROVE  /\ TaskInv' /\ ScreenInv' /\ LoadInv' /\ OpenInv' /\ up' = FALSE /\ keyed' = FALSE
         /\ loaded' = None /\ stale' = FALSE /\ geoDir' = Core
         /\ screen' = "subs" /\ shown' \in Seq(Subs) /\ choice' = 0 /\ waits' = 0
         /\ open' = None /\ rows' = None
         /\ task' \in [Tasks -> TaskState] /\ \A t \in Tasks : task'[t] = Idle
<1>1. task' = [t \in Tasks |-> Idle]
  BY DEF Forget
<1>2. task' \in [Tasks -> TaskState] /\ \A t \in Tasks : task'[t] = Idle
  BY <1>1, IdleFits
<1>3. TaskInv'
  BY <1>2, IdleFits DEF TaskInv, Fit
<1>4. up' = FALSE /\ screen' = "subs" /\ waits' = 0
  BY DEF Forget
<1>5. ScreenInv'
  BY <1>2, <1>4, IdleFits DEF ScreenInv
<1>6. LoadInv' /\ OpenInv'
  BY <1>4 DEF LoadInv, OpenInv
<1> QED  BY <1>2, <1>3, <1>5, <1>6, EmptySeq DEF Forget

LEMMA ForgetKeeps ==
  ASSUME LibraryInv, Forget,
         plain' \in {None} \cup Seq(Subs), sealed' \in {None} \cup Seq(Subs),
         copies' \subseteq Subs, dirs' \subseteq WithGeo, wanted' \in Seq(Subs), strayed' \in BOOLEAN,
         ~strayed' => List' = wanted' /\ IsInjective(wanted') /\ copies' \subseteq Range(wanted')
  PROVE  LibraryInv'
<1>1. TypeOK'
  BY ForgetIs, LibraryAssumption DEF TypeOK
<1>2. ASSUME ~strayed'  PROVE ListInv'
  BY <1>2, ForgetIs, IdleFits DEF ListInv
<1> QED  BY <1>1, <1>2, ForgetIs DEF LibraryInv, Straight

LEMMA ExitKeeps == ASSUME LibraryInv, Exit PROVE LibraryInv'
<1>1. Forget /\ UNCHANGED <<plain, sealed, copies, dirs, wanted, strayed>>
  BY DEF Exit, disk, ghosts
<1>2. ~strayed' => List' = wanted' /\ IsInjective(wanted') /\ copies' \subseteq Range(wanted')
  BY <1>1, ListKept DEF LibraryInv, Straight, ListInv
<1> QED  BY <1>1, <1>2, ForgetKeeps DEF LibraryInv, TypeOK

-----------------------------------------------------------------------------
LEMMA OpenSubscriptionKeeps == ASSUME LibraryInv, OpenSubscription PROVE LibraryInv'
<1>1. PICK t \in Tasks, i \in DOMAIN shown :
        Begin(t, NewTask("load", "look", shown[i])) /\ choice' = i /\ waits' = t
  BY DEF OpenSubscription
<1>2. /\ up /\ screen = "subs" /\ screen' = "loading"
      /\ UNCHANGED <<disk, run, nav, shown, open, rows, ghosts>>
  BY DEF OpenSubscription
<1>3. shown \in Seq(Subs) /\ Len(shown) \in Nat /\ i \in 1..Len(shown) /\ shown[i] \in Subs
  BY DEF LibraryInv, TypeOK
<1>4. /\ task' \in [Tasks -> TaskState] /\ TaskInv'
      /\ \A u \in Tasks \ {t} : task'[u] = task[u]
      /\ task'[t].kind = "load" /\ task'[t].pc = "look" /\ task'[t].sub = shown[i]
      /\ task'[t].dir = Core /\ ~task'[t].left /\ ~task'[t].fresh
  BY <1>1, <1>3, BegunIs
<1>5. waits = 0 /\ t # 0 /\ t \in 0..MaxTasks /\ Waited' = task'[t]
  BY <1>1, <1>2 DEF LibraryInv, ScreenInv, Tasks, Waited
<1>6. TypeOK'
  BY <1>1, <1>2, <1>3, <1>4, <1>5 DEF LibraryInv, TypeOK, disk, run, nav, ghosts
<1>7. ScreenInv'
  <2>1. up' => Readable(keyed)'
    BY <1>2 DEF LibraryInv, ScreenInv, Readable, disk, run
  <2> QED  BY <2>1, <1>1, <1>2, <1>3, <1>4, <1>5, AllLeft DEF ScreenInv
<1>8. ASSUME ~strayed'  PROVE ListInv' /\ LoadInv' /\ OpenInv'
  <2>1. ListInv /\ List' = List /\ UNCHANGED <<wanted, copies, dirs>>
    BY <1>2, <1>8, ListKept DEF LibraryInv, Straight, ghosts, disk
  <2>2. shown = List
    BY <2>1, <1>2 DEF ListInv
  <2>3. ListInv'
    BY <2>1, <2>2, <1>2, <1>4 DEF ListInv
  <2>4. LoadInv'
    BY <2>1, <2>2, <1>1, <1>3, <1>4, <1>5 DEF LoadInv
  <2> QED  BY <2>3, <2>4, <1>2 DEF OpenInv
<1> QED  BY <1>4, <1>6, <1>7, <1>8 DEF LibraryInv, Straight

LEMMA AddSubscriptionKeeps == ASSUME LibraryInv, AddSubscription PROVE LibraryInv'
<1>1. PICK t \in Tasks, s \in Subs : Begin(t, NewTask("add", "list", s)) /\ waits' = t
  BY DEF AddSubscription
<1>2. /\ up /\ screen = "subs" /\ screen' = "loading"
      /\ UNCHANGED <<disk, run, nav, shown, choice, open, rows, ghosts>>
  BY DEF AddSubscription
<1>3. /\ task' \in [Tasks -> TaskState] /\ TaskInv'
      /\ \A u \in Tasks \ {t} : task'[u] = task[u]
      /\ task'[t].kind = "add" /\ task'[t].pc = "list" /\ task'[t].dir = Core /\ ~task'[t].left
  BY <1>1, BegunIs
<1>4. waits = 0 /\ t # 0 /\ t \in 0..MaxTasks /\ Waited' = task'[t]
  BY <1>1, <1>2 DEF LibraryInv, ScreenInv, Tasks, Waited
<1>5. TypeOK'
  BY <1>1, <1>2, <1>3, <1>4 DEF LibraryInv, TypeOK, disk, run, nav, ghosts
<1>6. ScreenInv'
  <2>1. up' => Readable(keyed)'
    BY <1>2 DEF LibraryInv, ScreenInv, Readable, disk, run
  <2> QED  BY <2>1, <1>1, <1>2, <1>3, <1>4, AllLeft DEF ScreenInv
<1>7. ASSUME ~strayed'  PROVE ListInv' /\ LoadInv' /\ OpenInv'
  <2>1. ListInv /\ List' = List /\ UNCHANGED <<wanted, copies, dirs>>
    BY <1>2, <1>7, ListKept DEF LibraryInv, Straight, ghosts, disk
  <2>2. ListInv'
    BY <2>1, <1>2, <1>3, <1>4 DEF ListInv
  <2> QED  BY <2>2, <1>2, <1>3, <1>4 DEF LoadInv, OpenInv
<1> QED  BY <1>3, <1>5, <1>6, <1>7 DEF LibraryInv, Straight

LEMMA EscKeeps == ASSUME LibraryInv, Esc PROVE LibraryInv'
<1>1. /\ up /\ screen = "loading" /\ screen' = "subs" /\ waits' = 0 /\ choice' = 0
      /\ task[waits].kind = "load" /\ task' = [task EXCEPT ![waits].left = TRUE]
      /\ UNCHANGED <<disk, run, nav, shown, open, rows, ghosts>>
  BY DEF Esc
<1>2. waits \in Tasks
  BY <1>1, WaitedIs DEF LibraryInv, ScreenInv
<1>3. /\ task' \in [Tasks -> TaskState] /\ TaskInv' /\ task'[waits].left
      /\ \A u \in Tasks \ {waits} : task'[u] = task[u]
      /\ \A u \in Tasks : task'[u].kind = task[u].kind /\ task'[u].pc = task[u].pc
  BY <1>1, <1>2, LeftIs
<1>4. TypeOK'
  BY <1>1, <1>3, LibraryAssumption DEF LibraryInv, TypeOK, disk, run, nav, ghosts
<1>5. ScreenInv'
  <2>1. up' => Readable(keyed)'
    BY <1>1 DEF LibraryInv, ScreenInv, Readable, disk, run
  <2>2. ASSUME NEW u \in Tasks
        PROVE  /\ task'[u].kind # "add"
               /\ task'[u].pc \in {"idle", "done"} \/ task'[u].left
    BY <1>1, <1>3 DEF LibraryInv, ScreenInv
  <2> QED  BY <2>1, <2>2, <1>1 DEF ScreenInv
<1>6. ASSUME ~strayed'  PROVE ListInv' /\ LoadInv' /\ OpenInv'
  <2>1. ListInv /\ List' = List /\ UNCHANGED <<wanted, copies, dirs>>
    BY <1>1, <1>6, ListKept DEF LibraryInv, Straight, ghosts, disk
  <2>2. ListInv'
    BY <2>1, <1>1, <1>3 DEF ListInv, Waited
  <2> QED  BY <2>2, <1>1 DEF LoadInv, OpenInv
<1> QED  BY <1>3, <1>4, <1>5, <1>6 DEF LibraryInv, Straight

-----------------------------------------------------------------------------
\* The entry taken away is the one on the screen.
LEMMA DeletingIs ==
  ASSUME LibraryInv, NEW i \in DOMAIN shown, Deleting(i)
  PROVE  /\ i \in 1..Len(List) /\ DropAt(List, i) \in Seq(Subs)
         /\ sealed' = None \/ keyed
         /\ plain' \in {None} \cup Seq(Subs) /\ sealed' \in {None} \cup Seq(Subs)
         /\ wanted' \in Seq(Subs) /\ List' = DropAt(List, i)
         /\ ~strayed => /\ List' = wanted' /\ IsInjective(wanted')
                        /\ Range(wanted) \ {List[i]} \subseteq Range(wanted')
<1>1. /\ up /\ screen = "subs" /\ i \in DOMAIN shown /\ i <= Len(List)
      /\ WriteSubs(RemoveAt(List, i), keyed) /\ wanted' = RemoveFirst(wanted, shown[i])
  BY DEF Deleting, DropAt
<1>2. List \in Seq(Subs) /\ wanted \in Seq(Subs) /\ shown \in Seq(Subs)
  BY ListTyped DEF LibraryInv, TypeOK
<1>3. i \in 1..Len(List) /\ Len(List) \in Nat
  BY <1>1, <1>2
<1>4. RemoveAt(List, i) \in Seq(Subs)
  BY <1>2, <1>3, RemoveAtIs
<1>5. Readable(keyed) /\ keyed \in BOOLEAN
  BY <1>1 DEF LibraryInv, ScreenInv, TypeOK
<1>6. /\ List' = RemoveAt(List, i) /\ (sealed' = None \/ keyed)
      /\ plain' \in {None} \cup Seq(Subs) /\ sealed' \in {None} \cup Seq(Subs)
  <2>1. keyed => /\ sealed' = RemoveAt(List, i) /\ plain' = None
    BY <1>1 DEF WriteSubs
  <2>2. ~keyed => plain' = RemoveAt(List, i) /\ sealed' = sealed /\ sealed = None
    BY <1>1, <1>5 DEF WriteSubs, Readable
  <2>3. RemoveAt(List, i) # None
    BY <1>4, LibraryAssumption
  <2>4. List' = RemoveAt(List, i)
    <3> DEFINE l == RemoveAt(List, i)
    <3> HIDE DEF l
    <3>1. CASE keyed
      <4>1. sealed' = l /\ l # None
        BY <2>1, <2>3, <3>1 DEF l
      <4> QED  BY <4>1 DEF List, Kept, l
    <3>2. CASE ~keyed
      <4>1. plain' = l /\ sealed' = None /\ l # None
        BY <2>2, <2>3, <3>2 DEF l
      <4> QED  BY <4>1 DEF List, Kept, l
    <3> QED  BY <3>1, <3>2
  <2> QED  BY <1>4, <1>5, <2>1, <2>2, <2>4
<1>7. wanted' \in Seq(Subs)
  BY <1>1, <1>2, RemoveFirstTyped
<1>8. ASSUME ~strayed
      PROVE  /\ List' = wanted' /\ IsInjective(wanted')
             /\ Range(wanted) \ {List[i]} \subseteq Range(wanted')
  <2>1. List = wanted /\ shown = List /\ IsInjective(wanted)
    BY <1>1, <1>8 DEF LibraryInv, Straight, ListInv
  <2>2. wanted' = RemoveAt(wanted, i)
    BY <1>1, <1>2, <1>3, <2>1, RemoveFirstIs
  <2> QED  BY <1>2, <1>3, <1>6, <2>1, <2>2, RemoveAtOnce
<1> QED  BY <1>3, <1>4, <1>6, <1>7, <1>8 DEF DropAt

LEMMA DeleteSubscriptionKeeps == ASSUME LibraryInv, DeleteSubscription PROVE LibraryInv'
<1>1. PICK i \in DOMAIN shown : Deleting(i) /\ RemoveCached(List[i]) /\ shown' = DropAt(List, i)
  BY DEF DeleteSubscription
<1>2. /\ UNCHANGED <<dirs, run, nav, screen, choice, waits, open, rows, task, strayed>>
      /\ copies' = copies \ {List[i]} /\ screen = "subs" /\ up
  BY <1>1 DEF DeleteSubscription, RemoveCached, Deleting
<1>3. /\ i \in 1..Len(List) /\ DropAt(List, i) \in Seq(Subs)
      /\ sealed' = None \/ keyed
      /\ plain' \in {None} \cup Seq(Subs) /\ sealed' \in {None} \cup Seq(Subs)
      /\ wanted' \in Seq(Subs) /\ List' = DropAt(List, i)
      /\ ~strayed => /\ List' = wanted' /\ IsInjective(wanted')
                     /\ Range(wanted) \ {List[i]} \subseteq Range(wanted')
  BY <1>1, DeletingIs
<1>4. TypeOK'
  BY <1>1, <1>2, <1>3 DEF LibraryInv, TypeOK, run, nav
<1>5. TaskInv'
  BY <1>2 DEF LibraryInv, TaskInv, Fit
<1>6. ScreenInv'
  BY <1>2, <1>3 DEF LibraryInv, ScreenInv, Waited, Readable, run
<1>7. ASSUME ~strayed'  PROVE ListInv' /\ LoadInv' /\ OpenInv'
  <2>1. ListInv /\ ~strayed
    BY <1>2, <1>7 DEF LibraryInv, Straight
  <2>2. copies' \subseteq Range(wanted')
    BY <2>1, <1>2, <1>3 DEF ListInv
  <2>3. ASSUME NEW u \in Tasks, ~task'[u].left
        PROVE  /\ task'[u].pc = "write" => task'[u].got = List'
               /\ task'[u].dir \in dirs' \cup {Core}
    BY <1>2, <2>1, <2>3, AllLeft DEF LibraryInv, ScreenInv, ListInv
  <2>4. ListInv'
    BY <2>1, <2>2, <2>3, <1>1, <1>2, <1>3 DEF ListInv
  <2> QED  BY <2>4, <1>2 DEF LoadInv, OpenInv
<1> QED  BY <1>4, <1>5, <1>6, <1>7 DEF LibraryInv, Straight

LEMMA DeleteCutKeeps == ASSUME LibraryInv, DeleteCut PROVE LibraryInv'
<1>1. PICK i \in DOMAIN shown : Deleting(i) /\ strayed' = (strayed \/ List[i] \in copies)
  BY DEF DeleteCut
<1>2. Forget /\ UNCHANGED <<copies, dirs>>
  BY DEF DeleteCut
<1>3. /\ plain' \in {None} \cup Seq(Subs) /\ sealed' \in {None} \cup Seq(Subs)
      /\ wanted' \in Seq(Subs)
      /\ ~strayed => /\ List' = wanted' /\ IsInjective(wanted')
                     /\ Range(wanted) \ {List[i]} \subseteq Range(wanted')
  BY <1>1, DeletingIs
<1>4. strayed' \in BOOLEAN
  BY <1>1
<1>5. ASSUME ~strayed'
      PROVE  List' = wanted' /\ IsInjective(wanted') /\ copies' \subseteq Range(wanted')
  <2>1. ~strayed /\ List[i] \notin copies
    BY <1>1, <1>5
  <2>2. copies \subseteq Range(wanted)
    BY <2>1 DEF LibraryInv, Straight, ListInv
  <2> QED  BY <1>2, <1>3, <2>1, <2>2
<1> QED  BY <1>2, <1>3, <1>4, <1>5, ForgetKeeps DEF LibraryInv, TypeOK

\* A list that is sealed, whole or up to the kill, is the list it was.
LEMMA StartKeeps == ASSUME LibraryInv, Start PROVE LibraryInv'
<1>1. PICK b \in BOOLEAN :
        /\ Readable(b) /\ keyed' = b
        /\ IF ToSeal(b) THEN WriteSubs(List, b) ELSE UNCHANGED <<plain, sealed>>
  BY DEF Start
<1>2. /\ up' = TRUE /\ shown' = List
      /\ UNCHANGED <<copies, dirs, loaded, stale, geoDir, screen, choice, waits, open, rows, task, ghosts>>
  BY DEF Start
<1>3. List \in Seq(Subs)
  BY ListTyped DEF LibraryInv
<1>4. /\ List' = List /\ Readable(b)'
      /\ plain' \in {None} \cup Seq(Subs) /\ sealed' \in {None} \cup Seq(Subs)
  <2>1. CASE ToSeal(b)
    BY <2>1, <1>1, <1>3, WriteSubsIs
  <2>2. CASE ~ToSeal(b)
    BY <2>2, <1>1, ListKept DEF Readable, LibraryInv, TypeOK
  <2> QED  BY <2>1, <2>2
<1>5. TypeOK'
  BY <1>1, <1>2, <1>3, <1>4 DEF LibraryInv, TypeOK, ghosts
<1>6. TaskInv'
  BY <1>2 DEF LibraryInv, TaskInv, Fit
<1>7. ScreenInv'
  BY <1>1, <1>2, <1>4 DEF LibraryInv, ScreenInv, Waited, Readable
<1>8. ASSUME ~strayed'  PROVE ListInv' /\ LoadInv' /\ OpenInv'
  <2>1. ListInv /\ LoadInv /\ OpenInv
    BY <1>2, <1>8 DEF LibraryInv, Straight, ghosts
  <2>2. ListInv' /\ LoadInv' /\ OpenInv'
    BY <2>1, <1>2, <1>4 DEF ListInv, LoadInv, OpenInv, GeoIs, Waited, ghosts
  <2> QED  BY <2>2
<1> QED  BY <1>5, <1>6, <1>7, <1>8 DEF LibraryInv, Straight

LEMMA StartCutKeeps == ASSUME LibraryInv, StartCut PROVE LibraryInv'
<1>1. /\ ~up /\ sealed = None /\ sealed' = List /\ plain' = plain
      /\ UNCHANGED <<up, keyed, copies, dirs, nav, menu, task, ghosts>>
  BY DEF StartCut, CutWrite, ToSeal
<1>2. List \in Seq(Subs) /\ List # None
  BY ListTyped, LibraryAssumption DEF LibraryInv
<1>3. List' = List
  BY <1>1, <1>2 DEF List, Kept
<1>4. TypeOK'
  BY <1>1, <1>2 DEF LibraryInv, TypeOK, nav, menu, ghosts
<1>5. TaskInv' /\ ScreenInv'
  BY <1>1 DEF LibraryInv, TaskInv, Fit, ScreenInv, Waited, menu
<1>6. ASSUME ~strayed'  PROVE ListInv' /\ LoadInv' /\ OpenInv'
  <2>1. ListInv /\ LoadInv /\ OpenInv
    BY <1>1, <1>6 DEF LibraryInv, Straight, ghosts
  <2> QED  BY <2>1, <1>1, <1>3 DEF ListInv, LoadInv, OpenInv, GeoIs, Waited, nav, menu, ghosts
<1> QED  BY <1>4, <1>5, <1>6 DEF LibraryInv, Straight

-----------------------------------------------------------------------------
\* A task whose message is taken is gone.
LEMMA DropIs ==
  ASSUME LibraryInv, NEW t \in Tasks, Drop(t)
  PROVE  /\ task' \in [Tasks -> TaskState] /\ TaskInv' /\ task'[t] = Idle
         /\ \A u \in Tasks \ {t} : task'[u] = task[u]
BY OneChanges, IdleFits DEF Drop

\* The message of a load that was left says nothing; that of the one waited for
\* opens the subscription chosen.
LEMMA LoadedMsgKeeps == ASSUME LibraryInv, NEW t \in Tasks, LoadedMsg(t) PROVE LibraryInv'
<1>1. /\ up /\ task[t].pc = "done" /\ task[t].kind = "load"
      /\ UNCHANGED <<plain, sealed, copies, dirs, wanted, strayed>>
  BY DEF LoadedMsg, At, disk, ghosts
<1>2. List' = List /\ List \in Seq(Subs)
  BY <1>1, ListKept, ListTyped DEF LibraryInv
<1>3. CASE ~TellsOfIt(t)
  <2>1. Drop(t) /\ UNCHANGED <<run, nav, menu>> /\ waits # t
    BY <1>3 DEF LoadedMsg, TellsOfIt
  <2>2. /\ task' \in [Tasks -> TaskState] /\ TaskInv' /\ task'[t] = Idle
        /\ \A u \in Tasks \ {t} : task'[u] = task[u]
    BY <2>1, DropIs
  <2>3. TypeOK'
    BY <1>1, <2>1, <2>2 DEF LibraryInv, TypeOK, run, nav, menu
  <2>4. waits # 0 => waits \in Tasks /\ Waited' = Waited
    BY <2>1, <2>2, WaitedIs DEF Waited, menu
  <2>5. ScreenInv'
    BY <1>1, <2>1, <2>2, <2>4, IdleFits DEF LibraryInv, ScreenInv, Readable, run, menu
  <2>6. ASSUME ~strayed'  PROVE ListInv' /\ LoadInv' /\ OpenInv'
    <3>1. ListInv /\ LoadInv /\ OpenInv
      BY <1>1, <2>6 DEF LibraryInv, Straight
    <3>2. screen = "loading" => waits # 0
      BY DEF LibraryInv, ScreenInv
    <3>3. ListInv'
      BY <3>1, <3>2, <1>1, <1>2, <2>1, <2>2, <2>4, IdleFits DEF ListInv, run, menu
    <3>4. LoadInv'
      BY <3>1, <3>2, <1>1, <1>2, <2>1, <2>4 DEF LoadInv, GeoIs, nav, menu
    <3>5. OpenInv'
      BY <3>1, <1>1, <1>2, <2>1, <2>4 DEF OpenInv, GeoIs, nav, menu
    <3> QED  BY <3>3, <3>4, <3>5
  <2> QED  BY <2>2, <2>3, <2>5, <2>6 DEF LibraryInv, Straight
<1>4. CASE TellsOfIt(t) /\ ~task[t].ok
  <2>1. /\ screen' = "subs" /\ waits' = 0 /\ choice' = 0 /\ Drop(t)
        /\ UNCHANGED <<run, nav, shown, open, rows>> /\ waits = t
    BY <1>4 DEF LoadedMsg, TellsOfIt
  <2>2. /\ task' \in [Tasks -> TaskState] /\ TaskInv' /\ task'[t] = Idle
        /\ \A u \in Tasks \ {t} : task'[u] = task[u]
    BY <2>1, DropIs
  <2>3. TypeOK'
    BY <1>1, <2>1, <2>2, LibraryAssumption DEF LibraryInv, TypeOK, run, nav
  <2>4. screen = "loading" /\ Waited.kind = "load"
    BY <1>1, <2>1, WaitedIs DEF Waited, Tasks
  <2>5. ScreenInv'
    BY <1>1, <2>1, <2>2, IdleFits DEF LibraryInv, ScreenInv, Readable, run
  <2>6. ASSUME ~strayed'  PROVE ListInv' /\ LoadInv' /\ OpenInv'
    <3>1. ListInv
      BY <1>1, <2>6 DEF LibraryInv, Straight
    <3>2. ListInv'
      BY <3>1, <1>1, <1>2, <2>1, <2>2, <2>4, IdleFits DEF ListInv
    <3> QED  BY <3>2, <2>1 DEF LoadInv, OpenInv
  <2> QED  BY <2>2, <2>3, <2>5, <2>6 DEF LibraryInv, Straight
<1>5. CASE TellsOfIt(t) /\ task[t].ok /\ choice > Len(List)
  <2>1. Forget
    BY <1>5 DEF LoadedMsg
  <2>2. ~strayed' => List' = wanted' /\ IsInjective(wanted') /\ copies' \subseteq Range(wanted')
    BY <1>1, <1>2 DEF LibraryInv, Straight, ListInv
  <2> QED  BY <1>1, <2>1, <2>2, ForgetKeeps DEF LibraryInv, TypeOK
<1>6. CASE TellsOfIt(t) /\ task[t].ok /\ ~(choice > Len(List))
  <2>1. /\ screen' = "list" /\ waits' = 0 /\ Drop(t) /\ open' = List[choice] /\ rows' = loaded
        /\ shown' = <<>> /\ choice' = 0 /\ UNCHANGED <<run, nav>> /\ waits = t
    BY <1>6 DEF LoadedMsg, TellsOfIt
  <2>2. /\ task' \in [Tasks -> TaskState] /\ TaskInv' /\ task'[t] = Idle
        /\ \A u \in Tasks \ {t} : task'[u] = task[u]
    BY <2>1, DropIs
  <2>3. screen = "loading" /\ Waited = task[t] /\ Waited.kind = "load"
    BY <1>1, <2>1, WaitedIs DEF Waited, Tasks
  <2>4. choice \in 1..Len(List)
    BY <1>2, <1>6, <2>3 DEF LibraryInv, ScreenInv, TypeOK
  <2>5. List[choice] \in Subs /\ List[choice] \in Range(List)
    BY <1>2, <2>4 DEF Range
  <2>6. TypeOK'
    BY <1>1, <2>1, <2>2, <2>5, LibraryAssumption, EmptySeq DEF LibraryInv, TypeOK, run, nav
  <2>7. ScreenInv'
    BY <1>1, <2>1, <2>2, <2>5, IdleFits DEF LibraryInv, ScreenInv, Readable, run
  <2>8. ASSUME ~strayed'  PROVE ListInv' /\ LoadInv' /\ OpenInv'
    <3>1. ListInv /\ LoadInv
      BY <1>1, <2>8 DEF LibraryInv, Straight
    <3>2. ListInv'
      BY <3>1, <1>1, <1>2, <2>1, <2>2, IdleFits DEF ListInv
    <3>3. loaded = List[choice] /\ GeoIs(List[choice])
      BY <3>1, <1>1, <1>6, <2>3 DEF LoadInv
    <3>4. OpenInv'
      BY <3>3, <1>1, <1>2, <2>1, <2>5 DEF OpenInv, GeoIs, nav
    <3> QED  BY <3>2, <3>4, <2>1 DEF LoadInv
  <2> QED  BY <2>2, <2>6, <2>7, <2>8 DEF LibraryInv, Straight
<1> QED  BY <1>3, <1>4, <1>5, <1>6

LEMMA AddedMsgKeeps == ASSUME LibraryInv, NEW t \in Tasks, AddedMsg(t) PROVE LibraryInv'
<1>1. /\ up /\ task[t].kind = "add" /\ screen' = "subs" /\ waits' = 0 /\ shown' = List /\ Drop(t)
      /\ UNCHANGED <<disk, run, nav, choice, open, rows, ghosts>>
  BY DEF AddedMsg, At
<1>2. List' = List /\ List \in Seq(Subs)
  BY <1>1, ListKept, ListTyped DEF LibraryInv, disk
<1>3. /\ task' \in [Tasks -> TaskState] /\ TaskInv' /\ task'[t] = Idle
      /\ \A u \in Tasks \ {t} : task'[u] = task[u]
  BY <1>1, DropIs
<1>4. TypeOK'
  BY <1>1, <1>2, <1>3, LibraryAssumption DEF LibraryInv, TypeOK, disk, run, nav, ghosts
<1>5. waits = t
  BY <1>1 DEF LibraryInv, ScreenInv
<1>6. ScreenInv'
  BY <1>1, <1>3, <1>5, IdleFits DEF LibraryInv, ScreenInv, Readable, disk, run
<1>7. ASSUME ~strayed'  PROVE ListInv' /\ LoadInv' /\ OpenInv'
  <2>1. ListInv /\ UNCHANGED <<wanted, copies, dirs>>
    BY <1>1, <1>7 DEF LibraryInv, Straight, disk, ghosts
  <2>2. ListInv'
    BY <2>1, <1>1, <1>2, <1>3, IdleFits DEF ListInv
  <2> QED  BY <2>2, <1>1 DEF LoadInv, OpenInv
<1> QED  BY <1>3, <1>4, <1>6, <1>7 DEF LibraryInv, Straight

LEMMA RefreshDoneMsgKeeps ==
  ASSUME LibraryInv, NEW t \in Tasks, RefreshDoneMsg(t) PROVE LibraryInv'
<1>1. /\ up /\ task[t].kind = "refresh" /\ Drop(t)
      /\ UNCHANGED <<disk, run, nav, screen, shown, choice, open, ghosts>>
      /\ IF waits # t THEN UNCHANGED <<waits, rows>>
         ELSE waits' = 0 /\ rows' = IF task[t].ok THEN task[t].sub ELSE rows
  BY DEF RefreshDoneMsg, At
<1>2. List' = List
  BY <1>1, ListKept DEF disk
<1>3. /\ task' \in [Tasks -> TaskState] /\ TaskInv' /\ task'[t] = Idle
      /\ \A u \in Tasks \ {t} : task'[u] = task[u]
  BY <1>1, DropIs
<1>4. task[t].sub \in Subs
  BY <1>1 DEF LibraryInv, TaskInv, Fit
<1>5. TypeOK'
  BY <1>1, <1>3, <1>4, LibraryAssumption DEF LibraryInv, TypeOK, disk, run, nav, ghosts
<1>6. waits # 0 /\ waits # t => waits \in Tasks /\ Waited' = Waited
  BY <1>1, <1>3, WaitedIs DEF Waited
<1>7. waits = t => screen = "list" /\ Waited = task[t]
  BY <1>1, WaitedIs DEF Waited, Tasks
<1>8. ScreenInv'
  BY <1>1, <1>3, <1>6, <1>7, IdleFits DEF LibraryInv, ScreenInv, Readable, disk, run
<1>9. ASSUME ~strayed'  PROVE ListInv' /\ LoadInv' /\ OpenInv'
  <2>1. ListInv /\ LoadInv /\ OpenInv /\ UNCHANGED <<wanted, copies, dirs, loaded, geoDir>>
    BY <1>1, <1>9 DEF LibraryInv, Straight, disk, nav, ghosts
  <2>2. screen = "loading" => waits # 0 /\ waits # t
    BY <1>7 DEF LibraryInv, ScreenInv
  <2>3. ListInv'
    BY <2>1, <2>2, <1>1, <1>2, <1>3, <1>6, IdleFits DEF ListInv, run
  <2>4. LoadInv'
    BY <2>1, <2>2, <1>1, <1>2, <1>6 DEF LoadInv, GeoIs
  <2>5. OpenInv'
    BY <2>1, <1>1, <1>2, <1>6, <1>7 DEF OpenInv, GeoIs, Tasks
  <2> QED  BY <2>3, <2>4, <2>5
<1> QED  BY <1>3, <1>5, <1>8, <1>9 DEF LibraryInv, Straight

-----------------------------------------------------------------------------
LEMMA RefreshKeeps == ASSUME LibraryInv, Refresh PROVE LibraryInv'
<1>1. PICK t \in Tasks : Begin(t, NewTask("refresh", "fetch", open)) /\ waits' = t
  BY DEF Refresh
<1>2. /\ up /\ screen = "list" /\ waits = 0
      /\ UNCHANGED <<disk, run, nav, screen, shown, choice, open, rows, ghosts>>
  BY DEF Refresh
<1>3. open \in Subs
  BY <1>2 DEF LibraryInv, ScreenInv
<1>4. /\ task' \in [Tasks -> TaskState] /\ TaskInv'
      /\ \A u \in Tasks \ {t} : task'[u] = task[u]
      /\ task'[t].kind = "refresh" /\ task'[t].pc = "fetch" /\ task'[t].sub = open
      /\ task'[t].dir = Core /\ ~task'[t].left
  BY <1>1, <1>3, BegunIs
<1>5. t \in 0..MaxTasks /\ Waited' = task'[t]
  BY <1>1, LibraryAssumption DEF Tasks, Waited
<1>6. TypeOK'
  BY <1>1, <1>2, <1>4, <1>5 DEF LibraryInv, TypeOK, disk, run, nav, ghosts
<1>7. ScreenInv'
  <2>1. up' => Readable(keyed)'
    BY <1>2 DEF LibraryInv, ScreenInv, Readable, disk, run
  <2> QED  BY <2>1, <1>1, <1>2, <1>3, <1>4, <1>5, AllLeft DEF ScreenInv
<1>8. ASSUME ~strayed'  PROVE ListInv' /\ LoadInv' /\ OpenInv'
  <2>1. ListInv /\ OpenInv /\ List' = List /\ UNCHANGED <<wanted, copies, dirs, loaded, geoDir>>
    BY <1>2, <1>8, ListKept DEF LibraryInv, Straight, ghosts, disk, nav
  <2>2. ListInv'
    BY <2>1, <1>2, <1>4 DEF ListInv
  <2>3. OpenInv'
    BY <2>1, <1>2, <1>4, <1>5 DEF OpenInv, GeoIs
  <2> QED  BY <2>2, <2>3, <1>2 DEF LoadInv
<1> QED  BY <1>4, <1>6, <1>7, <1>8 DEF LibraryInv, Straight

\* Whoever leaves the list screen, or connects from it, leaves the refresh.
LEMMA LeaveRefreshIs ==
  ASSUME LibraryInv, screen = "list", LeaveRefresh
  PROVE  /\ task' \in [Tasks -> TaskState] /\ TaskInv' /\ waits' = 0
         /\ \A u \in Tasks : /\ task'[u].kind # "add"
                             /\ task'[u].pc \in {"idle", "done"} \/ task'[u].left
                             /\ task'[u].left \/ task'[u] = task[u]
<1>1. CASE waits = 0
  <2>1. task' = task /\ waits' = 0
    BY <1>1 DEF LeaveRefresh
  <2> QED  BY <1>1, <2>1, AllLeft DEF LibraryInv, TypeOK, TaskInv, Fit
<1>2. CASE waits # 0
  <2>1. waits \in Tasks /\ Waited.kind = "refresh"
    BY <1>2, WaitedIs
  <2>2. task' = [task EXCEPT ![waits].left = TRUE] /\ waits' = 0
    BY <1>2 DEF LeaveRefresh
  <2>3. /\ task' \in [Tasks -> TaskState] /\ TaskInv' /\ task'[waits].left
        /\ \A u \in Tasks \ {waits} : task'[u] = task[u]
        /\ \A u \in Tasks : task'[u].kind = task[u].kind /\ task'[u].pc = task[u].pc
    BY <2>1, <2>2, LeftIs
  <2>4. ASSUME NEW u \in Tasks
        PROVE  /\ task'[u].kind # "add"
               /\ task'[u].pc \in {"idle", "done"} \/ task'[u].left
    BY <2>1, <2>3 DEF LibraryInv, ScreenInv, Waited
  <2> QED  BY <2>2, <2>3, <2>4
<1> QED  BY <1>1, <1>2

LEMMA BackKeeps == ASSUME LibraryInv, Back PROVE LibraryInv'
<1>1. /\ up /\ screen = "list" /\ screen' = "subs" /\ shown' = List /\ open' = None /\ rows' = None
      /\ LeaveRefresh /\ UNCHANGED <<disk, run, nav, choice, ghosts>>
  BY DEF Back
<1>2. List' = List /\ List \in Seq(Subs)
  BY <1>1, ListKept, ListTyped DEF LibraryInv, disk
<1>3. /\ task' \in [Tasks -> TaskState] /\ TaskInv' /\ waits' = 0
      /\ \A u \in Tasks : /\ task'[u].kind # "add"
                          /\ task'[u].pc \in {"idle", "done"} \/ task'[u].left
                          /\ task'[u].left \/ task'[u] = task[u]
  BY <1>1, LeaveRefreshIs
<1>4. TypeOK'
  BY <1>1, <1>2, <1>3, LibraryAssumption DEF LibraryInv, TypeOK, disk, run, nav, ghosts
<1>5. ScreenInv'
  BY <1>1, <1>3 DEF LibraryInv, ScreenInv, Readable, disk, run
<1>6. ASSUME ~strayed'  PROVE ListInv' /\ LoadInv' /\ OpenInv'
  <2>1. ListInv /\ UNCHANGED <<wanted, copies, dirs>>
    BY <1>1, <1>6 DEF LibraryInv, Straight, disk, ghosts
  <2>2. ListInv'
    BY <2>1, <1>1, <1>2, <1>3 DEF ListInv
  <2> QED  BY <2>2, <1>1 DEF LoadInv, OpenInv
<1> QED  BY <1>3, <1>4, <1>5, <1>6 DEF LibraryInv, Straight

LEMMA ConnectKeeps == ASSUME LibraryInv, Connect PROVE LibraryInv'
<1>1. /\ up /\ screen = "list" /\ rows' = loaded /\ LeaveRefresh
      /\ UNCHANGED <<disk, run, nav, screen, shown, choice, open, ghosts>>
  BY DEF Connect
<1>2. List' = List
  BY <1>1, ListKept DEF disk
<1>3. /\ task' \in [Tasks -> TaskState] /\ TaskInv' /\ waits' = 0
      /\ \A u \in Tasks : /\ task'[u].kind # "add"
                          /\ task'[u].pc \in {"idle", "done"} \/ task'[u].left
                          /\ task'[u].left \/ task'[u] = task[u]
  BY <1>1, LeaveRefreshIs
<1>4. TypeOK'
  BY <1>1, <1>3, LibraryAssumption DEF LibraryInv, TypeOK, disk, run, nav, ghosts
<1>5. ScreenInv'
  BY <1>1, <1>3 DEF LibraryInv, ScreenInv, Readable, disk, run
<1>6. ASSUME ~strayed'  PROVE ListInv' /\ LoadInv' /\ OpenInv'
  <2>1. ListInv /\ OpenInv /\ UNCHANGED <<wanted, copies, dirs, loaded, geoDir>>
    BY <1>1, <1>6 DEF LibraryInv, Straight, disk, nav, ghosts
  <2>2. ListInv'
    BY <2>1, <1>1, <1>2, <1>3 DEF ListInv
  <2>3. OpenInv'
    BY <2>1, <1>1, <1>2, <1>3 DEF OpenInv, GeoIs
  <2> QED  BY <2>2, <2>3, <1>1 DEF LoadInv
<1> QED  BY <1>3, <1>4, <1>5, <1>6 DEF LibraryInv, Straight

-----------------------------------------------------------------------------
\* A list an earlier version left has each subscription once.
LEMMA LibraryInit == Init => LibraryInv
<1> SUFFICES ASSUME Init PROVE LibraryInv
  OBVIOUS
<1>1. PICK l \in {None} \cup (SetToAllKPermutations(Subs) \ {<<>>}) :
        plain = l /\ wanted = IF l = None THEN <<>> ELSE l
  BY DEF Init
<1>2. (l = None \/ l \in Seq(Subs)) /\ wanted \in Seq(Subs) /\ IsInjective(wanted)
  <2>1. CASE l = None
    BY <1>1, <2>1, EmptySeq DEF IsInjective
  <2>2. CASE l # None
    <3>1. PICK S \in SUBSET Subs : l \in SetToSeqs(S)
      BY <2>2 DEF SetToAllKPermutations
    <3>2. l \in [1..Cardinality(S) -> S]
          /\ \A i, j \in 1..Cardinality(S) : i # j => l[i] # l[j]
      BY <3>1 DEF SetToSeqs
    <3>3. Cardinality(S) \in Nat
      BY LibraryAssumption, FS_Subset, FS_CardinalityType
    <3>4. l \in Seq(Subs)
      BY <3>2, <3>3
    <3>5. IsInjective(l)
      BY <3>2 DEF IsInjective
    <3> QED  BY <1>1, <2>2, <3>4, <3>5
  <2> QED  BY <2>1, <2>2
<1>3. List = wanted
  <2>1. sealed = None
    BY DEF Init
  <2> QED  BY <1>1, <2>1 DEF List, Kept
<1>4. task \in [Tasks -> TaskState] /\ \A t \in Tasks : task[t] = Idle
  BY IdleFits DEF Init
<1>5. TypeOK
  <2>1. <<>> \in Seq(Subs) /\ 0 \in 0..MaxTasks
    BY EmptySeq, LibraryAssumption
  <2> QED  BY <2>1, <1>1, <1>2, <1>4 DEF Init, TypeOK
<1>6. TaskInv /\ ScreenInv
  BY <1>4, IdleFits DEF Init, TaskInv, ScreenInv
<1>7. ListInv /\ LoadInv /\ OpenInv
  BY <1>2, <1>3, <1>4, IdleFits DEF Init, ListInv, LoadInv, OpenInv
<1> QED  BY <1>5, <1>6, <1>7 DEF LibraryInv, Straight

\* The invariant the properties follow from, over every step of the user, of the
\* tasks and of a kill.
THEOREM LibraryInvariant == Spec => []LibraryInv
<1>1. ASSUME LibraryInv, UNCHANGED vars  PROVE LibraryInv'
  BY <1>1 DEF vars, disk, run, nav, menu, ghosts, LibraryInv, TypeOK, TaskInv, Fit, ScreenInv, Waited,
              Readable, Straight, ListInv, LoadInv, OpenInv, GeoIs, List, Kept
<1>2. ASSUME LibraryInv, NEW t \in Tasks, TaskNext(t)  PROVE LibraryInv'
  BY <1>2, LookKeeps, SaveToListKeeps, FetchKeeps, SaveCachedKeeps, UseGeoAssetsKeeps,
     InstallPanelGeoKeeps, SwitchKeeps, ReadToNameKeeps, WriteNameKeeps, CommitKeeps,
     LoadedMsgKeeps, AddedMsgKeeps, RefreshDoneMsgKeeps DEF TaskNext
<1>3. LibraryInv /\ [Next]_vars => LibraryInv'
  BY <1>1, <1>2, StartKeeps, StartCutKeeps, ExitKeeps, OpenSubscriptionKeeps, EscKeeps,
     AddSubscriptionKeeps, DeleteSubscriptionKeeps, DeleteCutKeeps, RefreshKeeps, BackKeeps,
     ConnectKeeps DEF Next
<1> QED  BY LibraryInit, <1>3, PTL DEF Spec

\* What is on disk, on the screen and in hand keeps the values it is meant to take.
THEOREM LibraryTypeOK == Spec => []TypeOK
BY LibraryInvariant, PTL DEF LibraryInv

\* The list screen connects with what it shows: whatever loads were left behind,
\* the profiles, the rows, the title and the databases are of one subscription,
\* and pruneGeoDirs has not taken those databases (LoadedMsg, commitLoad,
\* useGeoAssets), unless something left behind had an effect.
THEOREM OpenIsLoadedAlways == Spec => []OpenIsLoaded
<1>1. LibraryInv => OpenIsLoaded
  BY DEF LibraryInv, Straight, OpenInv, GeoIs, OpenIsLoaded
<1> QED  BY LibraryInvariant, <1>1, PTL

\* writeSubs, readSubs and RemoveSubscription keep the list the user made, through
\* sealing, kills and names, and a deletion takes the entry on the screen.
THEOREM ListIsUsersAlways == Spec => []ListIsUsers
<1>1. LibraryInv => ListIsUsers
  BY DEF LibraryInv, Straight, ListInv, ListIsUsers
<1> QED  BY LibraryInvariant, <1>1, PTL

\* RemoveCached goes with every deletion, and no answer is saved for a
\* subscription that is not listed.
THEOREM CopiesAreListedAlways == Spec => []CopiesAreListed
<1>1. LibraryInv => CopiesAreListed
  BY DEF LibraryInv, Straight, ListInv, CopiesAreListed
<1> QED  BY LibraryInvariant, <1>1, PTL

=============================================================================
