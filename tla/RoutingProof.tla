---------------------------- MODULE RoutingProof ----------------------------
(***************************************************************************)
(* What the runs check of CoreConfig and of TunRouting, for any            *)
(* subscriptions, lists and hosts.                                         *)
(*                                                                         *)
(* CoreConfig: a session's job holds the config it was given, and what the *)
(* properties say of it follows from how it was built.  The invariant is   *)
(* that it was built so, of the row picked and of the panel's profile as   *)
(* they are now; each property is then a fact about the operators that     *)
(* build, step by step.  Alike is what the last of those steps keeps: the  *)
(* same outbounds but for a mark and a proof, and the same rules.          *)
(*                                                                         *)
(* TunRouting: Remembered and Owned do not follow from themselves.  A      *)
(* teardown forgets what it has not kept, so the invariant says where an   *)
(* entry of ours is while one walks.                                       *)
(***************************************************************************)
EXTENDS TunRouting, CoreConfig, SequenceTheorems, WellFoundedInduction, TLAPS

-----------------------------------------------------------------------------
(* TunRouting. *)

\* An entry is announced before it is added, onto a host without ours.
AddInv ==
  /\ pc = "resolve" => ours = {}
  /\ pc = "add" => at \in record

\* A teardown has seen every entry of ours, and has it before it or kept.
WalkInv ==
  pc = "delete" => ours \subseteq seen /\ ours \subseteq left \cup kept

\* Undisturbed, what was to be added before the next entry is there, and what
\* was visited is gone.
Undisturbed == moves = 0 /\ faults = 0

OrderInv ==
  Undisturbed =>
    /\ pc \in {"note", "add"} => \A d \in Entries \ ViaTun : d < at => d \in ours
    /\ pc = "delete" => ours \subseteq left

RoutingInv ==
  /\ TypeOK
  /\ Remembered
  /\ Owned
  /\ CleanIsClean
  /\ ExceptionsFirst
  /\ AddInv
  /\ WalkInv
  /\ OrderInv

-----------------------------------------------------------------------------
\* A run starts owning nothing, on a host without entries of ours.
LEMMA InitInv == Init => RoutingInv
<1> SUFFICES ASSUME Init PROVE RoutingInv
  OBVIOUS
<1>1. 1 \in Entries
  BY TunRoutingAssumption DEF Entries
<1>2. TypeOK
  BY <1>1 DEF Init, TypeOK
<1>3. Remembered /\ Owned /\ CleanIsClean /\ AddInv /\ WalkInv
  BY DEF Init, Remembered, Owned, CleanIsClean, AddInv, WalkInv
<1>4. ExceptionsFirst /\ OrderInv
  BY DEF Init, ExceptionsFirst, OrderInv
<1> QED  BY <1>2, <1>3, <1>4 DEF RoutingInv

\* EnableTunRouting.  Only Add puts an entry of ours on the host, and the record
\* names it by then.
LEMMA EnableInv == ASSUME RoutingInv, EnableNext PROVE RoutingInv'
<1> USE DEF RoutingInv, TypeOK, Remembered, Owned, CleanIsClean, AddInv, WalkInv
<1>1. CASE Enable
  BY <1>1 DEF Enable, BeginTeardown, Return, host, owned, walk, ghosts, bounds,
              ExceptionsFirst, OrderInv, Undisturbed
<1>2. CASE Refuse
  BY <1>2 DEF Refuse, Return, host, owned, walk, ghosts, bounds,
              ExceptionsFirst, OrderInv, Undisturbed
<1>3. CASE Preflight
  <2>1. at' = 1 /\ ours = {} /\ 1 \in Entries
    BY <1>3, TunRoutingAssumption DEF Preflight, Entries
  <2>2. OrderInv'
    BY <1>3, <2>1 DEF Preflight, OrderInv, Entries, host, bounds
  <2> QED
    BY <1>3, <2>1, <2>2 DEF Preflight, host, owned, walk, ghosts, bounds, ExceptionsFirst
<1>4. CASE Note
  BY <1>4 DEF Note, Announced, host, walk, ghosts, bounds,
              ExceptionsFirst, OrderInv, Undisturbed
<1>5. CASE Add
  <2>1. TypeOK'
    BY <1>5, TunRoutingAssumption DEF Add, Done, Entries, bounds, walk
  <2>2. Remembered' /\ Owned' /\ CleanIsClean' /\ AddInv' /\ WalkInv'
    BY <1>5 DEF Add
  <2>3. ASSUME Undisturbed', NEW d \in Entries \ ViaTun, d < at  PROVE d \in ours
    BY <1>5, <2>3 DEF Add, OrderInv, Undisturbed, bounds
  <2>4. ExceptionsFirst'
    BY <1>5, <2>3 DEF Add, ExceptionsFirst, Undisturbed, bounds
  <2>5. OrderInv'
    BY <1>5, <2>3 DEF Add, OrderInv, Entries
  <2> QED  BY <2>1, <2>2, <2>4, <2>5
<1>6. CASE AddFails
  BY <1>6 DEF AddFails, Fault, NoFault, BeginTeardown, Return, host, owned, walk, ghosts,
              bounds, ExceptionsFirst, OrderInv, Undisturbed
<1>7. CASE Reread
  BY <1>7 DEF Reread, Return, host, owned, walk, ghosts, bounds,
              ExceptionsFirst, OrderInv, Undisturbed
<1>8. CASE RereadFails
  BY <1>8 DEF RereadFails, Fault, NoFault, BeginTeardown, Return, host, owned, walk,
              ghosts, bounds, ExceptionsFirst, OrderInv, Undisturbed
<1> QED
  BY <1>1, <1>2, <1>3, <1>4, <1>5, <1>6, <1>7, <1>8 DEF EnableNext

\* DisableTunRouting.  The walk goes from the listing to Settle without losing an
\* entry of ours, and from the newest to the oldest.
LEMMA DisableInv == ASSUME RoutingInv, DisableNext PROVE RoutingInv'
<1> USE DEF RoutingInv, TypeOK, Remembered, Owned, CleanIsClean, AddInv, WalkInv
<1>1. CASE Disable
  BY <1>1 DEF Disable, BeginTeardown, Return, host, owned, walk, ghosts, bounds,
              ExceptionsFirst, OrderInv, Undisturbed
<1>2. CASE List
  BY <1>2 DEF List, Shown, host, owned, bounds, ExceptionsFirst, OrderInv, Undisturbed
<1>3. CASE ListFails
  BY <1>3 DEF ListFails, Fault, EndTeardown, Return, host, owned, walk, ghosts, bounds,
              ExceptionsFirst, OrderInv, Undisturbed
<1>4. CASE Settle
  <2>1. ours \subseteq kept
    BY <1>4 DEF Settle
  <2> QED
    BY <1>4, <2>1 DEF Settle, EndTeardown, Return, host, walk, ghosts, bounds,
                      ExceptionsFirst, OrderInv, Undisturbed
<1>5. ASSUME NEW e \in Entries, Skip(e)  PROVE RoutingInv'
  BY <1>5 DEF Skip, host, owned, ghosts, bounds, ExceptionsFirst, OrderInv, Undisturbed
<1>6. ASSUME NEW e \in Entries, Delete(e)  PROVE RoutingInv'
  <2>1. TypeOK'
    BY <1>6 DEF Delete, owned, ghosts, bounds
  <2>2. Remembered' /\ Owned' /\ CleanIsClean' /\ AddInv' /\ WalkInv'
    BY <1>6 DEF Delete, owned
  <2>3. ExceptionsFirst'
    <3> SUFFICES ASSUME moves = 0, faults = 0,
                        NEW c \in ours', NEW d \in Entries \ ViaTun, d < c
                 PROVE  d \in ours'
      BY <1>6 DEF ExceptionsFirst, Delete, bounds
    <3>1. c \in ours /\ d \in ours
      BY <1>6 DEF ExceptionsFirst, Delete
    <3>2. c \in left
      BY <1>6, <3>1 DEF OrderInv, Undisturbed, Delete
    <3>3. c <= e
      BY <1>6, <3>2 DEF Delete, Next2Go
    <3>4. d # e
      BY <3>1, <3>3 DEF Entries
    <3> QED  BY <1>6, <3>1, <3>4 DEF Delete
  <2>4. OrderInv'
    BY <1>6 DEF Delete, OrderInv, Undisturbed, bounds
  <2> QED  BY <2>1, <2>2, <2>3, <2>4
<1>7. ASSUME NEW e \in Entries, DeleteFails(e)  PROVE RoutingInv'
  BY <1>7 DEF DeleteFails, Keep, Fault, NoFault, host, owned, ghosts,
              ExceptionsFirst, OrderInv, Undisturbed
<1> QED
  BY <1>1, <1>2, <1>3, <1>4, <1>5, <1>6, <1>7 DEF DisableNext

\* A run that ends forgets what it owns and leaves the record to the next.
LEMMA RunInv == ASSUME RoutingInv, Crash \/ Recover PROVE RoutingInv'
<1> USE DEF RoutingInv, TypeOK, Remembered, Owned, CleanIsClean, AddInv, WalkInv
<1>1. CASE Crash
  BY <1>1 DEF Crash, host, walk, ExceptionsFirst, OrderInv, Undisturbed
<1>2. CASE Recover
  BY <1>2 DEF Recover, host, walk, ghosts, bounds, ExceptionsFirst, OrderInv, Undisturbed
<1> QED  BY <1>1, <1>2

\* The device takes only routes through it, and other programs' moves are what
\* the order is not claimed over.
LEMMA WorldInv == ASSUME RoutingInv, TunComes \/ TunGoes \/ OthersNext PROVE RoutingInv'
<1> USE DEF RoutingInv, TypeOK, Remembered, Owned, CleanIsClean, AddInv, WalkInv
<1>1. CASE TunComes
  BY <1>1 DEF TunComes, owned, walk, ghosts, bounds, ExceptionsFirst, OrderInv, Undisturbed
<1>2. CASE TunGoes
  <2>1. TypeOK' /\ Remembered' /\ Owned' /\ CleanIsClean' /\ AddInv' /\ WalkInv'
    BY <1>2 DEF TunGoes, owned, walk, ghosts, bounds
  <2>2. ExceptionsFirst'
    BY <1>2 DEF TunGoes, ExceptionsFirst, bounds
  <2>3. OrderInv'
    BY <1>2 DEF TunGoes, OrderInv, Undisturbed, bounds, walk
  <2> QED  BY <2>1, <2>2, <2>3
<1>3. ASSUME NEW e \in Entries,
             OthersTwin(e) \/ OthersAdd(e) \/ OthersReplace(e) \/ OthersRemove(e)
      PROVE  RoutingInv'
  <2>1. Move /\ ours' \subseteq ours
    BY <1>3 DEF OthersTwin, OthersAdd, OthersReplace, OthersRemove
  <2>2. moves' # 0
    BY <2>1 DEF Move
  <2>3. /\ ours' \subseteq Entries /\ twin' \subseteq Entries
        /\ other' \in [Entries -> {"none", "beside", "inplace"}]
    BY <1>3 DEF OthersTwin, OthersAdd, OthersReplace, OthersRemove
  <2>4. TypeOK' /\ Remembered' /\ Owned' /\ CleanIsClean' /\ AddInv' /\ WalkInv'
    BY <2>1, <2>3 DEF Move, owned, walk, ghosts
  <2> QED  BY <2>2, <2>4 DEF ExceptionsFirst, OrderInv, Undisturbed
<1> QED
  BY <1>1, <1>2, <1>3 DEF OthersNext

\* The invariant the properties follow from, over every step of the calls, of the
\* run's end and of the rest of the host.
THEOREM RoutingInvariant == Spec => []RoutingInv
<1>1. ASSUME RoutingInv, UNCHANGED vars  PROVE RoutingInv'
  BY <1>1 DEF vars, host, owned, walk, ghosts, bounds, RoutingInv, TypeOK, Remembered, Owned,
              CleanIsClean, ExceptionsFirst, AddInv, WalkInv, OrderInv, Undisturbed
<1>2. RoutingInv /\ [Next]_vars => RoutingInv'
  BY <1>1, EnableInv, DisableInv, RunInv, WorldInv DEF Next
<1> QED  BY InitInv, <1>2, PTL DEF Spec

-----------------------------------------------------------------------------
\* The variables keep the values they are meant to take: the loop of
\* EnableTunRouting never runs past its last entry.
THEOREM TunRoutingTypeOK == Spec => []TypeOK
BY RoutingInvariant, PTL DEF RoutingInv

\* Whenever the run is killed, the journal names every entry of ours that is on
\* the host (journalRoutes before each add, and after the teardown).
THEOREM RememberedAlways == Spec => []Remembered
BY RoutingInvariant, PTL DEF RoutingInv

\* A live run owns every entry of ours, so a later teardown still visits it.
THEOREM OwnedAlways == Spec => []Owned
BY RoutingInvariant, PTL DEF RoutingInv

\* EnableTunRouting that refuses, and DisableTunRouting that succeeds, leave
\* nothing of ours behind.
THEOREM CleanIsCleanAlways == Spec => []CleanIsClean
BY RoutingInvariant, PTL DEF RoutingInv

\* Of an undisturbed host, no moment of any call has a capturing entry without
\* the exceptions that keep the core's own traffic out of it.
THEOREM ExceptionsFirstAlways == Spec => []ExceptionsFirst
BY RoutingInvariant, PTL DEF RoutingInv

-----------------------------------------------------------------------------
\* A place in the tables holds one route, and a listing shows it once.
HolderInv ==
  /\ ours \cap twin = {}
  /\ \A e \in ours \cup twin : other[e] # "inplace"
  /\ pc = "delete" => seen \cap held = {}

\* Adding, replacing and listing respect that.
LEMMA HolderStep == ASSUME TypeOK, HolderInv, [Next]_vars PROVE HolderInv'
<1> USE DEF HolderInv
<1>1. CASE UNCHANGED vars
  BY <1>1 DEF vars, host, walk, ghosts
<1>2. CASE EnableNext
  <2>1. CASE Add
    BY <2>1 DEF Add, Addable, walk
  <2>2. CASE ~Add
    BY <1>2, <2>2 DEF EnableNext, Enable, Refuse, Preflight, Note, AddFails, Reread,
                      RereadFails, BeginTeardown, Return, host, walk, ghosts
  <2> QED  BY <2>1, <2>2
<1>3. CASE DisableNext
  <2>1. CASE List
    BY <2>1 DEF List, Shown, host
  <2>2. ASSUME NEW e \in Entries, Delete(e)  PROVE HolderInv'
    BY <2>2 DEF Delete, TypeOK, ghosts
  <2>3. CASE Disable \/ ListFails \/ Settle \/ \E e \in Entries : Skip(e) \/ DeleteFails(e)
    BY <2>3 DEF Disable, ListFails, Settle, Skip, DeleteFails, BeginTeardown, EndTeardown,
                Return, host, walk, ghosts
  <2> QED  BY <1>3, <2>1, <2>2, <2>3 DEF DisableNext
<1>4. CASE Crash \/ Recover \/ TunComes \/ TunGoes
  BY <1>4 DEF Crash, Recover, TunComes, TunGoes, host, walk, ghosts
<1>5. ASSUME NEW e \in Entries,
             OthersTwin(e) \/ OthersAdd(e) \/ OthersReplace(e) \/ OthersRemove(e)
      PROVE  HolderInv'
  BY <1>5 DEF OthersTwin, OthersAdd, OthersReplace, OthersRemove, Move, Addable, TypeOK,
              walk, ghosts
<1> QED
  BY <1>1, <1>2, <1>3, <1>4, <1>5 DEF Next, OthersNext

\* del takes away no route that the teardown's listing had shown to be another
\* program's.
THEOREM OthersKeptAlways == Spec => OthersKept
<1> DEFINE Kept == \A e \in held : other[e] # "none" => other'[e] # "none"
<1>1. Init => HolderInv
  BY DEF Init, HolderInv
<1>2. TypeOK /\ HolderInv /\ [Next]_vars => HolderInv'
  BY HolderStep
<1>3. TypeOK /\ HolderInv /\ [Next]_vars => [moves' = moves => Kept]_vars
  <2> SUFFICES ASSUME TypeOK, HolderInv, Next, moves' = moves  PROVE Kept
    OBVIOUS
  <2>1. ASSUME NEW e \in Entries, Delete(e)  PROVE Kept
    BY <2>1 DEF Delete, HolderInv, TypeOK
  <2>2. CASE ~(\E e \in Entries : Delete(e)) /\ ~Move
    <3>1. other' = other
      BY <2>2 DEF Next, EnableNext, DisableNext, OthersNext, Enable, Refuse, Preflight, Note,
                  Add, AddFails, Reread, RereadFails, Disable, List, ListFails, Settle, Skip,
                  DeleteFails, Crash, Recover, TunComes, TunGoes, OthersTwin, OthersAdd,
                  OthersReplace, OthersRemove, host
    <3> QED  BY <3>1
  <2>3. CASE Move
    BY <2>3 DEF Move, TypeOK
  <2> QED  BY <2>1, <2>2, <2>3
<1> QED
  BY TunRoutingTypeOK, <1>1, <1>2, <1>3, PTL DEF Spec, OthersKept

-----------------------------------------------------------------------------
(* CoreConfig. *)

\* A set of numbers that is not empty has its least.
LEMMA MinIs ==
  ASSUME NEW ns \in SUBSET Nat, ns # {}
  PROVE  Min(ns) \in ns /\ \A n \in ns : Min(ns) <= n
<1> DEFINE R == OpToRel(<, Nat)
<1>1. PICK m \in ns : \A n \in ns : <<n, m>> \notin R
  <2> HIDE DEF R
  <2> QED  BY NatLessThanWellFounded, WFMin DEF R
<1>2. \A n \in ns : ~(n < m)
  BY <1>1 DEF OpToRel
<1>3. \A n \in ns : m <= n
  BY <1>2
<1> QED  BY <1>1, <1>3 DEF Min

\* The first rule that holds decides.
LEMMA WayIs ==
  ASSUME NEW cfg \in Config, NEW p, NEW i \in DOMAIN cfg.rules,
         Holds(cfg.rules[i], p), \A j \in 1..(i - 1) : ~Holds(cfg.rules[j], p)
  PROVE  Way(cfg, p) = Behind(cfg, cfg.rules[i])
<1>1. cfg.rules \in Seq(RuleSet)
  BY DEF Config
<1>2. Hits(cfg, p) \in SUBSET Nat /\ i \in Hits(cfg, p)
  BY <1>1 DEF Hits
<1>3. Min(Hits(cfg, p)) \in Hits(cfg, p) /\ \A n \in Hits(cfg, p) : Min(Hits(cfg, p)) <= n
  BY <1>2, MinIs
<1> DEFINE m == Min(Hits(cfg, p))
<1>4. m \in DOMAIN cfg.rules /\ Holds(cfg.rules[m], p) /\ m <= i
  BY <1>2, <1>3 DEF Hits
<1>5. m = i
  <2> HIDE DEF m
  <2>1. m \in Nat /\ i \in Nat /\ (m < i => m \in 1..(i - 1))
    BY <1>1, <1>4
  <2> QED  BY <2>1, <1>4
<1> QED  BY <1>2, <1>5 DEF Way

\* Where a rule holds, there is a first that does.
LEMMA FirstHit ==
  ASSUME NEW cfg \in Config, NEW p, Hits(cfg, p) # {}
  PROVE  \E i \in DOMAIN cfg.rules :
            Holds(cfg.rules[i], p) /\ \A j \in 1..(i - 1) : ~Holds(cfg.rules[j], p)
<1>1. cfg.rules \in Seq(RuleSet)
  BY DEF Config
<1>2. Hits(cfg, p) \in SUBSET Nat
  BY <1>1 DEF Hits
<1>3. Min(Hits(cfg, p)) \in Hits(cfg, p) /\ \A n \in Hits(cfg, p) : Min(Hits(cfg, p)) <= n
  BY <1>2, MinIs
<1> DEFINE i == Min(Hits(cfg, p))
<1>4. i \in DOMAIN cfg.rules /\ Holds(cfg.rules[i], p) /\ i \in Nat
  BY <1>2, <1>3 DEF Hits
<1>5. ASSUME NEW j \in 1..(i - 1), Holds(cfg.rules[j], p)  PROVE FALSE
  <2>1. j \in Hits(cfg, p)
    BY <1>1, <1>4, <1>5 DEF Hits
  <2> QED  BY <2>1, <1>3, <1>4
<1> QED  BY <1>4, <1>5

\* A rule with no balancer leads to the outbounds of its tag, one with a balancer
\* to those its balancers are over.
LEMMA WayWithin ==
  ASSUME NEW cfg \in Config, NEW p, 1 \in DOMAIN cfg.outbounds
  PROVE  Way(cfg, p) \subseteq Outbounds(cfg)
<1>1. cfg.outbounds \in Seq(OutboundSet)
  BY DEF Config
<1>2. cfg.outbounds[1] \in Outbounds(cfg)
  BY <1>1 DEF Outbounds, ToSet
<1> QED  BY <1>2 DEF Way, Behind
-----------------------------------------------------------------------------
\* f has the numbers ns, in their order.
Ordered(f, ns) ==
  /\ \A i, j \in DOMAIN f : i < j => f[i] < f[j]
  /\ \A n \in ns : \E i \in DOMAIN f : f[i] = n

\* There is always one.
LEMMA OrderedIs ==
  ASSUME NEW max \in Nat, NEW ns \in SUBSET (1..max)
  PROVE  \E n \in 0..max : \E f \in [1..n -> ns] : Ordered(f, ns)
<1> DEFINE Good(k) == \A S \in SUBSET (1..k) : \E n \in 0..k : \E f \in [1..n -> S] : Ordered(f, S)
           Bad == {k \in Nat : ~Good(k)}
<1>1. Good(0)
  <2> TAKE S \in SUBSET (1..0)
  <2>1. 0 \in 0..0 /\ S = {}
    OBVIOUS
  <2>2. [i \in 1..0 |-> 0] \in [1..0 -> S] /\ Ordered([i \in 1..0 |-> 0], S)
    BY <2>1 DEF Ordered
  <2> QED  BY <2>1, <2>2
<1>2. ASSUME NEW k \in Nat, Good(k)  PROVE Good(k + 1)
  <2> TAKE S \in SUBSET (1..(k + 1))
  <2> DEFINE T == S \ {k + 1}
  <2>1. T \in SUBSET (1..k)
    OBVIOUS
  <2>2. PICK n \in 0..k : \E f \in [1..n -> T] : Ordered(f, T)
    BY <2>1, <1>2
  <2>3. PICK f \in [1..n -> T] : Ordered(f, T)
    BY <2>2
  <2>4. CASE k + 1 \notin S
    <3>1. T = S /\ n \in 0..(k + 1)
      BY <2>4
    <3> QED  BY <3>1, <2>3
  <2>5. CASE k + 1 \in S
    <3> DEFINE g == [i \in 1..(n + 1) |-> IF i <= n THEN f[i] ELSE k + 1]
    <3>1. n + 1 \in 0..(k + 1)
      OBVIOUS
    <3>2. g \in [1..(n + 1) -> S]
      BY <2>5, <2>3
    <3>3. ASSUME NEW i \in 1..(n + 1), NEW j \in 1..(n + 1), i < j  PROVE g[i] < g[j]
      <4>1. i <= n /\ i \in 1..n /\ g[i] = f[i]
        BY <3>3
      <4>4. f[i] \in 1..k
        BY <4>1, <2>1, <2>3
      <4>2. CASE j <= n
        <5>1. j \in 1..n /\ g[j] = f[j]
          BY <4>2
        <5> QED  BY <5>1, <4>1, <3>3, <2>3 DEF Ordered
      <4>3. CASE ~(j <= n)
        BY <4>1, <4>4, <4>3
      <4> QED  BY <4>2, <4>3
    <3>4. ASSUME NEW m \in S  PROVE \E i \in 1..(n + 1) : g[i] = m
      <4>1. CASE m = k + 1
        <5>1. n + 1 \in 1..(n + 1) /\ g[n + 1] = k + 1
          OBVIOUS
        <5> QED  BY <4>1, <5>1
      <4>2. CASE m # k + 1
        <5>1. PICK i \in 1..n : f[i] = m
          BY <4>2, <2>3 DEF Ordered
        <5>2. i \in 1..(n + 1) /\ g[i] = m
          BY <5>1
        <5> QED  BY <5>2
      <4> QED  BY <4>1, <4>2
    <3>5. Ordered(g, S)
      <4>1. DOMAIN g = 1..(n + 1)
        OBVIOUS
      <4> HIDE DEF g
      <4> QED  BY <4>1, <3>3, <3>4 DEF Ordered
    <3> HIDE DEF g
    <3> QED  BY <3>1, <3>2, <3>5
  <2> QED  BY <2>4, <2>5
<1>3. CASE Bad # {}
  <2>1. Min(Bad) \in Bad /\ \A k \in Bad : Min(Bad) <= k
    <3>1. Bad \in SUBSET Nat
      OBVIOUS
    <3> HIDE DEF Bad
    <3> QED  BY <3>1, <1>3, MinIs
  <2> DEFINE m == Min(Bad)
  <2>2. m \in Nat /\ ~Good(m) /\ \A k \in Nat : k < m => Good(k)
    <3>1. m \in Nat /\ ~Good(m) /\ \A k \in Nat : ~Good(k) => m <= k
      BY <2>1
    <3> HIDE DEF m, Good
    <3> QED  BY <3>1
  <2> HIDE DEF m, Good
  <2>3. m # 0
    BY <2>2, <1>1
  <2>4. m - 1 \in Nat /\ Good(m - 1) /\ m = (m - 1) + 1
    BY <2>2, <2>3
  <2> QED  BY <2>4, <2>2, <1>2
<1>4. CASE Bad = {}
  <2>1. Good(max)
    BY <1>4
  <2> QED  BY <2>1
<1> QED  BY <1>3, <1>4

\* InOrder has each of the numbers once, the lesser before the greater.
LEMMA InOrderIs ==
  ASSUME NEW max \in Nat, NEW ns \in SUBSET (1..max)
  PROVE  /\ \E n \in 0..max : InOrder(ns, max) \in [1..n -> ns]
         /\ Ordered(InOrder(ns, max), ns)
<1> DEFINE F == UNION {[1..n -> ns] : n \in 0..max}
<1>1. PICK f \in F : Ordered(f, ns)
  BY OrderedIs
<1>2. InOrder(ns, max) = CHOOSE g \in F : Ordered(g, ns)
  BY DEF InOrder, Ordered
<1>3. InOrder(ns, max) \in F /\ Ordered(InOrder(ns, max), ns)
  <2> HIDE DEF F
  <2> QED  BY <1>1, <1>2
<1> QED  BY <1>3
-----------------------------------------------------------------------------
(* Configs that lead the same way. *)

\* What a core makes of two outbounds is the same but for how it dials.
SameOut(o, q) == o.tag = q.tag /\ o.proto = q.proto /\ o.server = q.server

Alike(a, b) ==
  /\ a.rules = b.rules /\ a.balancers = b.balancers
  /\ DOMAIN a.outbounds = DOMAIN b.outbounds
  /\ \A i \in DOMAIN a.outbounds : SameOut(a.outbounds[i], b.outbounds[i])

\* To be alike goes both ways, on from one to the next, and from each to itself.
LEMMA AlikeBack ==
  ASSUME NEW a, NEW b, Alike(a, b)  PROVE Alike(b, a)
BY DEF Alike, SameOut

LEMMA AlikeOn ==
  ASSUME NEW a, NEW b, NEW c, Alike(a, b), Alike(b, c)  PROVE Alike(a, c)
BY DEF Alike, SameOut

LEMMA AlikeSelf == ASSUME NEW a PROVE Alike(a, a)
BY DEF Alike, SameOut

\* What is an outbound of one is, but for its mark and its proof, one of the other.
LEMMA AlikeOutbounds ==
  ASSUME NEW a, NEW b, Alike(a, b), NEW o \in Outbounds(a)
  PROVE  \E q \in Outbounds(b) : SameOut(o, q)
BY DEF Alike, Outbounds, ToSet

\* A connection leaves by the same outbounds.
LEMMA AlikeWay ==
  ASSUME NEW a \in Config, NEW b \in Config, Alike(a, b), 1 \in DOMAIN a.outbounds,
         NEW p, NEW o \in Way(a, p)
  PROVE  \E q \in Way(b, p) : SameOut(o, q)
<1>1. Hits(a, p) = Hits(b, p)
  BY DEF Alike, Hits
<1>2. CASE Hits(a, p) = {}
  <2>1. o = a.outbounds[1] /\ Way(b, p) = {b.outbounds[1]}
    BY <1>1, <1>2 DEF Way
  <2> QED  BY <2>1 DEF Alike
<1>3. CASE Hits(a, p) # {}
  <2> DEFINE r == a.rules[Min(Hits(a, p))]
  <2>1. o \in Behind(a, r) /\ Way(b, p) = Behind(b, r)
    BY <1>1, <1>3 DEF Way, Alike
  <2> HIDE DEF r
  <2> DEFINE tags == IF r.balancer = None THEN {r.tag}
                     ELSE UNION {c.over : c \in {d \in ToSet(a.balancers) : d.tag = r.balancer}}
  <2>2. Behind(a, r) = {q \in Outbounds(a) : q.tag \in tags}
    BY DEF Behind
  <2>3. Behind(b, r) = {q \in Outbounds(b) : q.tag \in tags}
    BY DEF Behind, Alike
  <2> HIDE DEF tags
  <2>4. PICK q \in Outbounds(b) : SameOut(o, q)
    BY <2>1, <2>2, AlikeOutbounds
  <2> QED  BY <2>1, <2>2, <2>3, <2>4 DEF SameOut
<1> QED  BY <1>2, <1>3

\* Outbounds that are the same in that way are both servers or both local.
LEMMA AlikeLocal ==
  ASSUME NEW o, NEW q, SameOut(o, q)  PROVE IsLocal(o) <=> IsLocal(q)
BY DEF SameOut, IsLocal

\* Configs that are alike send a connection the same way.
LEMMA AlikeThrough ==
  ASSUME NEW a \in Config, NEW b \in Config, Alike(a, b), 1 \in DOMAIN a.outbounds, NEW p
  PROVE  /\ Through(a, p) = Through(b, p) /\ Answer(a, p) = Answer(b, p)
         /\ (\A o \in Way(a, p) : IsLocal(o)) <=> (\A o \in Way(b, p) : IsLocal(o))
         /\ (\A o \in Way(a, p) : ~IsLocal(o)) <=> (\A o \in Way(b, p) : ~IsLocal(o))
<1>1. Alike(b, a) /\ 1 \in DOMAIN b.outbounds
  BY AlikeBack DEF Alike
<1>2. \A o \in Way(a, p) : \E q \in Way(b, p) : SameOut(o, q)
  BY AlikeWay
<1>3. \A o \in Way(b, p) : \E q \in Way(a, p) : SameOut(o, q)
  BY <1>1, AlikeWay
<1>4. \A o, q : SameOut(o, q) => /\ o.server = q.server /\ o.proto = q.proto
                                /\ (IsLocal(o) <=> IsLocal(q))
  BY AlikeLocal DEF SameOut
<1>5. Through(a, p) = Through(b, p)
  BY <1>2, <1>3, <1>4 DEF Through
<1>6. Answer(a, p) = Answer(b, p)
  BY <1>2, <1>3, <1>4 DEF Answer
<1> QED  BY <1>2, <1>3, <1>4, <1>5, <1>6

\* They have the same tags,
LEMMA AlikeTags ==
  ASSUME NEW a, NEW b, Alike(a, b)
  PROVE  Tags(a) = Tags(b) /\ LocalTags(a) = LocalTags(b)
<1>1. Alike(b, a)
  BY AlikeBack
<1>2. \A o \in Outbounds(a) : \E q \in Outbounds(b) : SameOut(o, q)
  BY AlikeOutbounds
<1>3. \A o \in Outbounds(b) : \E q \in Outbounds(a) : SameOut(o, q)
  BY <1>1, AlikeOutbounds
<1>4. \A o, q : SameOut(o, q) => o.tag = q.tag /\ (IsLocal(o) <=> IsLocal(q))
  BY AlikeLocal DEF SameOut
<1>5. Tags(a) = Tags(b)
  BY <1>2, <1>3, <1>4 DEF Tags
<1>6. LocalTags(a) = LocalTags(b)
  BY <1>2, <1>3, <1>4 DEF LocalTags
<1> QED  BY <1>5, <1>6

\* and a core starts on both or on neither.
LEMMA AlikeStarts ==
  ASSUME NEW a, NEW b, Alike(a, b), a.outbounds \in Seq(OutboundSet)
  PROVE  /\ Starts(a) <=> Starts(b)
         /\ BalancesServers(a) <=> BalancesServers(b)
         /\ FirstTunnelTag(a) = FirstTunnelTag(b)
<1>1. Tags(a) = Tags(b) /\ LocalTags(a) = LocalTags(b)
  BY AlikeTags
<1>2. /\ a.rules = b.rules /\ a.balancers = b.balancers
      /\ DOMAIN a.outbounds = DOMAIN b.outbounds
      /\ \A i \in DOMAIN a.outbounds : /\ a.outbounds[i].tag = b.outbounds[i].tag
                                       /\ IsLocal(a.outbounds[i]) <=> IsLocal(b.outbounds[i])
  BY AlikeLocal DEF Alike, SameOut
<1>3. Starts(a) <=> Starts(b)
  BY <1>1, <1>2 DEF Starts
<1>4. BalancesServers(a) <=> BalancesServers(b)
  BY <1>1, <1>2 DEF BalancesServers
<1>5. FirstTunnelTag(a) = FirstTunnelTag(b)
  <2> DEFINE A(c) == {i \in DOMAIN c.outbounds : c.outbounds[i].tag # None /\ ~IsLocal(c.outbounds[i])}
  <2>1. A(a) = A(b)
    BY <1>2
  <2>2. CASE A(a) = {}
    BY <2>1, <2>2 DEF FirstTunnelTag
  <2>3. CASE A(a) # {}
    <3>1. FirstTunnelTag(a) = a.outbounds[Min(A(a))].tag
      BY <2>3 DEF FirstTunnelTag
    <3>2. FirstTunnelTag(b) = b.outbounds[Min(A(b))].tag
      BY <2>1, <2>3 DEF FirstTunnelTag
    <3>3. Min(A(a)) \in A(a)
      <4>1. A(a) \in SUBSET Nat
        OBVIOUS
      <4> HIDE DEF A
      <4> QED  BY <4>1, <2>3, MinIs
    <3>4. Min(A(a)) \in DOMAIN a.outbounds
      BY <3>3
    <3> QED  BY <3>1, <3>2, <3>4, <2>1, <1>2
  <2> QED  BY <2>2, <2>3
<1> QED  BY <1>3, <1>4, <1>5
-----------------------------------------------------------------------------
(* The steps that every config ends with. *)

\* What clears an outbound's proof, and what marks a direct one, leaves it alike.
LEMMA ClearIs ==
  ASSUME NEW o \in OutboundSet
  PROVE  ClearInsecure(o) \in OutboundSet /\ SameOut(ClearInsecure(o), o)
<1>1. CASE o.insecure \in Flags
  <2>1. ClearInsecure(o) = [o EXCEPT !.insecure = "off"]
    BY <1>1 DEF ClearInsecure
  <2> QED  BY <2>1 DEF OutboundSet, SameOut
<1>2. CASE o.insecure \notin Flags
  BY <1>2 DEF ClearInsecure, SameOut
<1> QED  BY <1>1, <1>2

LEMMA BindIs ==
  ASSUME NEW o \in OutboundSet
  PROVE  /\ Bind(o) \in OutboundSet /\ SameOut(Bind(o), o)
         /\ Bind(o).proto = "freedom" => Bind(o).mark = "ours"
<1>1. CASE o.proto = "freedom"
  <2>1. Bind(o) = [o EXCEPT !.mark = "ours"]
    BY <1>1 DEF Bind
  <2> QED  BY <2>1 DEF OutboundSet, SameOut
<1>2. CASE o.proto # "freedom"
  BY <1>2 DEF Bind, SameOut
<1> QED  BY <1>1, <1>2

\* A config whose outbounds are each alike is alike.
LEMMA WithOutbounds ==
  ASSUME NEW c \in Config, NEW obs \in Seq(OutboundSet), DOMAIN obs = DOMAIN c.outbounds,
         \A i \in DOMAIN obs : SameOut(obs[i], c.outbounds[i])
  PROVE  LET d == [c EXCEPT !.outbounds = obs]
         IN d \in Config /\ d.outbounds = obs /\ Alike(d, c) /\ d.inbounds = c.inbounds
<1> DEFINE d == [c EXCEPT !.outbounds = obs]
<1>1. /\ d \in Config /\ d.outbounds = obs /\ d.rules = c.rules /\ d.balancers = c.balancers
      /\ d.inbounds = c.inbounds
  BY DEF Config
<1> HIDE DEF d
<1>2. Alike(d, c)
  BY <1>1 DEF Alike
<1> QED  BY <1>1, <1>2 DEF d

\* FinalizeConfig leaves a config alike,
LEMMA FinalizeIs ==
  ASSUME NEW c \in Config, FinalizeConfig(c) # Refused
  PROVE  /\ FinalizeConfig(c) \in Config /\ Alike(FinalizeConfig(c), c)
         /\ FinalizeConfig(c).inbounds = c.inbounds
<1> DEFINE d == ApplySecurityPolicy(c)
<1>1. FinalizeConfig(c) = d /\ d # Refused
  BY CoreConfigAssumption DEF FinalizeConfig, Unless, CheckGeoLists
<1>2. CASE allow
  <2>1. d = c
    BY <1>1, <1>2 DEF ApplySecurityPolicy
  <2> QED  BY <1>1, <2>1, AlikeSelf
<1>3. CASE ~allow
  <2> DEFINE obs == [i \in DOMAIN c.outbounds |-> ClearInsecure(c.outbounds[i])]
  <2>1. d = [c EXCEPT !.outbounds = obs]
    BY <1>1, <1>3 DEF ApplySecurityPolicy
  <2>2. c.outbounds \in Seq(OutboundSet)
    BY DEF Config
  <2>3. /\ obs \in Seq(OutboundSet) /\ DOMAIN obs = DOMAIN c.outbounds
        /\ \A i \in DOMAIN obs : SameOut(obs[i], c.outbounds[i])
    BY <2>2, ClearIs
  <2> HIDE DEF obs
  <2> QED  BY <1>1, <2>1, <2>3, WithOutbounds
<1> QED  BY <1>2, <1>3

\* so does BindDirectOutbounds, which marks what is direct,
LEMMA BindAllIs ==
  ASSUME NEW c \in Config
  PROVE  /\ BindDirectOutbounds(c) \in Config /\ Alike(BindDirectOutbounds(c), c)
         /\ BindDirectOutbounds(c).inbounds = c.inbounds
         /\ \A o \in Outbounds(BindDirectOutbounds(c)) : o.proto = "freedom" => o.mark = "ours"
<1> DEFINE obs == [i \in DOMAIN c.outbounds |-> Bind(c.outbounds[i])]
<1>1. BindDirectOutbounds(c) = [c EXCEPT !.outbounds = obs]
  BY DEF BindDirectOutbounds
<1>2. c.outbounds \in Seq(OutboundSet)
  BY DEF Config
<1>3. /\ obs \in Seq(OutboundSet) /\ DOMAIN obs = DOMAIN c.outbounds
      /\ \A i \in DOMAIN obs : SameOut(obs[i], c.outbounds[i])
      /\ \A i \in DOMAIN obs : obs[i].proto = "freedom" => obs[i].mark = "ours"
  BY <1>2, BindIs
<1> HIDE DEF obs
<1>4. /\ BindDirectOutbounds(c) \in Config /\ Alike(BindDirectOutbounds(c), c)
      /\ BindDirectOutbounds(c).inbounds = c.inbounds /\ BindDirectOutbounds(c).outbounds = obs
  BY <1>1, <1>3, WithOutbounds
<1> QED  BY <1>3, <1>4 DEF Outbounds, ToSet

\* and so does the service, which names the tunnel's inbounds.
LEMMA AssembleIs ==
  ASSUME NEW c \in Config, AssembleService(c) # Refused
  PROVE  /\ AssembleService(c) \in Config /\ Alike(AssembleService(c), c)
         /\ AssembleService(c).inbounds = {"tun", "probe"}
<1>1. AssembleService(c) = [c EXCEPT !.inbounds = {"tun", "probe"}]
  BY DEF AssembleService
<1> DEFINE d == [c EXCEPT !.inbounds = {"tun", "probe"}]
<1>2. /\ d \in Config /\ d.outbounds = c.outbounds /\ d.rules = c.rules
      /\ d.balancers = c.balancers /\ d.inbounds = {"tun", "probe"}
  BY CoreConfigAssumption DEF Config
<1> HIDE DEF d
<1>3. Alike(d, c)
  BY <1>2 DEF Alike, SameOut
<1> QED  BY <1>1, <1>2, <1>3 DEF d

-----------------------------------------------------------------------------
(* What is picked, and its config. *)

\* A row's entry is an outbound of its profile that is a server.
LEMMA EntryIs ==
  ASSUME NEW prof \in Profile, NEW s \in Firsts(prof)
  PROVE  /\ EntryOf(prof, s) \in OutboundSet /\ EntryOf(prof, s) \in Outbounds(prof)
         /\ IsEntry(EntryOf(prof, s)) /\ s # None
<1> DEFINE where == {i \in DOMAIN prof.outbounds :
                    IsEntry(prof.outbounds[i]) /\ prof.outbounds[i].server = s}
<1>1. prof.outbounds \in Seq(OutboundSet)
  BY DEF Profile
<1>2. where \in SUBSET Nat
  BY <1>1
<1>3. where # {} /\ s # None
  BY DEF Firsts, EntriesOf, Outbounds, ToSet, IsEntry
<1>4. Min(where) \in where
  <2> HIDE DEF where
  <2> QED  BY <1>2, <1>3, MinIs
<1>5. EntryOf(prof, s) = prof.outbounds[Min(where)]
  BY DEF EntryOf
<1>6. Min(where) \in DOMAIN prof.outbounds /\ IsEntry(prof.outbounds[Min(where)])
  BY <1>4
<1> HIDE DEF where
<1> QED  BY <1>1, <1>3, <1>5, <1>6 DEF Outbounds, ToSet

\* The row picked has a profile and, unless it is a panel whole, an entry.
LEMMA RowIs ==
  ASSUME sub \in Seq(Profile), NEW row \in Rows
  PROVE  /\ row.prof \in DOMAIN sub /\ sub[row.prof] \in Profile
         /\ Target(row).raw = Owner(row) /\ Owner(row) \in Profile
         /\ row.server = None =>
              Target(row).entry = None /\ Owner(row) = sub[row.prof] /\ Owner(row).panel
         /\ row.server # None =>
              /\ row.server \in Firsts(sub[row.prof])
              /\ Target(row).entry = EntryOf(sub[row.prof], row.server)
<1>1. CASE row \in {[prof |-> i, server |-> None] : i \in {k \in DOMAIN sub : IsBalancer(sub[k])}}
  <2>1. row.prof \in DOMAIN sub /\ row.server = None /\ IsBalancer(sub[row.prof])
    BY <1>1
  <2>2. Owner(row) = sub[row.prof]
    BY <2>1 DEF Owner, AllSingle
  <2> QED  BY <2>1, <2>2 DEF Target, IsBalancer
<1>2. CASE row \in UNION {{[prof |-> i, server |-> s] : s \in Firsts(sub[i])} : i \in DOMAIN sub}
  <2>1. row.prof \in DOMAIN sub /\ row.server \in Firsts(sub[row.prof])
    BY <1>2
  <2>2. sub[row.prof] \in Profile
    BY <2>1
  <2>3. row.server # None
    BY <2>1, <2>2, EntryIs
  <2>4. Owner(row) \in Profile
    <3>1. CASE ~AllSingle
      BY <2>2, <3>1 DEF Owner
    <3>2. CASE AllSingle
      <4> DEFINE where == {i \in DOMAIN sub : row.server \in Firsts(sub[i])}
      <4>1. where \in SUBSET Nat /\ where # {}
        BY <2>1
      <4>2. Min(where) \in where
        <5> HIDE DEF where
        <5> QED  BY <4>1, MinIs
      <4>3. Min(where) \in DOMAIN sub /\ Owner(row) = sub[Min(where)]
        BY <4>2, <3>2 DEF Owner
      <4> QED  BY <4>3
    <3> QED  BY <3>1, <3>2
  <2> QED  BY <2>1, <2>2, <2>3, <2>4 DEF Target
<1> QED  BY <1>1, <1>2 DEF Rows

\* ProfileBase gives the inbounds and leaves the panel's part as it is.
LEMMA BaseIs ==
  ASSUME NEW prof \in Profile, NEW inb \in SUBSET InboundTags, ProfileBase(prof, inb) # Refused
  PROVE  LET c == ProfileBase(prof, inb)
         IN /\ c \in Config /\ c.outbounds = prof.outbounds /\ c.rules = prof.rules
            /\ c.balancers = prof.balancers /\ c.routing = prof.routing /\ c.inbounds = inb
            /\ 1 \in DOMAIN c.outbounds
<1> DEFINE c == [outbounds |-> prof.outbounds, rules |-> prof.rules, balancers |-> prof.balancers,
                 routing |-> prof.routing, lists |-> prof.lists, inbounds |-> inb]
<1>1. HasRouting(Canonical(prof)) = prof.routing
  BY DEF HasRouting, Canonical, Profile
<1>2. ProfileBase(prof, inb) = c /\ prof.outbounds # <<>>
  BY <1>1 DEF ProfileBase
<1>3. prof.outbounds \in Seq(OutboundSet)
  BY DEF Profile
<1>4. 1 \in DOMAIN prof.outbounds
  BY <1>2, <1>3
<1>5. c \in Config
  BY DEF Config, Profile
<1> QED  BY <1>2, <1>4, <1>5

\* The first outbound of a tag moves to the front, and nothing else changes.
IsPinned(q, obs) ==
  /\ q \in Seq(OutboundSet) /\ DOMAIN q = DOMAIN obs /\ 1 \in DOMAIN q
  /\ ToSet(q) = ToSet(obs)
  /\ \A j, k \in DOMAIN q : j # k =>
       \E m, n \in DOMAIN obs : m # n /\ q[j] = obs[m] /\ q[k] = obs[n]

\* PinOutbound puts the outbound of a tag first and keeps the others.
LEMMA PinIs ==
  ASSUME NEW obs \in Seq(OutboundSet), NEW tag, \E k \in DOMAIN obs : obs[k].tag = tag
  PROVE  IsPinned(PinOutbound(obs, tag), obs)
<1> DEFINE where == {k \in DOMAIN obs : obs[k].tag = tag}
           i == Min(where)
           to(k) == IF k = 1 THEN i ELSE IF k <= i THEN k - 1 ELSE k
           q == [k \in DOMAIN obs |-> obs[to(k)]]
<1>1. i \in DOMAIN obs /\ obs[i].tag = tag
  <2>1. where \in SUBSET Nat /\ where # {}
    OBVIOUS
  <2>2. Min(where) \in where
    <3> HIDE DEF where
    <3> QED  BY <2>1, MinIs
  <2> QED  BY <2>2
<1>2. PinOutbound(obs, tag) = q
  BY DEF PinOutbound
<1> HIDE DEF i
<1>3. \A k \in DOMAIN obs : to(k) \in DOMAIN obs
  BY <1>1
<1>4. \A j, k \in DOMAIN obs : j # k => to(j) # to(k)
  BY <1>1
<1>5. \A k \in DOMAIN obs : \E j \in DOMAIN obs : to(j) = k
  <2> TAKE k \in DOMAIN obs
  <2> DEFINE j == IF k = i THEN 1 ELSE IF k < i THEN k + 1 ELSE k
  <2>1. j \in DOMAIN obs /\ to(j) = k
    BY <1>1
  <2> QED  BY <2>1
<1> HIDE DEF to
<1>6. q \in Seq(OutboundSet) /\ DOMAIN q = DOMAIN obs /\ \A k \in DOMAIN obs : q[k] = obs[to(k)]
  BY <1>3
<1>7. 1 \in DOMAIN q
  BY <1>1, <1>6
<1> HIDE DEF q
<1>8. ToSet(q) = ToSet(obs)
  <2>1. \A k \in DOMAIN q : \E j \in DOMAIN obs : q[k] = obs[j]
    BY <1>3, <1>6
  <2>2. \A k \in DOMAIN obs : \E j \in DOMAIN q : obs[k] = q[j]
    BY <1>5, <1>6
  <2> QED  BY <2>1, <2>2 DEF ToSet
<1>9. ASSUME NEW j \in DOMAIN q, NEW k \in DOMAIN q, j # k
      PROVE  \E m, n \in DOMAIN obs : m # n /\ q[j] = obs[m] /\ q[k] = obs[n]
  <2>1. /\ to(j) \in DOMAIN obs /\ to(k) \in DOMAIN obs /\ to(j) # to(k)
        /\ q[j] = obs[to(j)] /\ q[k] = obs[to(k)]
    BY <1>3, <1>4, <1>6, <1>9
  <2> QED  BY <2>1
<1> QED  BY <1>2, <1>6, <1>7, <1>8, <1>9 DEF IsPinned

\* Repoint leads a rule of a balancer to a tag and leaves what it holds for.
LEMMA RepointIs ==
  ASSUME NEW r \in RuleSet, NEW tag \in Names
  PROVE  /\ Repoint(r, tag) \in RuleSet
         /\ Repoint(r, tag).balancer = None
         /\ Repoint(r, tag).tag = IF r.balancer = None THEN r.tag ELSE tag
         /\ \A p : Holds(Repoint(r, tag), p) <=> Holds(r, p)
<1>1. CASE r.balancer = None
  BY <1>1 DEF Repoint
<1>2. CASE r.balancer # None
  <2>1. Repoint(r, tag) = [r EXCEPT !.balancer = None, !.tag = tag]
    BY <1>2 DEF Repoint
  <2> DEFINE q == [r EXCEPT !.balancer = None, !.tag = tag]
  <2>2. /\ q \in RuleSet /\ q.balancer = None /\ q.tag = tag
        /\ q.dest = r.dest /\ q.procs = r.procs /\ q.inb = r.inb
    BY DEF RuleSet
  <2> HIDE DEF q
  <2>3. \A p : Holds(q, p) <=> Holds(r, p)
    BY <2>2 DEF Holds
  <2> QED  BY <1>2, <2>1, <2>2, <2>3 DEF q
<1> QED  BY <1>1, <1>2

\* A config pinned to the server of a tag.
LEMMA DropIs ==
  ASSUME NEW b \in Config, NEW tag \in Names \cup {None}, tag # None, tag \in Tags(b)
  PROVE  LET c == DropBalancers([b EXCEPT !.outbounds = PinOutbound(@, tag)], tag)
         IN /\ c \in Config /\ c.inbounds = b.inbounds /\ c.balancers = <<>>
            /\ c.outbounds = PinOutbound(b.outbounds, tag) /\ 1 \in DOMAIN c.outbounds
            /\ c.rules = [i \in DOMAIN b.rules |-> Repoint(b.rules[i], tag)]
<1> DEFINE pins == PinOutbound(b.outbounds, tag)
           points == [i \in DOMAIN b.rules |-> Repoint(b.rules[i], tag)]
           d == [b EXCEPT !.outbounds = pins]
           c == DropBalancers([b EXCEPT !.outbounds = PinOutbound(@, tag)], tag)
<1>1. /\ b.outbounds \in Seq(OutboundSet) /\ b.rules \in Seq(RuleSet)
      /\ tag \in Names /\ \E k \in DOMAIN b.outbounds : b.outbounds[k].tag = tag
  BY DEF Config, Tags, Outbounds, ToSet
<1>2. pins \in Seq(OutboundSet) /\ 1 \in DOMAIN pins
  BY <1>1, PinIs DEF IsPinned
<1>3. points \in Seq(RuleSet)
  <2>1. \A i \in DOMAIN b.rules : Repoint(b.rules[i], tag) \in RuleSet
    BY <1>1, RepointIs
  <2> QED  BY <2>1, <1>1
<1>4. c = DropBalancers(d, tag)
  OBVIOUS
<1> HIDE DEF pins
<1>5. d \in Config /\ d.rules = b.rules /\ d.outbounds = pins /\ d.inbounds = b.inbounds
  BY <1>2 DEF Config
<1>6. c = [d EXCEPT !.balancers = <<>>, !.rules = points]
  BY <1>4, <1>5 DEF DropBalancers
<1> HIDE DEF points, d, c
<1>7. <<>> \in Seq(BalancerSet)
  OBVIOUS
<1>8. /\ c \in Config /\ c.inbounds = b.inbounds /\ c.balancers = <<>>
      /\ c.outbounds = pins /\ c.rules = points
  BY <1>3, <1>5, <1>6, <1>7 DEF Config
<1> QED  BY <1>2, <1>8 DEF pins, points, c

IsSingle(c, prof, tag, inb) ==
  /\ c \in Config /\ c.inbounds = inb /\ c.balancers = <<>> /\ 1 \in DOMAIN c.outbounds
  /\ tag \in Names /\ \E k \in DOMAIN prof.outbounds : prof.outbounds[k].tag = tag
  /\ c.outbounds = PinOutbound(prof.outbounds, tag)
  /\ c.rules = [i \in DOMAIN prof.rules |-> Repoint(prof.rules[i], tag)]

\* A profile merged for one server has no balancer and every rule repointed.
LEMMA SingleIs ==
  ASSUME NEW prof \in Profile, NEW inb \in SUBSET InboundTags, NEW tag \in Names \cup {None},
         MergeProfileSingle(prof, tag, inb) \notin {Refused, NoRouting}
  PROVE  IsSingle(MergeProfileSingle(prof, tag, inb), prof, tag, inb)
<1> DEFINE b == ProfileBase(prof, inb)
           c == MergeProfileSingle(prof, tag, inb)
<1>1. b # Refused
  BY DEF MergeProfileSingle, Unless
<1>2. /\ b \in Config /\ b.outbounds = prof.outbounds /\ b.rules = prof.rules
      /\ b.inbounds = inb /\ 1 \in DOMAIN b.outbounds
  BY <1>1, BaseIs
<1>3. b \notin {Refused, NoRouting}
  BY <1>2, CoreConfigAssumption
<1> HIDE DEF b
<1>4. /\ tag # None /\ tag \in Tags(b)
      /\ c = DropBalancers([b EXCEPT !.outbounds = PinOutbound(@, tag)], tag)
  BY <1>3 DEF MergeProfileSingle, Unless, b
<1>5. tag \in Names /\ \E k \in DOMAIN prof.outbounds : prof.outbounds[k].tag = tag
  BY <1>2, <1>4 DEF Tags, Outbounds, ToSet
<1>6. /\ c \in Config /\ c.inbounds = b.inbounds /\ c.balancers = <<>>
      /\ c.outbounds = PinOutbound(b.outbounds, tag) /\ 1 \in DOMAIN c.outbounds
      /\ c.rules = [i \in DOMAIN b.rules |-> Repoint(b.rules[i], tag)]
  BY <1>2, <1>4, DropIs
<1> QED  BY <1>2, <1>5, <1>6 DEF IsSingle

\* A server bare of its profile is the one outbound the mode's template adds.
LEMMA ProxyIs ==
  ASSUME NEW panel, NEW o \in OutboundSet
  PROVE  LET q == ProxyOutbound(panel, o)
         IN q \in OutboundSet /\ q.tag = "proxy" /\ q.proto = o.proto /\ q.server = o.server
<1> DEFINE b == BuildOutbound(o)
<1>1. b \in OutboundSet /\ b.proto = o.proto /\ b.server = o.server
  BY DEF BuildOutbound, OutboundSet
<1> HIDE DEF b
<1>2. CASE panel
  <2>1. ProxyOutbound(panel, o) = [o EXCEPT !.tag = "proxy"]
    BY <1>2 DEF ProxyOutbound
  <2> QED  BY <2>1, CoreConfigAssumption DEF OutboundSet
<1>3. CASE ~panel
  <2>1. ProxyOutbound(panel, o) = [b EXCEPT !.tag = "proxy"]
    BY <1>3 DEF ProxyOutbound, b
  <2> QED  BY <2>1, <1>1, CoreConfigAssumption DEF OutboundSet
<1> QED  BY <1>2, <1>3

\* The template's config: a server, a way out, a block.
LEMMA TemplateIs ==
  ASSUME NEW o \in OutboundSet, o.tag = "proxy", NEW inb \in SUBSET InboundTags
  PROVE  LET c == MergeConfig(o, inb)
         IN /\ c \in Config /\ c.inbounds = inb /\ c.balancers = <<>>
            /\ c.outbounds = <<o, Outbound("direct", "freedom", None), Outbound("block", "blackhole", None)>>
            /\ DOMAIN c.outbounds = {1, 2, 3}
<1> DEFINE obs == <<o, Outbound("direct", "freedom", None), Outbound("block", "blackhole", None)>>
           rules == <<Rule(Private, {}, {}, "direct", None), Rule({}, {}, {}, "proxy", None)>>
           c == [outbounds |-> obs, rules |-> rules, balancers |-> <<>>, routing |-> TRUE,
                 lists |-> {}, inbounds |-> inb]
<1>1. MergeConfig(o, inb) = c
  BY DEF MergeConfig
<1>2. /\ Outbound("direct", "freedom", None) \in OutboundSet
      /\ Outbound("block", "blackhole", None) \in OutboundSet
  BY CoreConfigAssumption DEF Outbound, OutboundSet
<1>3. Rule(Private, {}, {}, "direct", None) \in RuleSet /\ Rule({}, {}, {}, "proxy", None) \in RuleSet
  BY CoreConfigAssumption DEF Rule, RuleSet, Dests
<1>4. obs \in Seq(OutboundSet) /\ DOMAIN obs = {1, 2, 3}
  <2> HIDE DEF Outbound
  <2> QED  BY <1>2
<1>5. rules \in Seq(RuleSet)
  BY <1>3
<1>6. <<>> \in Seq(BalancerSet)
  OBVIOUS
<1> HIDE DEF obs, rules
<1>7. c \in Config
  BY <1>4, <1>5, <1>6 DEF Config
<1> QED  BY <1>1, <1>4, <1>7 DEF obs

\* Whatever is picked, its config is refused or one the rest can work on.
LEMMA SourceIs ==
  ASSUME sub \in Seq(Profile), NEW row \in Rows, NEW inb \in SUBSET InboundTags,
         Source(Target(row), inb) # Refused
  PROVE  LET c == Source(Target(row), inb)
         IN c \in Config /\ c.inbounds = inb /\ 1 \in DOMAIN c.outbounds
<1> DEFINE t == Target(row)
<1>1. t.raw \in Profile
  BY RowIs
<1>2. CASE row.server = None
  <2>1. Source(t, inb) = ProfileBase(t.raw, inb)
    BY <1>2, RowIs DEF Source, IsProfile, MergeProfile
  <2> QED  BY <2>1, <1>1, BaseIs
<1>3. CASE row.server # None
  <2>1. t.entry \in OutboundSet /\ t.entry # None
    BY <1>3, RowIs, EntryIs, CoreConfigAssumption
  <2>5. t.raw \in Profile
    BY RowIs
  <2> HIDE DEF t
  <2> DEFINE single == SingleServerFromProfile(t, inb)
  <2>2. Source(t, inb) = IF single = NoRouting
                         THEN MergeConfig(ProxyOutbound(t.raw.panel, t.entry), inb) ELSE single
    BY <2>1 DEF Source, IsProfile
  <2>3. CASE single = NoRouting
    <3>1. /\ ProxyOutbound(t.raw.panel, t.entry) \in OutboundSet
          /\ ProxyOutbound(t.raw.panel, t.entry).tag = "proxy"
      BY <2>1, ProxyIs
    <3> QED  BY <3>1, <2>2, <2>3, TemplateIs DEF t
  <2>4. CASE single # NoRouting
    <3>1. single = MergeProfileSingle(t.raw, t.entry.tag, inb)
      BY <2>4 DEF SingleServerFromProfile
    <3>2. t.entry.tag \in Names \cup {None}
      BY <2>1 DEF OutboundSet
    <3>3. Source(t, inb) = single /\ single \notin {Refused, NoRouting}
      BY <2>2, <2>4 DEF t
    <3>4. single \in Config /\ single.inbounds = inb /\ 1 \in DOMAIN single.outbounds
      <4>1. MergeProfileSingle(t.raw, t.entry.tag, inb) \notin {Refused, NoRouting}
        BY <3>1, <3>3
      <4>2. IsSingle(single, t.raw, t.entry.tag, inb)
        BY <4>1, <3>1, <3>2, <2>5, SingleIs
      <4> HIDE DEF single
      <4> QED  BY <4>2 DEF IsSingle
    <3> QED  BY <3>3, <3>4 DEF t
  <2> QED  BY <2>3, <2>4
<1> QED  BY <1>2, <1>3
-----------------------------------------------------------------------------
(* Rules before other rules. *)

\* The entries of two sequences put together.
LEMMA ConcatIs ==
  ASSUME NEW S, NEW a \in Seq(S), NEW b \in Seq(S)
  PROVE  /\ a \o b \in Seq(S) /\ Len(a \o b) = Len(a) + Len(b)
         /\ \A i \in 1..Len(a) : (a \o b)[i] = a[i]
         /\ \A i \in 1..Len(b) : (a \o b)[Len(a) + i] = b[i]
<1>1. a \o b \in Seq(S) /\ Len(a \o b) = Len(a) + Len(b)
  BY ConcatProperties
<1>2. \A i \in 1..Len(a) : (a \o b)[i] = a[i]
  OBVIOUS
<1>3. ASSUME NEW i \in 1..Len(b)  PROVE (a \o b)[Len(a) + i] = b[i]
  <2>1. Len(a) + i \in 1..(Len(a) + Len(b)) /\ ~(Len(a) + i <= Len(a)) /\ Len(a) + i - Len(a) = i
    OBVIOUS
  <2> QED  BY <2>1
<1> QED  BY <1>1, <1>2, <1>3

\* Where one of the first rules holds, it is one of them that decides.
LEMMA WayFront ==
  ASSUME NEW d \in Config, NEW a \in Seq(RuleSet), NEW b \in Seq(RuleSet), d.rules = a \o b,
         NEW p, \E i \in DOMAIN a : Holds(a[i], p)
  PROVE  \E i \in DOMAIN a : Holds(a[i], p) /\ Way(d, p) = Behind(d, a[i])
<1>1. /\ Len(d.rules) = Len(a) + Len(b) /\ d.rules \in Seq(RuleSet)
      /\ \A i \in 1..Len(a) : d.rules[i] = a[i]
  BY ConcatIs
<1>2. PICK k \in DOMAIN a : Holds(a[k], p)
  OBVIOUS
<1>3. k \in 1..Len(a) /\ k \in DOMAIN d.rules /\ Holds(d.rules[k], p)
  BY <1>1, <1>2
<1>4. Hits(d, p) # {}
  BY <1>3 DEF Hits
<1>5. PICK i \in DOMAIN d.rules : /\ Holds(d.rules[i], p)
                                  /\ \A j \in 1..(i - 1) : ~Holds(d.rules[j], p)
  BY <1>4, FirstHit
<1>6. Way(d, p) = Behind(d, d.rules[i])
  BY <1>5, WayIs
<1>7. i \in 1..Len(a)
  <2>1. i <= k
    <3> SUFFICES ASSUME k < i PROVE FALSE
      BY <1>1, <1>3
    <3>1. k \in 1..(i - 1)
      BY <1>1, <1>3
    <3> QED  BY <3>1, <1>3, <1>5
  <2> QED  BY <2>1, <1>1, <1>3
<1>8. d.rules[i] = a[i] /\ i \in DOMAIN a
  BY <1>1, <1>7
<1> QED  BY <1>5, <1>6, <1>8

\* Where none of them does, those behind them decide.
LEMMA WayPast ==
  ASSUME NEW d \in Config, NEW c \in Config, NEW a \in Seq(RuleSet), d.rules = a \o c.rules,
         d.outbounds = c.outbounds, d.balancers = c.balancers,
         NEW p, \A i \in DOMAIN a : ~Holds(a[i], p)
  PROVE  Way(d, p) = Way(c, p)
<1>1. c.rules \in Seq(RuleSet)
  BY DEF Config
<1>2. /\ Len(d.rules) = Len(a) + Len(c.rules) /\ d.rules \in Seq(RuleSet)
      /\ \A i \in 1..Len(a) : d.rules[i] = a[i]
      /\ \A i \in 1..Len(c.rules) : d.rules[Len(a) + i] = c.rules[i]
  BY <1>1, ConcatIs
<1>3. \A r : Behind(d, r) = Behind(c, r)
  BY DEF Behind, Outbounds
<1>4. CASE Hits(c, p) = {}
  <2>1. \A i \in 1..Len(c.rules) : ~Holds(c.rules[i], p)
    BY <1>4, <1>1 DEF Hits
  <2>2. \A i \in 1..Len(d.rules) : ~Holds(d.rules[i], p)
    <3> TAKE i \in 1..Len(d.rules)
    <3>1. CASE i <= Len(a)
      BY <1>2, <3>1
    <3>2. CASE ~(i <= Len(a))
      <4>1. i - Len(a) \in 1..Len(c.rules) /\ Len(a) + (i - Len(a)) = i
        BY <1>1, <1>2, <3>2
      <4> QED  BY <4>1, <2>1, <1>2
    <3> QED  BY <3>1, <3>2
  <2>3. Hits(d, p) = {}
    BY <2>2, <1>2 DEF Hits
  <2> QED  BY <2>3, <1>4 DEF Way
<1>5. CASE Hits(c, p) # {}
  <2>1. PICK i \in DOMAIN c.rules : /\ Holds(c.rules[i], p)
                                    /\ \A j \in 1..(i - 1) : ~Holds(c.rules[j], p)
    BY <1>5, FirstHit
  <2>2. Way(c, p) = Behind(c, c.rules[i])
    BY <2>1, WayIs
  <2> DEFINE k == Len(a) + i
  <2>3. i \in 1..Len(c.rules) /\ k \in DOMAIN d.rules /\ d.rules[k] = c.rules[i] /\ k \in Nat
    BY <1>1, <1>2
  <2>4. \A j \in 1..(k - 1) : ~Holds(d.rules[j], p)
    <3> TAKE j \in 1..(k - 1)
    <3>1. CASE j <= Len(a)
      BY <1>2, <3>1
    <3>2. CASE ~(j <= Len(a))
      <4>1. Len(a) \in Nat /\ Len(c.rules) \in Nat /\ k = Len(a) + i /\ i \in 1..Len(c.rules)
        BY <1>1, <2>3
      <4> HIDE DEF k
      <4>2. /\ j - Len(a) \in 1..(i - 1) /\ j - Len(a) \in 1..Len(c.rules)
            /\ Len(a) + (j - Len(a)) = j
        BY <4>1, <3>2
      <4> QED  BY <4>2, <2>1, <1>2
    <3> QED  BY <3>1, <3>2
  <2> HIDE DEF k
  <2>5. Way(d, p) = Behind(d, d.rules[k])
    BY <2>1, <2>3, <2>4, WayIs
  <2> QED  BY <2>2, <2>3, <2>5, <1>3
<1> QED  BY <1>4, <1>5

-----------------------------------------------------------------------------
(* The probe's rules. *)

Checks == CheckNames \cup CheckIPs

\* The probe's rules: each is about check hosts, and every check host meets one.
ForProbes(a, inb, tag, bal) ==
  /\ a \in Seq(RuleSet)
  /\ \A i \in DOMAIN a : /\ a[i].tag = tag /\ a[i].balancer = bal /\ a[i].inb = inb
                         /\ a[i].dest # {} /\ a[i].dest \subseteq Checks
  /\ \A p : p.dest \in Checks /\ (inb = {} \/ p.inb \in inb) =>
       \E i \in DOMAIN a : Holds(a[i], p)

\* ProbeRules are a probe's: for the check hosts, by name and by address, to one aim.
LEMMA ProbeRulesAre ==
  ASSUME NEW inb \in SUBSET InboundTags, NEW tag \in Names \cup {None},
         NEW bal \in Names \cup {None}
  PROVE  ForProbes(ProbeRules(inb, tag, bal), inb, tag, bal)
<1> DEFINE n == Rule(CheckNames, {}, inb, tag, bal)
           q == Rule(CheckIPs, {}, inb, tag, bal)
           a == IF CheckNames = {} THEN <<>> ELSE <<n>>
           b == IF CheckIPs = {} THEN <<>> ELSE <<q>>
<1>1. /\ n \in RuleSet /\ n.tag = tag /\ n.balancer = bal /\ n.inb = inb
      /\ n.dest = CheckNames /\ n.procs = {}
  BY DEF Rule, RuleSet, Dests
<1>2. /\ q \in RuleSet /\ q.tag = tag /\ q.balancer = bal /\ q.inb = inb
      /\ q.dest = CheckIPs /\ q.procs = {}
  BY DEF Rule, RuleSet, Dests
<1>3. ProbeRules(inb, tag, bal) = a \o b
  BY DEF ProbeRules
<1> HIDE DEF n, q
<1>4. /\ a \in Seq(RuleSet) /\ \A i \in 1..Len(a) : a[i] = n /\ CheckNames # {}
      /\ CheckNames # {} => 1 \in 1..Len(a) /\ a[1] = n
  BY <1>1
<1>5. /\ b \in Seq(RuleSet) /\ \A i \in 1..Len(b) : b[i] = q /\ CheckIPs # {}
      /\ CheckIPs # {} => 1 \in 1..Len(b) /\ b[1] = q
  BY <1>2
<1> HIDE DEF a, b
<1>6. /\ a \o b \in Seq(RuleSet) /\ Len(a \o b) = Len(a) + Len(b)
      /\ \A i \in 1..Len(a) : (a \o b)[i] = a[i]
      /\ \A i \in 1..Len(b) : (a \o b)[Len(a) + i] = b[i]
  BY <1>4, <1>5, ConcatIs
<1>7. ASSUME NEW i \in 1..Len(a \o b)
      PROVE  \/ (a \o b)[i] = n /\ CheckNames # {}
             \/ (a \o b)[i] = q /\ CheckIPs # {}
  <2>1. CASE i <= Len(a)
    <3>1. i \in 1..Len(a)
      BY <2>1, <1>4, <1>5, <1>6
    <3>2. (a \o b)[i] = a[i]
      BY <3>1, <1>6
    <3>3. a[i] = n /\ CheckNames # {}
      BY <3>1, <1>4
    <3> QED  BY <3>2, <3>3
  <2>2. CASE ~(i <= Len(a))
    <3>1. i - Len(a) \in 1..Len(b) /\ Len(a) + (i - Len(a)) = i
      BY <2>2, <1>4, <1>5, <1>6
    <3> QED  BY <3>1, <1>5, <1>6
  <2> QED  BY <2>1, <2>2
<1>8. ASSUME NEW p, p.dest \in Checks, inb = {} \/ p.inb \in inb
      PROVE  \E i \in 1..Len(a \o b) : Holds((a \o b)[i], p)
  <2>1. CASE p.dest \in CheckNames
    <3>1. 1 \in 1..Len(a \o b) /\ (a \o b)[1] = n
      BY <2>1, <1>4, <1>5, <1>6
    <3>2. Holds(n, p)
      BY <2>1, <1>1, <1>8 DEF Holds
    <3> QED  BY <3>1, <3>2
  <2>2. CASE p.dest \in CheckIPs
    <3>1. Len(a) + 1 \in 1..Len(a \o b) /\ (a \o b)[Len(a) + 1] = q
      BY <2>2, <1>4, <1>5, <1>6
    <3>2. Holds(q, p)
      BY <2>2, <1>2, <1>8 DEF Holds
    <3> QED  BY <3>1, <3>2
  <2> QED  BY <2>1, <2>2, <1>8 DEF Checks
<1>9. \A i \in DOMAIN (a \o b) :
        /\ (a \o b)[i].tag = tag /\ (a \o b)[i].balancer = bal /\ (a \o b)[i].inb = inb
        /\ (a \o b)[i].dest # {} /\ (a \o b)[i].dest \subseteq Checks
  BY <1>1, <1>2, <1>6, <1>7 DEF Checks
<1>10. DOMAIN (a \o b) = 1..Len(a \o b)
  BY <1>6
<1> QED  BY <1>3, <1>6, <1>8, <1>9, <1>10 DEF ForProbes

\* They are aimed at the profile's first balancer or at the first server.
AimBalancer(c) == IF c.balancers # <<>> THEN c.balancers[1].tag ELSE None

AimTag(c) == IF AimBalancer(c) # None THEN None ELSE FirstTunnelTag(c)

\* The first server with a tag, where there is one.
LEMMA FirstTunnelIs ==
  ASSUME NEW c \in Config
  PROVE  /\ FirstTunnelTag(c) \in Names \cup {None}
         /\ FirstTunnelTag(c) # None =>
              \E i \in DOMAIN c.outbounds : /\ c.outbounds[i].tag = FirstTunnelTag(c)
                                            /\ ~IsLocal(c.outbounds[i])
<1> DEFINE where == {i \in DOMAIN c.outbounds : c.outbounds[i].tag # None /\ ~IsLocal(c.outbounds[i])}
<1>1. c.outbounds \in Seq(OutboundSet)
  BY DEF Config
<1>2. CASE where = {}
  BY <1>2 DEF FirstTunnelTag
<1>3. CASE where # {}
  <2>1. where \in SUBSET Nat
    BY <1>1
  <2>2. Min(where) \in where
    <3> HIDE DEF where
    <3> QED  BY <1>3, <2>1, MinIs
  <2>3. FirstTunnelTag(c) = c.outbounds[Min(where)].tag
    BY <1>3 DEF FirstTunnelTag
  <2>4. Min(where) \in DOMAIN c.outbounds /\ ~IsLocal(c.outbounds[Min(where)])
    BY <2>2
  <2> HIDE DEF where
  <2>5. c.outbounds[Min(where)] \in OutboundSet
    BY <1>1, <2>4
  <2>6. c.outbounds[Min(where)].tag \in Names \cup {None}
    BY <2>5 DEF OutboundSet
  <2> QED  BY <2>3, <2>4, <2>6
<1> QED  BY <1>2, <1>3

\* Either there is nothing to aim at, or the rules are for probes.
LEMMA AimsAre ==
  ASSUME NEW c \in Config, NEW inb \in SUBSET InboundTags
  PROVE  \/ ProbeAims(c, inb) = <<>> /\ AimTag(c) = None /\ AimBalancer(c) = None
         \/ /\ ForProbes(ProbeAims(c, inb), inb, AimTag(c), AimBalancer(c))
            /\ AimTag(c) # None \/ AimBalancer(c) # None
            /\ AimTag(c) \in Names \cup {None} /\ AimBalancer(c) \in Names \cup {None}
<1>1. c.balancers \in Seq(BalancerSet)
  BY DEF Config
<1>2. AimBalancer(c) \in Names \cup {None}
  <2>1. CASE c.balancers # <<>>
    <3>1. c.balancers[1] \in BalancerSet
      BY <1>1, <2>1
    <3> QED  BY <2>1, <3>1 DEF BalancerSet, AimBalancer
  <2> QED  BY <2>1 DEF AimBalancer
<1>3. AimTag(c) \in Names \cup {None}
  BY FirstTunnelIs DEF AimTag
<1>4. CASE AimBalancer(c) # None \/ FirstTunnelTag(c) # None
  <2>1. ProbeAims(c, inb) = ProbeRules(inb, AimTag(c), AimBalancer(c))
    BY <1>4 DEF ProbeAims, AimTag, AimBalancer
  <2> QED  BY <1>2, <1>3, <1>4, <2>1, ProbeRulesAre DEF AimTag
<1>5. CASE ~(AimBalancer(c) # None \/ FirstTunnelTag(c) # None)
  BY <1>5 DEF ProbeAims, AimTag, AimBalancer
<1> QED  BY <1>4, <1>5

LEMMA AimsTyped ==
  ASSUME NEW c \in Config, NEW inb \in SUBSET InboundTags
  PROVE  ProbeAims(c, inb) \in Seq(RuleSet)
<1>1. CASE ProbeAims(c, inb) = <<>>
  BY <1>1
<1>2. CASE ForProbes(ProbeAims(c, inb), inb, AimTag(c), AimBalancer(c))
  BY <1>2 DEF ForProbes
<1> QED  BY <1>1, <1>2, AimsAre

\* PrependProbeRule puts them before the rules and changes nothing else.
LEMMA PrependIs ==
  ASSUME NEW c \in Config, NEW inb \in SUBSET InboundTags
  PROVE  LET d == PrependProbeRule(c, inb)
         IN /\ d \in Config /\ d.rules = ProbeAims(c, inb) \o c.rules
            /\ d.outbounds = c.outbounds /\ d.balancers = c.balancers /\ d.inbounds = c.inbounds
<1> DEFINE rules == ProbeAims(c, inb) \o c.rules
<1>1. rules \in Seq(RuleSet)
  <2>1. ProbeAims(c, inb) \in Seq(RuleSet)
    BY AimsTyped
  <2>2. c.rules \in Seq(RuleSet)
    BY DEF Config
  <2> QED  BY <2>1, <2>2, ConcatIs
<1>2. PrependProbeRule(c, inb) = [c EXCEPT !.rules = rules]
  BY DEF PrependProbeRule
<1> HIDE DEF rules
<1>3. LET d == [c EXCEPT !.rules = rules]
      IN /\ d \in Config /\ d.rules = rules
         /\ d.outbounds = c.outbounds /\ d.balancers = c.balancers /\ d.inbounds = c.inbounds
  BY <1>1 DEF Config
<1> QED  BY <1>2, <1>3 DEF rules
-----------------------------------------------------------------------------
(* What runs was built of what is there: nothing it is built of changes while *)
(* it runs.                                                                   *)

ConfigTyped ==
  /\ sub \in Subscriptions
  /\ windows \in BOOLEAN /\ allow \in BOOLEAN /\ split \in BOOLEAN
  /\ mode \in {"proxy", "tun"}
  /\ apps \in {{}, Listed}

JobBuilt ==
  job # None =>
    /\ job.row \in Rows
    /\ job.cfg # Refused
    /\ job.kind = "preview" => job.cfg = BuildModeConfig(Target(job.row), split)
    /\ job.kind = "session" /\ split => apps # {}
    /\ job.kind = "session" /\ ~job.service => job.cfg = BuildSessionConfig(Target(job.row), split)
    /\ job.kind = "session" /\ job.service =>
         /\ TunMode(split)
         /\ job.cfg = ServiceConfig(BuildModeConfig(Target(job.row), split))
         /\ job.kept = OutboundServers(BuildModeConfig(Target(job.row), split))

\* What a step leaves alone it builds the same of: the rows,
LEMMA SameRows ==
  ASSUME sub' = sub  PROVE Rows' = Rows
BY DEF Rows, IsBalancer, Firsts, EntriesOf, Outbounds, IsEntry

\* what a row stands for,
LEMMA SameTarget ==
  ASSUME sub' = sub, NEW row  PROVE Target(row)' = Target(row)
<1>1. AllSingle' = AllSingle
  BY DEF AllSingle
<1>2. Owner(row)' = Owner(row)
  BY <1>1 DEF Owner
<1> QED  BY <1>2 DEF Target

\* what is built of it,
LEMMA SameSource ==
  ASSUME sub' = sub, allow' = allow, NEW row, NEW inb
  PROVE  Source(Target(row), inb)' = Source(Target(row), inb)
<1> DEFINE t == Target(row)
<1>1. t' = t
  BY SameTarget
<1>2. \A panel, entry : ProxyOutbound(panel, entry)' = ProxyOutbound(panel, entry)
  BY DEF ProxyOutbound, BuildOutbound
<1> HIDE DEF t
<1>3. (Source(t, inb))' = Source(t, inb)
  BY <1>1, <1>2 DEF Source
<1> QED  BY <1>3 DEF t

\* what it is finished into,
LEMMA SameFinal ==
  ASSUME allow' = allow, NEW c  PROVE FinalizeConfig(c)' = FinalizeConfig(c)
<1>1. ApplySecurityPolicy(c)' = ApplySecurityPolicy(c)
  BY DEF ApplySecurityPolicy
<1> QED  BY <1>1 DEF FinalizeConfig, Unless

\* and what a mode and a session make of it.
LEMMA SameBuild ==
  ASSUME sub' = sub, windows' = windows, allow' = allow, mode' = mode, apps' = apps,
         NEW row, NEW s
  PROVE  /\ TunMode(s)' = TunMode(s)
         /\ BuildModeConfig(Target(row), s)' = BuildModeConfig(Target(row), s)
         /\ BuildSessionConfig(Target(row), s)' = BuildSessionConfig(Target(row), s)
         /\ ServiceConfig(BuildModeConfig(Target(row), s))' = ServiceConfig(BuildModeConfig(Target(row), s))
<1> DEFINE c == Source(Target(row), Inbounds(s))
           p == Probed(c, s)
           m == FinalizeConfig(p)
<1>1. TunMode(s)' = TunMode(s)
  BY DEF TunMode
<1>2. Inbounds(s)' = Inbounds(s) /\ ProbeInbounds(s)' = ProbeInbounds(s)
  BY <1>1 DEF Inbounds, ProbeInbounds
<1>3. c' = c
  <2>1. \A inb : Source(Target(row), inb)' = Source(Target(row), inb)
    BY SameSource
  <2> QED  BY <1>2, <2>1
<1>4. \A d : WithSplitRouting(d, s)' = WithSplitRouting(d, s)
  BY DEF WithSplitRouting
<1> HIDE DEF c
<1>5. p' = p
  BY <1>2, <1>3, <1>4 DEF Probed, Unless
<1>6. \A d : FinalizeConfig(d)' = FinalizeConfig(d)
  BY SameFinal
<1> HIDE DEF p
<1>7. m' = m
  BY <1>5, <1>6
<1>8. BuildModeConfig(Target(row), s) = m /\ BuildModeConfig(Target(row), s)' = m'
  BY DEF BuildModeConfig, BuildModeSource, c, p
<1> HIDE DEF m
<1>9. BuildSessionConfig(Target(row), s)' = BuildSessionConfig(Target(row), s)
  BY <1>1, <1>7, <1>8 DEF BuildSessionConfig
<1>10. \A d : ServiceConfig(d)' = ServiceConfig(d)
  BY <1>6 DEF ServiceConfig
<1> QED  BY <1>1, <1>7, <1>8, <1>9, <1>10

BuiltInv == ConfigTyped /\ JobBuilt

\* Nothing runs at first; and every step either leaves what runs or builds it.
LEMMA BuiltInit == ASSUME ConfigInit PROVE BuiltInv
BY DEF ConfigInit, BuiltInv, ConfigTyped, JobBuilt

LEMMA BuiltStep == ASSUME BuiltInv, [ConfigNext]_configVars PROVE BuiltInv'
<1> USE DEF BuiltInv
<1>1. CASE ChooseApps
  BY <1>1 DEF ChooseApps, Idle, ConfigTyped, JobBuilt
<1>2. CASE Ping
  <2>1. UNCHANGED <<sub, windows, allow, mode, apps, split>>
    BY <1>2 DEF Ping
  <2>2. PICK row \in Rows : BenchConfig(row) # Refused /\ Job("ping", row, BenchConfig(row), FALSE, {})
    BY <1>2 DEF Ping
  <2>3. job'.kind = "ping" /\ job'.row = row /\ job'.cfg # Refused
    <3> HIDE DEF BenchConfig
    <3> QED  BY <2>2 DEF Job
  <2>4. JobBuilt'
    BY <2>1, <2>2, <2>3, SameRows DEF JobBuilt
  <2> QED  BY <2>1, <2>4 DEF ConfigTyped
<1>3. CASE Preview
  <2>1. UNCHANGED <<sub, windows, allow, mode, apps, split>>
    BY <1>3 DEF Preview
  <2>2. PICK row \in Rows :
          LET cfg == BuildModeConfig(Target(row), split)
          IN cfg # Refused /\ Job("preview", row, cfg, FALSE, {})
    BY <1>3 DEF Preview
  <2> DEFINE cfg == BuildModeConfig(Target(row), split)
  <2>3. job'.kind = "preview" /\ job'.row = row /\ job'.cfg = cfg /\ cfg # Refused
    <3>1. cfg # Refused /\ Job("preview", row, cfg, FALSE, {})
      BY <2>2
    <3> HIDE DEF cfg
    <3> QED  BY <3>1 DEF Job
  <2>4. BuildModeConfig(Target(row), split)' = cfg
    <3>1. \A s : BuildModeConfig(Target(row), s)' = BuildModeConfig(Target(row), s)
      BY <2>1, SameBuild
    <3> QED  BY <3>1, <2>1
  <2>5. JobBuilt'
    <3> HIDE DEF cfg
    <3> QED  BY <2>1, <2>2, <2>3, <2>4, SameRows DEF JobBuilt
  <2> QED  BY <2>1, <2>5 DEF ConfigTyped
<1>4. CASE Connect
  <2>1. UNCHANGED <<sub, windows, allow, mode, apps>>
    BY <1>4 DEF Connect
  <2>2. PICK s \in BOOLEAN, row \in Rows :
          LET t == Target(row)
              cfg == BuildSessionConfig(t, s)
          IN /\ ResolveSplit(s)
             /\ split' = s
             /\ cfg # Refused
             /\ Job("session", row, cfg, FALSE, ServerHosts(t))
    BY <1>4 DEF Connect
  <2> DEFINE cfg == BuildSessionConfig(Target(row), s)
             hosts == ServerHosts(Target(row))
  <2>3. ResolveSplit(s) /\ split' = s /\ cfg # Refused /\ Job("session", row, cfg, FALSE, hosts)
    BY <2>2
  <2>4. job'.kind = "session" /\ job'.row = row /\ job'.cfg = cfg /\ ~job'.service
    <3> HIDE DEF cfg, hosts
    <3> QED  BY <2>3 DEF Job
  <2>5. BuildSessionConfig(Target(row), s)' = cfg
    BY <2>1, SameBuild
  <2>6. s => apps' # {}
    BY <2>1, <2>3 DEF ResolveSplit
  <2>7. JobBuilt'
    <3> HIDE DEF cfg, hosts
    <3> QED  BY <2>1, <2>3, <2>4, <2>5, <2>6, SameRows DEF JobBuilt
  <2> QED  BY <2>1, <2>3, <2>7 DEF ConfigTyped
<1>5. CASE ConnectService
  <2>1. UNCHANGED <<sub, windows, allow, mode, apps>>
    BY <1>5 DEF ConnectService
  <2>2. PICK s \in BOOLEAN, row \in Rows :
          LET parts == BuildModeConfig(Target(row), s)
              cfg == ServiceConfig(parts)
          IN /\ ResolveSplit(s) /\ TunMode(s)
             /\ split' = s
             /\ cfg # Refused
             /\ OutboundServers(parts) # {}
             /\ Job("session", row, cfg, TRUE, OutboundServers(parts))
    BY <1>5 DEF ConnectService
  <2> DEFINE parts == BuildModeConfig(Target(row), s)
             cfg == ServiceConfig(parts)
             hosts == OutboundServers(parts)
  <2>3. /\ ResolveSplit(s) /\ TunMode(s) /\ split' = s /\ cfg # Refused
        /\ Job("session", row, cfg, TRUE, hosts)
    BY <2>2
  <2>4. /\ job'.kind = "session" /\ job'.row = row /\ job'.cfg = cfg /\ job'.service
        /\ job'.kept = hosts
    <3> HIDE DEF cfg, hosts
    <3> QED  BY <2>3 DEF Job
  <2>5. /\ BuildModeConfig(Target(row), s)' = parts /\ TunMode(s)' = TunMode(s)
        /\ ServiceConfig(BuildModeConfig(Target(row), s))' = cfg
    BY <2>1, SameBuild
  <2>6. OutboundServers(BuildModeConfig(Target(row), s))' = hosts
    <3> HIDE DEF parts
    <3> QED  BY <2>5 DEF OutboundServers, Outbounds
  <2>7. s => apps' # {}
    BY <2>1, <2>3 DEF ResolveSplit
  <2>8. JobBuilt'
    <3> HIDE DEF parts, cfg, hosts
    <3> QED  BY <2>1, <2>3, <2>4, <2>5, <2>6, <2>7, SameRows DEF JobBuilt
  <2> QED  BY <2>1, <2>3, <2>8 DEF ConfigTyped
<1>6. CASE JobDone
  BY <1>6 DEF JobDone, ConfigTyped, JobBuilt
<1>7. CASE SwitchMode
  BY <1>7 DEF SwitchMode, ConfigTyped, JobBuilt
<1>8. CASE UNCHANGED configVars
  <2>1. /\ sub' = sub /\ windows' = windows /\ allow' = allow /\ mode' = mode /\ apps' = apps
        /\ split' = split /\ job' = job
    BY <1>8 DEF configVars
  <2>2. ConfigTyped'
    BY <2>1 DEF ConfigTyped
  <2> DEFINE row == job.row
             parts == BuildModeConfig(Target(row), split)
             direct == BuildSessionConfig(Target(row), split)
             served == ServiceConfig(BuildModeConfig(Target(row), split))
  <2>3. /\ TunMode(split)' = TunMode(split) /\ parts' = parts /\ direct' = direct /\ served' = served
    <3>1. \A r, s : /\ TunMode(s)' = TunMode(s)
                    /\ BuildModeConfig(Target(r), s)' = BuildModeConfig(Target(r), s)
                    /\ BuildSessionConfig(Target(r), s)' = BuildSessionConfig(Target(r), s)
                    /\ ServiceConfig(BuildModeConfig(Target(r), s))'
                         = ServiceConfig(BuildModeConfig(Target(r), s))
      BY <2>1, SameBuild
    <3> QED  BY <3>1, <2>1
  <2>4. JobBuilt'
    <3>1. OutboundServers(parts)' = OutboundServers(parts)
      <4> HIDE DEF parts
      <4> QED  BY <2>3 DEF OutboundServers, Outbounds
    <3> QED  BY <2>1, <2>3, <3>1, SameRows DEF JobBuilt
  <2> QED  BY <2>2, <2>4
<1> QED  BY <1>1, <1>2, <1>3, <1>4, <1>5, <1>6, <1>7, <1>8 DEF ConfigNext

\* What runs is what was built of the row that was picked, for as long as it runs.
THEOREM ConfigInvariant == ConfigSpec => []BuiltInv
BY BuiltInit, BuiltStep, PTL DEF ConfigSpec
-----------------------------------------------------------------------------
(* The split. *)

\* A rule that is narrowed holds for the listed programs it held for, and for
\* no other.
IsNarrowed(q, c, r, l) ==
  /\ q \in RuleSet /\ q.tag = r.tag /\ q.balancer = r.balancer
  /\ KeptLocal(r, SplitLocal(c)) \/ (q.procs # {} /\ q.procs \subseteq l)
  /\ \A p : Holds(q, p) => Holds(r, p)
  /\ \A p : Holds(r, p) /\ p.proc \in l => Holds(q, p)

\* A rule narrowed to the listed programs holds for those it held for, and they are listed.
LEMMA NarrowedIs ==
  ASSUME NEW c, NEW r \in RuleSet, NEW l \in SUBSET Programs,
         KeptLocal(r, SplitLocal(c)) \/ Narrows(r, l)
  PROVE  IsNarrowed(Narrowed(c, r, l), c, r, l)
<1> DEFINE q == Narrowed(c, r, l)
<1>1. CASE KeptLocal(r, SplitLocal(c))
  BY <1>1 DEF Narrowed, IsNarrowed
<1>2. CASE ~KeptLocal(r, SplitLocal(c))
  <2>1. q = ForProcesses(r, l) /\ q.procs # {}
    BY <1>2 DEF Narrowed, Narrows
  <2>2. /\ q \in RuleSet /\ q.tag = r.tag /\ q.balancer = r.balancer
        /\ q.dest = r.dest /\ q.inb = r.inb
        /\ q.procs = IF r.procs = {} THEN l ELSE r.procs \cap l
    BY <2>1 DEF ForProcesses, RuleSet
  <2> HIDE DEF q
  <2>3. \A p : Holds(q, p) => Holds(r, p)
    BY <2>1, <2>2 DEF Holds
  <2>4. \A p : Holds(r, p) /\ p.proc \in l => Holds(q, p)
    BY <2>1, <2>2 DEF Holds
  <2> QED  BY <2>1, <2>2, <2>3, <2>4 DEF IsNarrowed, q
<1> QED  BY <1>1, <1>2

\* Each rule that leads somewhere and holds for a listed program stays.
LEMMA NarrowsIs ==
  ASSUME NEW r \in RuleSet, NEW l \in SUBSET Programs, NEW p, p.proc \in l, Holds(r, p),
         r.balancer # None \/ r.tag # None
  PROVE  Narrows(r, l)
<1>1. ForProcesses(r, l).procs = IF r.procs = {} THEN l ELSE r.procs \cap l
  BY DEF ForProcesses, RuleSet
<1>2. p.proc \in ForProcesses(r, l).procs
  BY <1>1 DEF Holds
<1> QED  BY <1>2 DEF Narrows

SplitAt(c, l) == InOrder(Stays(c, l), Len(c.rules))

SplitKept(c, l) == [i \in DOMAIN SplitAt(c, l) |-> Narrowed(c, c.rules[SplitAt(c, l)[i]], l)]

SplitLast(c) == <<Rule({}, {}, {}, DirectTag(c), None)>>

\* The rules that stay, in their order,
LEMMA SplitAtIs ==
  ASSUME NEW c \in Config, NEW l
  PROVE  /\ \E n \in Nat : DOMAIN SplitAt(c, l) = 1..n
         /\ \A i \in DOMAIN SplitAt(c, l) : SplitAt(c, l)[i] \in Stays(c, l)
         /\ Ordered(SplitAt(c, l), Stays(c, l))
<1>1. c.rules \in Seq(RuleSet)
  BY DEF Config
<1>2. Len(c.rules) \in Nat /\ Stays(c, l) \in SUBSET (1..Len(c.rules))
  BY <1>1 DEF Stays
<1>3. /\ \E n \in 0..Len(c.rules) : SplitAt(c, l) \in [1..n -> Stays(c, l)]
      /\ Ordered(SplitAt(c, l), Stays(c, l))
  BY <1>2, InOrderIs DEF SplitAt
<1> QED  BY <1>2, <1>3

\* are each a rule of the whole config, narrowed.
LEMMA SplitKeptIs ==
  ASSUME NEW c \in Config, NEW l \in SUBSET Programs
  PROVE  /\ SplitKept(c, l) \in Seq(RuleSet)
         /\ \A i \in DOMAIN SplitKept(c, l) :
              \E n \in DOMAIN c.rules :
                 /\ n \in Stays(c, l) /\ n = SplitAt(c, l)[i] /\ c.rules[n] \in RuleSet
                 /\ KeptLocal(c.rules[n], SplitLocal(c)) \/ Narrows(c.rules[n], l)
                 /\ SplitKept(c, l)[i] = Narrowed(c, c.rules[n], l)
<1>1. c.rules \in Seq(RuleSet)
  BY DEF Config
<1>2. PICK n \in Nat : DOMAIN SplitAt(c, l) = 1..n
  BY SplitAtIs
<1>3. DOMAIN SplitKept(c, l) = DOMAIN SplitAt(c, l)
  BY DEF SplitKept
<1>4. ASSUME NEW i \in DOMAIN SplitKept(c, l)
      PROVE  \E k \in DOMAIN c.rules :
                 /\ k \in Stays(c, l) /\ k = SplitAt(c, l)[i] /\ c.rules[k] \in RuleSet
                 /\ KeptLocal(c.rules[k], SplitLocal(c)) \/ Narrows(c.rules[k], l)
                 /\ SplitKept(c, l)[i] = Narrowed(c, c.rules[k], l)
  <2> DEFINE k == SplitAt(c, l)[i]
  <2>1. k \in Stays(c, l)
    BY <1>3, SplitAtIs
  <2>2. k \in DOMAIN c.rules /\ (KeptLocal(c.rules[k], SplitLocal(c)) \/ Narrows(c.rules[k], l))
    BY <2>1 DEF Stays
  <2>3. c.rules[k] \in RuleSet
    BY <2>2, <1>1
  <2>4. SplitKept(c, l)[i] = Narrowed(c, c.rules[k], l)
    BY <1>3 DEF SplitKept
  <2> QED  BY <2>1, <2>2, <2>3, <2>4
<1>5. ASSUME NEW i \in DOMAIN SplitKept(c, l)  PROVE SplitKept(c, l)[i] \in RuleSet
  <2>1. PICK k \in DOMAIN c.rules :
          /\ c.rules[k] \in RuleSet
          /\ KeptLocal(c.rules[k], SplitLocal(c)) \/ Narrows(c.rules[k], l)
          /\ SplitKept(c, l)[i] = Narrowed(c, c.rules[k], l)
    BY <1>4
  <2>2. IsNarrowed(Narrowed(c, c.rules[k], l), c, c.rules[k], l)
    BY <2>1, NarrowedIs
  <2> QED  BY <2>1, <2>2 DEF IsNarrowed
<1>6. SplitKept(c, l) = [i \in 1..n |-> SplitKept(c, l)[i]]
  BY <1>2, <1>3 DEF SplitKept
<1>7. SplitKept(c, l) \in Seq(RuleSet)
  BY <1>2, <1>3, <1>5, <1>6
<1> QED  BY <1>4, <1>7

Added == Outbound("direct", "freedom", None)

\* The direct outbound the split adds.
LEMMA AddedIs ==
  Added \in OutboundSet /\ Added.tag = "direct" /\ IsLocal(Added) /\ "direct" # None
BY CoreConfigAssumption DEF Added, Outbound, OutboundSet, IsLocal

\* The mode has a way past the tunnel: the config's own or one behind the others.
LEMMA WithDirectIs ==
  ASSUME NEW c \in Config, 1 \in DOMAIN c.outbounds
  PROVE  LET obs == WithDirect(c)
         IN /\ obs \in Seq(OutboundSet) /\ 1 \in DOMAIN obs
            /\ \A i \in DOMAIN c.outbounds : i \in DOMAIN obs /\ obs[i] = c.outbounds[i]
            /\ \A i \in DOMAIN obs : i \in DOMAIN c.outbounds \/ obs[i] = Added
            /\ DirectTag(c) \in Names
            /\ \E i \in DOMAIN obs : obs[i].tag = DirectTag(c) /\ IsLocal(obs[i])
<1> DEFINE obs == WithDirect(c)
<1>1. c.outbounds \in Seq(OutboundSet)
  BY DEF Config
<1>2. CASE Freedoms(c) # {}
  <2>1. obs = c.outbounds /\ DirectTag(c) = c.outbounds[Min(Freedoms(c))].tag
    BY <1>2 DEF WithDirect, DirectTag
  <2>2. Freedoms(c) \in SUBSET Nat
    BY <1>1 DEF Freedoms
  <2>3. Min(Freedoms(c)) \in Freedoms(c)
    BY <1>2, <2>2, MinIs
  <2> DEFINE m == Min(Freedoms(c))
  <2>4. m \in DOMAIN c.outbounds /\ IsLocal(c.outbounds[m]) /\ c.outbounds[m].tag # None
    BY <2>3 DEF Freedoms, IsLocal
  <2> HIDE DEF m
  <2>5. c.outbounds[m] \in OutboundSet
    BY <1>1, <2>4
  <2>6. c.outbounds[m].tag \in Names
    BY <2>4, <2>5 DEF OutboundSet
  <2> QED  BY <1>1, <2>1, <2>4, <2>6 DEF m
<1>3. CASE Freedoms(c) = {}
  <2>1. obs = Append(c.outbounds, Added) /\ DirectTag(c) = "direct"
    BY <1>3 DEF WithDirect, DirectTag, Added
  <2>2. Added \in OutboundSet /\ Added.tag = "direct" /\ IsLocal(Added) /\ "direct" \in Names
    BY AddedIs, CoreConfigAssumption
  <2> DEFINE n == Len(c.outbounds)
  <2>3. /\ obs \in Seq(OutboundSet) /\ Len(obs) = n + 1 /\ n \in Nat
        /\ \A i \in 1..n : obs[i] = c.outbounds[i]
        /\ obs[n + 1] = Added
    BY <1>1, <2>1, <2>2, AppendProperties
  <2>4. DOMAIN obs = 1..(n + 1) /\ DOMAIN c.outbounds = 1..n
    BY <1>1, <2>3
  <2> HIDE DEF obs, n
  <2>5. n + 1 \in DOMAIN obs /\ obs[n + 1].tag = DirectTag(c) /\ IsLocal(obs[n + 1])
    BY <2>1, <2>2, <2>3, <2>4
  <2>6. \A i \in DOMAIN obs : i \in DOMAIN c.outbounds \/ obs[i] = Added
    <3> TAKE i \in DOMAIN obs
    <3>1. i \in 1..n \/ i = n + 1
      BY <2>3, <2>4
    <3> QED  BY <3>1, <2>3, <2>4
  <2>7. \A i \in DOMAIN c.outbounds : i \in DOMAIN obs /\ obs[i] = c.outbounds[i]
    BY <2>3, <2>4
  <2>8. 1 \in DOMAIN obs
    BY <2>7
  <2> QED  BY <2>1, <2>2, <2>3, <2>5, <2>6, <2>7, <2>8 DEF obs
<1> QED  BY <1>2, <1>3

\* What follows them: a rule for the listed programs and one for everything else.
LEMMA SplitRestIs ==
  ASSUME NEW c \in Config, 1 \in DOMAIN c.outbounds, NEW l \in SUBSET Programs
  PROVE  /\ SplitRest(c, l) \in Seq(RuleSet) /\ SplitLast(c) \in Seq(RuleSet)
         /\ \A i \in DOMAIN SplitRest(c, l) : i = 1 /\ SplitRest(c, l)[i].procs = l
         /\ DefaultTag(c) # None =>
              /\ 1 \in DOMAIN SplitRest(c, l)
              /\ SplitRest(c, l)[1] = Rule({}, l, {}, DefaultTag(c), None)
              /\ c.outbounds[1].tag = DefaultTag(c)
         /\ 1 \in DOMAIN SplitLast(c) /\ SplitLast(c)[1] = Rule({}, {}, {}, DirectTag(c), None)
         /\ \A i \in DOMAIN SplitLast(c) : i = 1
<1>1. c.outbounds[1] \in OutboundSet
  BY DEF Config
<1>2. DefaultTag(c) \in Names \cup {None}
  BY <1>1 DEF DefaultTag, OutboundSet
<1> DEFINE r == Rule({}, l, {}, DefaultTag(c), None)
           z == Rule({}, {}, {}, DirectTag(c), None)
<1>3. r \in RuleSet /\ r.procs = l
  BY <1>2 DEF Rule, RuleSet
<1>4. DirectTag(c) \in Names
  BY WithDirectIs
<1>5. z \in RuleSet
  BY <1>4 DEF Rule, RuleSet
<1>6. SplitRest(c, l) = (IF DefaultTag(c) = None THEN <<>> ELSE <<r>>) /\ SplitLast(c) = <<z>>
  BY DEF SplitRest, SplitLast
<1>7. DefaultTag(c) # None => c.outbounds[1].tag = DefaultTag(c)
  BY DEF DefaultTag
<1> HIDE DEF r, z
<1>8. CASE DefaultTag(c) = None
  BY <1>5, <1>6, <1>8 DEF z
<1>9. CASE DefaultTag(c) # None
  BY <1>3, <1>5, <1>6, <1>7, <1>9 DEF r, z
<1> QED  BY <1>8, <1>9

\* What ApplySplitRouting makes of a config: those rules, and a direct outbound.
LEMMA SplitIs ==
  ASSUME NEW c \in Config, 1 \in DOMAIN c.outbounds, NEW l \in SUBSET Programs,
         ApplySplitRouting(c, l) # Refused
  PROVE  LET d == ApplySplitRouting(c, l)
         IN /\ l # {} /\ d \in Config /\ 1 \in DOMAIN d.outbounds
            /\ d.outbounds = WithDirect(c) /\ d.balancers = c.balancers
            /\ d.inbounds = c.inbounds
            /\ d.rules = SplitKept(c, l) \o SplitRest(c, l) \o SplitLast(c)
<1> DEFINE rules == SplitKept(c, l) \o SplitRest(c, l) \o SplitLast(c)
           obs == WithDirect(c)
<1>1. l # {} /\ ApplySplitRouting(c, l) = [c EXCEPT !.outbounds = obs, !.rules = rules]
  BY DEF ApplySplitRouting, SplitKept, SplitAt, SplitLast
<1>2. rules \in Seq(RuleSet)
  <2>1. SplitKept(c, l) \in Seq(RuleSet) /\ SplitRest(c, l) \in Seq(RuleSet) /\ SplitLast(c) \in Seq(RuleSet)
    BY SplitKeptIs, SplitRestIs
  <2>2. SplitKept(c, l) \o SplitRest(c, l) \in Seq(RuleSet)
    BY <2>1, ConcatIs
  <2> QED  BY <2>1, <2>2, ConcatIs
<1>3. obs \in Seq(OutboundSet) /\ 1 \in DOMAIN obs
  BY WithDirectIs
<1> HIDE DEF rules, obs
<1> DEFINE d == [c EXCEPT !.outbounds = obs, !.rules = rules]
<1>4. /\ d \in Config /\ d.outbounds = obs /\ d.rules = rules /\ d.balancers = c.balancers
      /\ d.inbounds = c.inbounds
  BY <1>2, <1>3 DEF Config
<1> HIDE DEF d
<1> QED  BY <1>1, <1>3, <1>4 DEF d, rules, obs

\* Where an entry of two sequences put together comes from.
LEMMA JoinIs ==
  ASSUME NEW S, NEW a \in Seq(S), NEW b \in Seq(S), NEW i \in DOMAIN (a \o b)
  PROVE  \/ \E j \in DOMAIN a : i = j /\ (a \o b)[i] = a[j]
         \/ \E j \in DOMAIN b : i = Len(a) + j /\ (a \o b)[i] = b[j]
<1>1. /\ a \o b \in Seq(S) /\ Len(a \o b) = Len(a) + Len(b)
      /\ \A k \in 1..Len(a) : (a \o b)[k] = a[k]
      /\ \A k \in 1..Len(b) : (a \o b)[Len(a) + k] = b[k]
  BY ConcatIs
<1>2. i \in 1..(Len(a) + Len(b))
  BY <1>1
<1>3. CASE i <= Len(a)
  <2>1. i \in 1..Len(a)
    BY <1>2, <1>3
  <2> QED  BY <2>1, <1>1
<1>4. CASE ~(i <= Len(a))
  <2>1. i - Len(a) \in 1..Len(b) /\ i = Len(a) + (i - Len(a))
    BY <1>2, <1>4
  <2> QED  BY <2>1, <1>1
<1> QED  BY <1>3, <1>4

NoneHolds(a, p) == \A i \in DOMAIN a : ~Holds(a[i], p)

FirstHolds(b, k, p) == Holds(b[k], p) /\ \A j \in DOMAIN b : j < k => ~Holds(b[j], p)

\* Behind rules that do not hold, the first that does decides.
LEMMA WayBehind ==
  ASSUME NEW d \in Config, NEW a \in Seq(RuleSet), NEW b \in Seq(RuleSet), d.rules = a \o b,
         NEW p, NoneHolds(a, p)
  PROVE  \A k \in DOMAIN b : FirstHolds(b, k, p) => Way(d, p) = Behind(d, b[k])
<1> SUFFICES ASSUME NEW k \in DOMAIN b, FirstHolds(b, k, p)  PROVE Way(d, p) = Behind(d, b[k])
  OBVIOUS
<1>1. /\ d.rules \in Seq(RuleSet) /\ Len(d.rules) = Len(a) + Len(b)
      /\ \A i \in 1..Len(b) : d.rules[Len(a) + i] = b[i]
  BY ConcatIs
<1> DEFINE n == Len(a) + k
<1>2. n \in DOMAIN d.rules /\ d.rules[n] = b[k] /\ k \in 1..Len(b)
  BY <1>1
<1>3. ASSUME NEW j \in 1..(n - 1)  PROVE ~Holds(d.rules[j], p)
  <2>1. j \in DOMAIN (a \o b)
    BY <1>1, <1>2
  <2>2. CASE \E i \in DOMAIN a : j = i /\ (a \o b)[j] = a[i]
    BY <2>2 DEF NoneHolds
  <2>3. CASE \E i \in DOMAIN b : j = Len(a) + i /\ (a \o b)[j] = b[i]
    <3>1. PICK i \in DOMAIN b : j = Len(a) + i /\ (a \o b)[j] = b[i]
      BY <2>3
    <3>2. i < k
      BY <3>1, <1>2
    <3> QED  BY <3>1, <3>2 DEF FirstHolds
  <2> QED  BY <2>1, <2>2, <2>3, JoinIs
<1> HIDE DEF n
<1> QED  BY <1>2, <1>3, WayIs DEF FirstHolds

\* A core that starts has one outbound of a tag,
LEMMA OneOfATag ==
  ASSUME NEW d, Starts(d), NEW o \in Outbounds(d), NEW q \in Outbounds(d),
         o.tag = q.tag, o.tag # None
  PROVE  o = q
BY DEF Starts, Outbounds, ToSet

\* so that a rule led to a local tag leads to local outbounds only.
LEMMA LocalOnly ==
  ASSUME NEW d, Starts(d), NEW r, r.balancer = None, r.tag \in LocalTags(d),
         NEW o \in Behind(d, r)
  PROVE  IsLocal(o)
<1>1. o \in Outbounds(d) /\ o.tag = r.tag /\ r.tag # None
  BY DEF Behind, LocalTags
<1>2. PICK q \in Outbounds(d) : IsLocal(q) /\ q.tag = r.tag
  BY DEF LocalTags
<1>3. o = q
  BY <1>1, <1>2, OneOfATag
<1> QED  BY <1>2, <1>3

\* What the split takes for local is local.
LEMMA SplitLocalIs ==
  ASSUME NEW c \in Config, 1 \in DOMAIN c.outbounds, NEW d, d.outbounds = WithDirect(c)
  PROVE  SplitLocal(c) \subseteq LocalTags(d)
<1>1. /\ \A i \in DOMAIN c.outbounds : i \in DOMAIN d.outbounds /\ d.outbounds[i] = c.outbounds[i]
      /\ DirectTag(c) \in Names
      /\ \E i \in DOMAIN d.outbounds : d.outbounds[i].tag = DirectTag(c) /\ IsLocal(d.outbounds[i])
  BY WithDirectIs
<1>2. Outbounds(c) \subseteq Outbounds(d)
  BY <1>1 DEF Outbounds, ToSet
<1>3. LocalTags(c) \subseteq LocalTags(d)
  BY <1>2 DEF LocalTags
<1>4. DirectTag(c) \in LocalTags(d)
  <2>1. DirectTag(c) # None
    BY <1>1, CoreConfigAssumption
  <2>2. \E o \in Outbounds(d) : o.tag = DirectTag(c) /\ IsLocal(o)
    BY <1>1 DEF Outbounds, ToSet
  <2> QED  BY <2>1, <2>2 DEF LocalTags
<1> QED  BY <1>3, <1>4 DEF SplitLocal

\* A program that is not listed does not travel the tunnel.
LEMMA SplitKeepsOut ==
  ASSUME NEW c \in Config, 1 \in DOMAIN c.outbounds, NEW l \in SUBSET Programs,
         ApplySplitRouting(c, l) # Refused, Starts(ApplySplitRouting(c, l)),
         NEW p, p.proc \notin l, NEW o \in Way(ApplySplitRouting(c, l), p)
  PROVE  IsLocal(o)
<1> DEFINE d == ApplySplitRouting(c, l)
           a == SplitKept(c, l) \o SplitRest(c, l)
           b == SplitLast(c)
<1>1. /\ l # {} /\ d \in Config /\ d.outbounds = WithDirect(c) /\ d.rules = a \o b
  BY SplitIs
<1>2. /\ SplitKept(c, l) \in Seq(RuleSet) /\ SplitRest(c, l) \in Seq(RuleSet) /\ b \in Seq(RuleSet)
      /\ 1 \in DOMAIN b /\ b[1] = Rule({}, {}, {}, DirectTag(c), None)
      /\ \A i \in DOMAIN SplitRest(c, l) : SplitRest(c, l)[i].procs = l
  BY SplitKeptIs, SplitRestIs
<1>3. a \in Seq(RuleSet)
  BY <1>2, ConcatIs
<1>4. SplitLocal(c) \subseteq LocalTags(d)
  BY <1>1, SplitLocalIs
<1>5. Starts(d) /\ o \in Way(d, p)
  OBVIOUS
<1> HIDE DEF d, b
<1>6. CASE \E i \in DOMAIN a : Holds(a[i], p)
  <2>1. PICK i \in DOMAIN a : Holds(a[i], p) /\ Way(d, p) = Behind(d, a[i])
    <3> HIDE DEF a
    <3> QED  BY <1>1, <1>2, <1>3, <1>6, WayFront
  <2>2. a[i].balancer = None /\ a[i].tag \in SplitLocal(c)
    <3>1. CASE \E j \in DOMAIN SplitKept(c, l) : a[i] = SplitKept(c, l)[j]
      <4>1. PICK j \in DOMAIN SplitKept(c, l) : a[i] = SplitKept(c, l)[j]
        BY <3>1
      <4>2. PICK n \in DOMAIN c.rules :
              /\ c.rules[n] \in RuleSet
              /\ KeptLocal(c.rules[n], SplitLocal(c)) \/ Narrows(c.rules[n], l)
              /\ SplitKept(c, l)[j] = Narrowed(c, c.rules[n], l)
        BY SplitKeptIs
      <4> DEFINE r == c.rules[n]
                 q == Narrowed(c, r, l)
      <4> HIDE DEF a, r, q
      <4>3. /\ q.tag = r.tag /\ q.balancer = r.balancer
            /\ KeptLocal(r, SplitLocal(c)) \/ (q.procs # {} /\ q.procs \subseteq l)
        <5>1. IsNarrowed(q, c, r, l)
          BY <4>2, NarrowedIs DEF r, q
        <5> QED  BY <5>1 DEF IsNarrowed
      <4>4. a[i] = q
        BY <4>1, <4>2 DEF r, q
      <4>5. KeptLocal(r, SplitLocal(c))
        BY <2>1, <4>3, <4>4 DEF Holds
      <4> QED  BY <4>3, <4>4, <4>5 DEF KeptLocal
    <3>2. CASE \E j \in DOMAIN SplitRest(c, l) : a[i] = SplitRest(c, l)[j]
      <4>1. a[i].procs = l
        BY <3>2, <1>2
      <4> HIDE DEF a
      <4> QED  BY <4>1, <2>1, <1>1 DEF Holds
    <3> QED  BY <3>1, <3>2, <1>2, JoinIs
  <2> HIDE DEF a
  <2> QED  BY <2>1, <2>2, <1>4, <1>5, LocalOnly
<1>7. CASE NoneHolds(a, p)
  <2> HIDE DEF a
  <2> DEFINE z == Rule({}, {}, {}, DirectTag(c), None)
  <2>1. z.balancer = None /\ z.tag = DirectTag(c) /\ Holds(z, p)
    BY DEF Rule, Holds
  <2>2. b[1] = z
    BY <1>2
  <2> HIDE DEF z
  <2>3. 1 \in DOMAIN b /\ FirstHolds(b, 1, p)
    <3>1. \A j \in DOMAIN b : ~(j < 1)
      BY <1>2
    <3> QED  BY <3>1, <1>2, <2>1, <2>2 DEF FirstHolds
  <2>4. Way(d, p) = Behind(d, z)
    <3>1. \A k \in DOMAIN b : FirstHolds(b, k, p) => Way(d, p) = Behind(d, b[k])
      <4>1. /\ d \in Config /\ a \in Seq(RuleSet) /\ b \in Seq(RuleSet) /\ d.rules = a \o b
            /\ NoneHolds(a, p)
        BY <1>1, <1>2, <1>3, <1>7
      <4> QED  BY <4>1, WayBehind
    <3> QED  BY <3>1, <2>2, <2>3
  <2>5. z.tag \in LocalTags(d)
    BY <2>1, <1>4 DEF SplitLocal
  <2> QED  BY <2>1, <2>4, <2>5, <1>5, LocalOnly
<1> QED  BY <1>6, <1>7 DEF NoneHolds

\* What a rule leads to is the same with the split's outbounds.
LEMMA SplitBehind ==
  ASSUME NEW c \in Config, 1 \in DOMAIN c.outbounds, Starts(c), NEW d \in Config, Starts(d),
         d.outbounds = WithDirect(c), d.balancers = c.balancers,
         NEW r \in ToSet(c.rules), NEW q, q.tag = r.tag, q.balancer = r.balancer
  PROVE  Behind(d, q) = Behind(c, r)
<1> DEFINE tags == IF r.balancer = None THEN {r.tag}
                   ELSE UNION {b.over : b \in {e \in ToSet(c.balancers) : e.tag = r.balancer}}
<1>1. tags \subseteq Tags(c)
  BY DEF Starts
<1>2. Behind(c, r) = {o \in Outbounds(c) : o.tag \in tags}
  BY DEF Behind
<1>3. Behind(d, q) = {o \in Outbounds(d) : o.tag \in tags}
  BY DEF Behind
<1> HIDE DEF tags
<1>4. Outbounds(c) \subseteq Outbounds(d)
  <2>1. \A i \in DOMAIN c.outbounds : i \in DOMAIN d.outbounds /\ d.outbounds[i] = c.outbounds[i]
    BY WithDirectIs
  <2> QED  BY <2>1 DEF Outbounds, ToSet
<1>5. ASSUME NEW o \in Outbounds(d), o.tag \in tags  PROVE o \in Outbounds(c)
  <2>1. PICK u \in Outbounds(c) : u.tag = o.tag /\ u.tag # None
    BY <1>1, <1>5 DEF Tags
  <2>2. u = o
    BY <2>1, <1>4, OneOfATag
  <2> QED  BY <2>2
<1> QED  BY <1>2, <1>3, <1>4, <1>5

\* Where the split's rules are: those that stay, then its own.
LEMMA SplitRules ==
  ASSUME NEW c \in Config, 1 \in DOMAIN c.outbounds, NEW l \in SUBSET Programs,
         ApplySplitRouting(c, l) # Refused
  PROVE  LET rules == ApplySplitRouting(c, l).rules
             k == SplitKept(c, l)
         IN /\ Len(k) \in Nat /\ DOMAIN k = 1..Len(k)
            /\ \A i \in DOMAIN k : i \in DOMAIN rules /\ rules[i] = k[i]
            /\ DefaultTag(c) # None => /\ Len(k) + 1 \in DOMAIN rules
                                       /\ rules[Len(k) + 1] = Rule({}, l, {}, DefaultTag(c), None)
<1> DEFINE k == SplitKept(c, l)
           r == SplitRest(c, l)
           z == SplitLast(c)
           a == k \o r
<1>1. k \in Seq(RuleSet) /\ r \in Seq(RuleSet) /\ z \in Seq(RuleSet)
  BY SplitKeptIs, SplitRestIs
<1>2. ApplySplitRouting(c, l).rules = a \o z
  BY SplitIs
<1>3. DefaultTag(c) # None => 1 \in DOMAIN r /\ r[1] = Rule({}, l, {}, DefaultTag(c), None)
  BY SplitRestIs
<1> HIDE DEF k, r, z
<1>4. /\ a \in Seq(RuleSet) /\ Len(a) = Len(k) + Len(r)
      /\ \A i \in 1..Len(k) : a[i] = k[i]
      /\ \A i \in 1..Len(r) : a[Len(k) + i] = r[i]
  BY <1>1, ConcatIs
<1> HIDE DEF a
<1>5. /\ a \o z \in Seq(RuleSet) /\ Len(a \o z) = Len(a) + Len(z)
      /\ \A i \in 1..Len(a) : (a \o z)[i] = a[i]
  <2>1. a \in Seq(RuleSet) /\ z \in Seq(RuleSet)
    BY <1>1, <1>4
  <2> QED  BY <2>1, ConcatIs
<1>6. /\ Len(k) \in Nat /\ Len(r) \in Nat /\ Len(z) \in Nat /\ DOMAIN k = 1..Len(k)
      /\ DOMAIN r = 1..Len(r) /\ DOMAIN (a \o z) = 1..(Len(k) + Len(r) + Len(z))
  BY <1>1, <1>4, <1>5
<1>7. \A i \in DOMAIN k : i \in DOMAIN (a \o z) /\ (a \o z)[i] = k[i]
  <2> TAKE i \in DOMAIN k
  <2>1. i \in 1..Len(k) /\ i \in 1..Len(a) /\ i \in 1..(Len(k) + Len(r) + Len(z))
    BY <1>4, <1>6
  <2> QED  BY <2>1, <1>4, <1>5, <1>6
<1>8. ASSUME 1 \in DOMAIN r  PROVE Len(k) + 1 \in DOMAIN (a \o z) /\ (a \o z)[Len(k) + 1] = r[1]
  <2>1. 1 \in 1..Len(r) /\ Len(k) + 1 \in 1..Len(a) /\ Len(k) + 1 \in 1..(Len(k) + Len(r) + Len(z))
    BY <1>4, <1>6, <1>8
  <2> QED  BY <2>1, <1>4, <1>5, <1>6
<1> QED  BY <1>2, <1>3, <1>6, <1>7, <1>8 DEF k

\* A listed program goes where the whole config would have sent it.
LEMMA SplitGoesOn ==
  ASSUME NEW c \in Config, 1 \in DOMAIN c.outbounds, Starts(c), NEW l \in SUBSET Programs,
         ApplySplitRouting(c, l) # Refused, Starts(ApplySplitRouting(c, l)),
         DefaultTag(c) # None, NEW p, p.proc \in l
  PROVE  Way(ApplySplitRouting(c, l), p) = Way(c, p)
<1> DEFINE d == ApplySplitRouting(c, l)
           k == SplitKept(c, l)
           rest == Rule({}, l, {}, DefaultTag(c), None)
<1>1. /\ d \in Config /\ d.outbounds = WithDirect(c) /\ d.balancers = c.balancers
      /\ 1 \in DOMAIN d.outbounds
  BY SplitIs
<1>2. /\ Len(k) \in Nat /\ DOMAIN k = 1..Len(k)
      /\ \A i \in DOMAIN k : i \in DOMAIN d.rules /\ d.rules[i] = k[i]
      /\ Len(k) + 1 \in DOMAIN d.rules /\ d.rules[Len(k) + 1] = rest
  BY SplitRules
<1>3. c.rules \in Seq(RuleSet)
  BY DEF Config
<1>4. \A i \in DOMAIN k :
        \E n \in DOMAIN c.rules :
          /\ n = SplitAt(c, l)[i]
          /\ KeptLocal(c.rules[n], SplitLocal(c)) \/ Narrows(c.rules[n], l)
          /\ k[i] = Narrowed(c, c.rules[n], l)
  BY SplitKeptIs
<1>5. ASSUME NEW i \in DOMAIN k, NEW n \in DOMAIN c.rules,
             KeptLocal(c.rules[n], SplitLocal(c)) \/ Narrows(c.rules[n], l),
             k[i] = Narrowed(c, c.rules[n], l)
      PROVE  /\ k[i].tag = c.rules[n].tag /\ k[i].balancer = c.rules[n].balancer
             /\ Holds(k[i], p) <=> Holds(c.rules[n], p)
  <2>1. c.rules[n] \in RuleSet
    BY <1>3
  <2>2. IsNarrowed(Narrowed(c, c.rules[n], l), c, c.rules[n], l)
    BY <2>1, <1>5, NarrowedIs
  <2> HIDE DEF k
  <2> QED  BY <2>2, <1>5 DEF IsNarrowed
<1>6. Starts(d)
  OBVIOUS
<1>7. DOMAIN k = DOMAIN SplitAt(c, l) /\ Ordered(SplitAt(c, l), Stays(c, l))
  BY SplitAtIs DEF SplitKept
<1> HIDE DEF d, k
<1>8. CASE Hits(c, p) = {}
  <2>1. \A i \in DOMAIN c.rules : ~Holds(c.rules[i], p)
    BY <1>8 DEF Hits
  <2>2. \A i \in DOMAIN k : ~Holds(k[i], p)
    BY <2>1, <1>4, <1>5
  <2>3. Holds(rest, p) /\ rest.tag = DefaultTag(c) /\ rest.balancer = None
    BY DEF Rule, Holds
  <2> DEFINE m == Len(k) + 1
  <2>4. m \in DOMAIN d.rules /\ d.rules[m] = rest
    BY <1>2
  <2> HIDE DEF rest
  <2>5. \A j \in 1..(m - 1) : ~Holds(d.rules[j], p)
    BY <1>2, <2>2
  <2> HIDE DEF m
  <2>6. Way(d, p) = Behind(d, rest)
    BY <1>1, <2>3, <2>4, <2>5, WayIs
  <2> DEFINE o == c.outbounds[1]
  <2>7. Way(c, p) = {o} /\ o.tag = DefaultTag(c)
    BY <1>8 DEF Way, DefaultTag
  <2>8. o \in Outbounds(d)
    <3>1. 1 \in DOMAIN d.outbounds /\ d.outbounds[1] = o
      BY <1>1, WithDirectIs
    <3> QED  BY <3>1 DEF Outbounds, ToSet
  <2> HIDE DEF o
  <2>9. Behind(d, rest) = {q \in Outbounds(d) : q.tag = o.tag}
    BY <2>3, <2>7 DEF Behind
  <2>10. \A q \in Outbounds(d) : q.tag = o.tag => q = o
    BY <2>7, <2>8, <1>6, OneOfATag
  <2> QED  BY <2>6, <2>7, <2>8, <2>9, <2>10 DEF d
<1>9. CASE Hits(c, p) # {}
  <2>1. PICK n \in DOMAIN c.rules : /\ Holds(c.rules[n], p)
                                    /\ \A j \in 1..(n - 1) : ~Holds(c.rules[j], p)
    BY <1>9, FirstHit
  <2> DEFINE r == c.rules[n]
  <2>2. r \in RuleSet /\ r \in ToSet(c.rules) /\ Holds(r, p) /\ n \in 1..Len(c.rules)
    BY <1>3, <2>1 DEF ToSet
  <2>3. r.balancer # None \/ r.tag # None
    BY <2>2 DEF Starts, Tags
  <2>4. n \in Stays(c, l)
    <3>1. Narrows(r, l)
      BY <2>2, <2>3, NarrowsIs
    <3> QED  BY <3>1 DEF Stays
  <2>5. PICK i \in DOMAIN k : SplitAt(c, l)[i] = n
    BY <2>4, <1>7 DEF Ordered
  <2>6. k[i].tag = r.tag /\ k[i].balancer = r.balancer /\ Holds(k[i], p)
    BY <2>1, <2>5, <1>4, <1>5
  <2>7. ASSUME NEW j \in 1..(i - 1)  PROVE ~Holds(d.rules[j], p)
    <3>1. j \in DOMAIN k /\ j < i
      BY <1>2
    <3>2. PICK m \in DOMAIN c.rules :
            /\ m = SplitAt(c, l)[j]
            /\ KeptLocal(c.rules[m], SplitLocal(c)) \/ Narrows(c.rules[m], l)
            /\ k[j] = Narrowed(c, c.rules[m], l)
      BY <3>1, <1>4
    <3>3. m < n
      BY <3>1, <3>2, <2>5, <1>7 DEF Ordered
    <3>4. ~Holds(c.rules[m], p)
      BY <3>3, <2>1, <2>2, <1>3
    <3>5. ~Holds(k[j], p)
      BY <3>1, <3>2, <3>4, <1>5
    <3> QED  BY <3>1, <3>5, <1>2
  <2> HIDE DEF r
  <2>8. i \in DOMAIN d.rules /\ d.rules[i] = k[i]
    BY <1>2
  <2>9. Way(d, p) = Behind(d, k[i])
    BY <1>1, <2>6, <2>7, <2>8, WayIs
  <2>10. Behind(d, k[i]) = Behind(c, r)
    BY <1>1, <1>6, <2>2, <2>6, SplitBehind
  <2>11. Way(c, p) = Behind(c, r)
    BY <2>1, WayIs DEF r
  <2> QED  BY <2>9, <2>10, <2>11 DEF d
<1> QED  BY <1>8, <1>9
-----------------------------------------------------------------------------
(* What a session and a preview run on. *)

SourceOf(row, s) == Source(Target(row), Inbounds(s))

SplitOf(row, s) == WithSplitRouting(SourceOf(row, s), s)

ProbedOf(row, s) == PrependProbeRule(SplitOf(row, s), ProbeInbounds(s))

Usable(c, s) == c \in Config /\ 1 \in DOMAIN c.outbounds /\ c.inbounds = Inbounds(s)

\* The inbounds of a mode, and those of its probe.
LEMMA InboundsAre ==
  ASSUME NEW s
  PROVE  Inbounds(s) \in SUBSET InboundTags /\ ProbeInbounds(s) \in SUBSET InboundTags
BY CoreConfigAssumption DEF Inbounds, ProbeInbounds

\* BuildModeConfig in its steps: the source, the split, the probe's rules, and the finish.
LEMMA ModeIs ==
  ASSUME BuiltInv, NEW row \in Rows, NEW s \in BOOLEAN,
         BuildModeConfig(Target(row), s) # Refused
  PROVE  /\ Usable(SourceOf(row, s), s) /\ Usable(SplitOf(row, s), s) /\ Usable(ProbedOf(row, s), s)
         /\ s /\ windows => SplitOf(row, s) = ApplySplitRouting(SourceOf(row, s), apps)
         /\ ~(s /\ windows) => SplitOf(row, s) = SourceOf(row, s)
         /\ Usable(BuildModeConfig(Target(row), s), s)
         /\ Alike(BuildModeConfig(Target(row), s), ProbedOf(row, s))
<1> DEFINE c == SourceOf(row, s)
           w == SplitOf(row, s)
           x == ProbedOf(row, s)
           m == BuildModeConfig(Target(row), s)
           Split(d) == WithSplitRouting(d, s)
           Probe(d) == PrependProbeRule(d, ProbeInbounds(s))
<1>1. sub \in Seq(Profile) /\ apps \in SUBSET Programs
  BY CoreConfigAssumption DEF BuiltInv, ConfigTyped
<1>2. m = FinalizeConfig(Unless(Unless(c, Split), Probe))
  BY DEF BuildModeConfig, BuildModeSource, Probed, SourceOf
<1>3. m # Refused
  OBVIOUS
<1>4. c # Refused
  BY <1>2, <1>3 DEF Unless, FinalizeConfig
<1>5. Usable(c, s)
  BY <1>1, <1>4, InboundsAre, SourceIs DEF SourceOf, Usable
<1>6. Unless(c, Split) = w
  <2>1. c \notin {Refused, NoRouting}
    BY <1>5, CoreConfigAssumption DEF Usable
  <2> QED  BY <2>1 DEF Unless, SplitOf
<1>7. w # Refused
  BY <1>2, <1>3, <1>6 DEF Unless, FinalizeConfig
<1>8. /\ s /\ windows => w = ApplySplitRouting(c, apps)
      /\ ~(s /\ windows) => w = c
  BY DEF SplitOf, WithSplitRouting
<1> HIDE DEF c, w, m
<1>9. Usable(w, s)
  <2>1. CASE s /\ windows
    <3>1. LET d == ApplySplitRouting(c, apps)
          IN d \in Config /\ 1 \in DOMAIN d.outbounds /\ d.inbounds = c.inbounds
      BY <1>1, <1>5, <1>7, <1>8, <2>1, SplitIs DEF Usable
    <3> QED  BY <3>1, <1>5, <1>8, <2>1 DEF Usable
  <2>2. CASE ~(s /\ windows)
    BY <2>2, <1>5, <1>8
  <2> QED  BY <2>1, <2>2
<1>10. Unless(w, Probe) = x
  <2>1. w \notin {Refused, NoRouting}
    BY <1>9, CoreConfigAssumption DEF Usable
  <2> QED  BY <2>1 DEF Unless, ProbedOf, w
<1>11. Usable(x, s)
  <2>1. x = PrependProbeRule(w, ProbeInbounds(s))
    BY DEF ProbedOf, w
  <2>2. /\ x \in Config /\ x.outbounds = w.outbounds /\ x.inbounds = w.inbounds
    BY <2>1, <1>9, InboundsAre, PrependIs DEF Usable
  <2> QED  BY <2>2, <1>9 DEF Usable
<1> HIDE DEF x
<1>12. m = FinalizeConfig(x)
  BY <1>2, <1>6, <1>10
<1>13. Usable(m, s) /\ Alike(m, x)
  <2>1. m \in Config /\ Alike(m, x) /\ m.inbounds = x.inbounds
    BY <1>3, <1>11, <1>12, FinalizeIs DEF Usable
  <2> QED  BY <2>1, <1>11 DEF Usable, Alike
<1> QED  BY <1>5, <1>8, <1>9, <1>11, <1>13 DEF c, w, x, m

\* The config of a session leads as the one that was built, with every way out bound
\* on the tunnel and every server kept off it by the service.
LEMMA RunsIs ==
  ASSUME BuiltInv, job # None, job.kind \in {"session", "preview"}
  PROVE  /\ split \in BOOLEAN /\ job.row \in Rows
         /\ BuildModeConfig(Target(job.row), split) # Refused
         /\ Usable(job.cfg, split) /\ Alike(job.cfg, ProbedOf(job.row, split))
         /\ job.kind = "session" /\ TunMode(split) =>
              \A o \in Outbounds(job.cfg) : o.proto = "freedom" => o.mark = "ours"
         /\ job.kind = "session" /\ job.service =>
              \A o \in Outbounds(job.cfg) : ~IsLocal(o) => o.server \in job.kept \cup {None}
<1> DEFINE row == job.row
           m == BuildModeConfig(Target(row), split)
           x == ProbedOf(row, split)
<1>1. split \in BOOLEAN /\ row \in Rows /\ job.cfg # Refused
  BY DEF BuiltInv, ConfigTyped, JobBuilt
<1>2. ASSUME m # Refused  PROVE Usable(m, split) /\ Alike(m, x)
  BY <1>1, <1>2, ModeIs
<1>3. Refused \notin Config /\ NoRouting \notin Config
  BY CoreConfigAssumption
<1>4. CASE job.kind = "preview"
  <2>1. job.cfg = m
    BY <1>4 DEF BuiltInv, JobBuilt
  <2>2. job.kind # "session"
    BY <1>4
  <2> QED  BY <1>1, <1>2, <2>1, <2>2
<1>5. CASE job.kind = "session" /\ ~job.service
  <2>1. job.cfg = BuildSessionConfig(Target(row), split)
    BY <1>5 DEF BuiltInv, JobBuilt
  <2>2. job.cfg = IF TunMode(split) THEN Unless(m, BindDirectOutbounds) ELSE m
    BY <2>1 DEF BuildSessionConfig
  <2>3. m # Refused
    BY <1>1, <2>2 DEF Unless
  <2>4. Usable(m, split) /\ Alike(m, x)
    BY <1>2, <2>3
  <2> HIDE DEF m, x
  <2>5. CASE TunMode(split)
    <3>1. job.cfg = BindDirectOutbounds(m)
      BY <2>2, <2>4, <2>5, <1>3 DEF Unless, Usable
    <3>2. /\ job.cfg \in Config /\ Alike(job.cfg, m) /\ job.cfg.inbounds = m.inbounds
          /\ \A o \in Outbounds(job.cfg) : o.proto = "freedom" => o.mark = "ours"
      BY <3>1, <2>4, BindAllIs DEF Usable
    <3>3. Usable(job.cfg, split)
      BY <3>2, <2>4 DEF Usable, Alike
    <3>4. Alike(job.cfg, x)
      BY <3>2, <2>4, AlikeOn
    <3> QED  BY <1>1, <1>5, <2>3, <3>2, <3>3, <3>4 DEF m, x
  <2>6. CASE ~TunMode(split)
    BY <1>1, <1>5, <2>2, <2>3, <2>4, <2>6 DEF m, x
  <2> QED  BY <2>5, <2>6
<1>6. CASE job.kind = "session" /\ job.service
  <2>1. job.cfg = ServiceConfig(m) /\ TunMode(split) /\ job.kept = OutboundServers(m)
    BY <1>6 DEF BuiltInv, JobBuilt
  <2> DEFINE a == AssembleService(m)
             f == FinalizeConfig(a)
  <2>2. m # Refused
    BY <1>1, <2>1 DEF ServiceConfig, Unless, FinalizeConfig
  <2>3. Usable(m, split) /\ Alike(m, x)
    BY <1>2, <2>2
  <2> HIDE DEF m, x
  <2>4. job.cfg = Unless(f, BindDirectOutbounds)
    BY <2>1, <2>3, <1>3 DEF ServiceConfig, Unless, Usable
  <2>5. f # Refused /\ a # Refused
    BY <1>1, <2>4 DEF Unless, FinalizeConfig
  <2>6. a \in Config /\ Alike(a, m) /\ a.inbounds = {"tun", "probe"}
    BY <2>3, <2>5, AssembleIs DEF Usable
  <2> HIDE DEF a
  <2>7. f \in Config /\ Alike(f, a) /\ f.inbounds = a.inbounds
    BY <2>5, <2>6, FinalizeIs
  <2> HIDE DEF f
  <2>8. job.cfg = BindDirectOutbounds(f)
    BY <2>4, <2>7, <1>3 DEF Unless
  <2>9. /\ job.cfg \in Config /\ Alike(job.cfg, f) /\ job.cfg.inbounds = f.inbounds
        /\ \A o \in Outbounds(job.cfg) : o.proto = "freedom" => o.mark = "ours"
    BY <2>7, <2>8, BindAllIs
  <2>10. Alike(job.cfg, m)
    BY <2>6, <2>7, <2>9, AlikeOn
  <2>11. Alike(job.cfg, x)
    BY <2>3, <2>10, AlikeOn
  <2>12. Usable(job.cfg, split)
    <3>1. Inbounds(split) = {"tun", "probe"}
      BY <2>1 DEF Inbounds
    <3>2. DOMAIN job.cfg.outbounds = DOMAIN m.outbounds
      BY <2>10 DEF Alike
    <3> QED  BY <2>3, <2>6, <2>7, <2>9, <3>1, <3>2 DEF Usable
  <2>13. ASSUME NEW o \in Outbounds(job.cfg), ~IsLocal(o)  PROVE o.server \in job.kept \cup {None}
    <3>1. PICK q \in Outbounds(m) : SameOut(o, q)
      BY <2>10, AlikeOutbounds
    <3>2. ~IsLocal(q) /\ q.server = o.server
      BY <3>1, <2>13, AlikeLocal DEF SameOut
    <3> QED  BY <3>1, <3>2, <2>1 DEF OutboundServers
  <2> QED  BY <1>1, <1>6, <2>2, <2>9, <2>11, <2>12, <2>13 DEF m, x
<1> QED  BY <1>4, <1>5, <1>6
-----------------------------------------------------------------------------
\* Of a config that was built so, an outbound never comes back in.
LEMMA NothingLoopsFollows == ASSUME BuiltInv PROVE NothingLoops
<1> SUFFICES ASSUME InSession, "tun" \in job.cfg.inbounds,
                    NEW p \in Theirs \cup Probes(job.cfg), NEW o \in Way(job.cfg, p)
             PROVE  /\ o.proto = "freedom" => o.mark = "ours"
                    /\ job.service /\ ~IsLocal(o) => o.server \in job.kept \cup {None}
  BY DEF NothingLoops
<1>1. job # None /\ job.kind = "session"
  BY DEF InSession, Idle
<1>2. /\ Usable(job.cfg, split)
      /\ TunMode(split) =>
           \A q \in Outbounds(job.cfg) : q.proto = "freedom" => q.mark = "ours"
      /\ job.service =>
           \A q \in Outbounds(job.cfg) : ~IsLocal(q) => q.server \in job.kept \cup {None}
  BY <1>1, RunsIs
<1>3. TunMode(split)
  BY <1>2 DEF Usable, Inbounds
<1>4. o \in Outbounds(job.cfg)
  BY <1>2, WayWithin DEF Usable
<1> QED  BY <1>2, <1>3, <1>4

\* Nothing the core sends comes back to it over the tunnel.
THEOREM NothingLoopsAlways == ConfigSpec => []NothingLoops
BY ConfigInvariant, NothingLoopsFollows, PTL
-----------------------------------------------------------------------------
(* The inbounds do not change what is behind them. *)

SameBehind(a, b) ==
  /\ a = Refused <=> b = Refused
  /\ a = NoRouting <=> b = NoRouting
  /\ a \notin {Refused, NoRouting} =>
       a.outbounds = b.outbounds /\ a.rules = b.rules /\ a.balancers = b.balancers

\* The inbounds a source is built for do not change what is behind it,
LEMMA BaseBehind ==
  ASSUME NEW prof \in Profile, NEW i \in SUBSET InboundTags, NEW j \in SUBSET InboundTags
  PROVE  /\ SameBehind(ProfileBase(prof, i), ProfileBase(prof, j))
         /\ ProfileBase(prof, i) # NoRouting
<1>1. CASE prof.twice \/ prof.outbounds = <<>>
  BY <1>1, CoreConfigAssumption DEF ProfileBase, SameBehind
<1>2. CASE ~(prof.twice \/ prof.outbounds = <<>>)
  <2>1. ASSUME NEW k \in SUBSET InboundTags
        PROVE  ProfileBase(prof, k) # Refused
    <3> DEFINE d == [outbounds |-> prof.outbounds, rules |-> prof.rules,
                     balancers |-> prof.balancers, routing |-> HasRouting(Canonical(prof)),
                     lists |-> prof.lists, inbounds |-> k]
    <3>1. ProfileBase(prof, k) = d
      BY <1>2 DEF ProfileBase
    <3>2. HasRouting(Canonical(prof)) = prof.routing
      BY DEF HasRouting, Canonical, Profile
    <3>3. d \in Config
      BY <3>2 DEF Config, Profile
    <3> QED  BY <3>1, <3>3, CoreConfigAssumption
  <2>2. /\ ProfileBase(prof, i) \in Config /\ ProfileBase(prof, j) \in Config
        /\ ProfileBase(prof, i).outbounds = prof.outbounds
        /\ ProfileBase(prof, j).outbounds = prof.outbounds
        /\ ProfileBase(prof, i).rules = prof.rules /\ ProfileBase(prof, j).rules = prof.rules
        /\ ProfileBase(prof, i).balancers = prof.balancers
        /\ ProfileBase(prof, j).balancers = prof.balancers
    BY <2>1, BaseIs
  <2> QED  BY <2>2, CoreConfigAssumption DEF SameBehind
<1> QED  BY <1>1, <1>2

\* not of a profile merged for one server,
LEMMA SingleBehind ==
  ASSUME NEW prof \in Profile, NEW i \in SUBSET InboundTags, NEW j \in SUBSET InboundTags,
         NEW tag \in Names \cup {None}
  PROVE  SameBehind(MergeProfileSingle(prof, tag, i), MergeProfileSingle(prof, tag, j))
<1> DEFINE a(k) == ProfileBase(prof, k)
           m(k) == MergeProfileSingle(prof, tag, k)
           Drop(k) == DropBalancers([a(k) EXCEPT !.outbounds = PinOutbound(@, tag)], tag)
           no(k) == tag = None \/ tag \notin Tags(a(k))
<1>1. SameBehind(a(i), a(j)) /\ a(i) # NoRouting
  BY BaseBehind
<1>2. CASE a(i) = Refused
  BY <1>1, <1>2, CoreConfigAssumption DEF SameBehind, MergeProfileSingle, Unless
<1>3. CASE a(i) # Refused
  <2>1. /\ a(i).routing = prof.routing /\ a(j).routing = prof.routing
        /\ a(i).outbounds = prof.outbounds /\ a(j).outbounds = prof.outbounds
        /\ a(i).rules = prof.rules /\ a(j).rules = prof.rules
        /\ a(i) \in Config /\ a(j) \in Config
    BY <1>1, <1>3, BaseIs DEF SameBehind
  <2>2. /\ m(i) = IF ~prof.routing THEN NoRouting ELSE IF no(i) THEN Refused ELSE Drop(i)
        /\ m(j) = IF ~prof.routing THEN NoRouting ELSE IF no(j) THEN Refused ELSE Drop(j)
    <3>1. a(i) \notin {Refused, NoRouting} /\ a(j) \notin {Refused, NoRouting}
      BY <2>1, CoreConfigAssumption
    <3> QED  BY <2>1, <3>1 DEF MergeProfileSingle, Unless
  <2>3. no(i) <=> no(j)
    BY <2>1 DEF Tags, Outbounds
  <2>4. ASSUME NEW k \in {i, j}, ~no(k)
        PROVE  /\ Drop(k) \in Config /\ Drop(k).outbounds = PinOutbound(prof.outbounds, tag)
               /\ Drop(k).balancers = <<>>
               /\ Drop(k).rules = [n \in DOMAIN prof.rules |-> Repoint(prof.rules[n], tag)]
    <3>1. a(k) \in Config /\ a(k).outbounds = prof.outbounds /\ a(k).rules = prof.rules
      BY <2>1
    <3> HIDE DEF a
    <3> QED  BY <3>1, <2>4, DropIs
  <2> HIDE DEF a, m, no, Drop
  <2> QED  BY <2>2, <2>3, <2>4, CoreConfigAssumption DEF SameBehind, m
<1> QED  BY <1>2, <1>3

\* and not of what a row stands for.
LEMMA SourceBehind ==
  ASSUME sub \in Seq(Profile), NEW row \in Rows, NEW i \in SUBSET InboundTags,
         NEW j \in SUBSET InboundTags
  PROVE  SameBehind(Source(Target(row), i), Source(Target(row), j))
<1> DEFINE t == Target(row)
<1>1. t.raw \in Profile
  BY RowIs
<1>2. CASE row.server = None
  <2>1. \A k : Source(t, k) = ProfileBase(t.raw, k)
    BY <1>2, RowIs DEF Source, IsProfile, MergeProfile
  <2> QED  BY <2>1, <1>1, BaseBehind
<1>3. CASE row.server # None
  <2>1. t.entry \in OutboundSet /\ t.entry # None
    BY <1>3, RowIs, EntryIs, CoreConfigAssumption
  <2> HIDE DEF t
  <2> DEFINE single(k) == SingleServerFromProfile(t, k)
             template(k) == MergeConfig(ProxyOutbound(t.raw.panel, t.entry), k)
  <2>2. \A k : Source(t, k) = IF single(k) = NoRouting THEN template(k) ELSE single(k)
    BY <2>1 DEF Source, IsProfile
  <2>3. t.entry.tag \in Names \cup {None}
    BY <2>1 DEF OutboundSet
  <2>4. SameBehind(single(i), single(j))
    <3>1. CASE ~t.raw.panel
      BY <3>1, CoreConfigAssumption DEF SingleServerFromProfile, SameBehind
    <3>2. CASE t.raw.panel
      <4>1. \A k : single(k) = MergeProfileSingle(t.raw, t.entry.tag, k)
        BY <3>2 DEF SingleServerFromProfile
      <4>2. SameBehind(MergeProfileSingle(t.raw, t.entry.tag, i), MergeProfileSingle(t.raw, t.entry.tag, j))
        BY <1>1, <2>3, SingleBehind DEF t
      <4> HIDE DEF single
      <4> QED  BY <4>1, <4>2
    <3> QED  BY <3>1, <3>2
  <2>5. SameBehind(template(i), template(j))
    <3> DEFINE o == ProxyOutbound(t.raw.panel, t.entry)
    <3>1. o \in OutboundSet /\ o.tag = "proxy"
      BY <2>1, ProxyIs
    <3> HIDE DEF o
    <3>2. MergeConfig(o, i) \in Config /\ MergeConfig(o, j) \in Config
      BY <3>1, TemplateIs
    <3>3. /\ MergeConfig(o, i).outbounds = MergeConfig(o, j).outbounds
          /\ MergeConfig(o, i).rules = MergeConfig(o, j).rules
          /\ MergeConfig(o, i).balancers = MergeConfig(o, j).balancers
      BY DEF MergeConfig
    <3>4. SameBehind(MergeConfig(o, i), MergeConfig(o, j))
      BY <3>2, <3>3, CoreConfigAssumption DEF SameBehind
    <3> QED  BY <3>4 DEF o
  <2> HIDE DEF single, template
  <2>6. CASE single(i) = NoRouting
    <3>1. single(j) = NoRouting
      BY <2>4, <2>6 DEF SameBehind
    <3> QED  BY <2>2, <2>5, <2>6, <3>1 DEF t
  <2>7. CASE single(i) # NoRouting
    <3>1. single(j) # NoRouting
      BY <2>4, <2>7 DEF SameBehind
    <3> QED  BY <2>2, <2>4, <2>7, <3>1 DEF t
  <2> QED  BY <2>6, <2>7
<1> QED  BY <1>2, <1>3

\* What is behind two configs is told by the same rules over the same outbounds.
LEMMA BehindWay ==
  ASSUME NEW a, NEW b, a.outbounds = b.outbounds, a.rules = b.rules, a.balancers = b.balancers
  PROVE  /\ \A p : Way(a, p) = Way(b, p) /\ Through(a, p) = Through(b, p) /\ Answer(a, p) = Answer(b, p)
         /\ Starts(a) <=> Starts(b)
         /\ BalancesServers(a) <=> BalancesServers(b)
         /\ DefaultTag(a) = DefaultTag(b) /\ FirstTunnelTag(a) = FirstTunnelTag(b)
<1>1. Outbounds(a) = Outbounds(b)
  BY DEF Outbounds
<1>2. Tags(a) = Tags(b) /\ LocalTags(a) = LocalTags(b)
  BY <1>1 DEF Tags, LocalTags
<1>3. ASSUME NEW p  PROVE Way(a, p) = Way(b, p)
  <2>1. Hits(a, p) = Hits(b, p)
    BY DEF Hits
  <2>2. \A r : Behind(a, r) = Behind(b, r)
    BY <1>1 DEF Behind
  <2> QED  BY <2>1, <2>2 DEF Way
<1>4. \A p : Through(a, p) = Through(b, p) /\ Answer(a, p) = Answer(b, p)
  BY <1>3 DEF Through, Answer
<1>5. (Starts(a) <=> Starts(b)) /\ (BalancesServers(a) <=> BalancesServers(b))
  BY <1>2 DEF Starts, BalancesServers
<1>6. DefaultTag(a) = DefaultTag(b) /\ FirstTunnelTag(a) = FirstTunnelTag(b)
  BY <1>2 DEF DefaultTag, FirstTunnelTag
<1> QED  BY <1>3, <1>4, <1>5, <1>6

\* Rules that come before others and hold for the probe only leave every other
\* connection where it was; and a core that starts on both starts without them.
LEMMA ProbedWay ==
  ASSUME NEW c \in Config, NEW inb \in SUBSET InboundTags, NEW p,
         (inb # {} /\ p.inb \notin inb) \/ p.dest \notin Checks
  PROVE  Way(PrependProbeRule(c, inb), p) = Way(c, p)
<1> DEFINE d == PrependProbeRule(c, inb)
           a == ProbeAims(c, inb)
<1>1. /\ d \in Config /\ d.rules = a \o c.rules
      /\ d.outbounds = c.outbounds /\ d.balancers = c.balancers
  BY PrependIs
<1>2. a \in Seq(RuleSet)
  BY AimsTyped
<1>3. \A i \in DOMAIN a : ~Holds(a[i], p)
  <2>1. CASE a = <<>>
    BY <2>1
  <2>2. CASE ForProbes(a, inb, AimTag(c), AimBalancer(c))
    <3>1. \A i \in DOMAIN a : a[i].inb = inb /\ a[i].dest # {} /\ a[i].dest \subseteq Checks
      BY <2>2 DEF ForProbes
    <3> HIDE DEF a
    <3> QED  BY <3>1 DEF Holds
  <2> QED  BY <2>1, <2>2, AimsAre
<1> HIDE DEF d, a
<1>4. Way(d, p) = Way(c, p)
  BY <1>1, <1>2, <1>3, WayPast
<1> QED  BY <1>4 DEF d

\* A core that starts on a config with the probe's rules starts without them.
LEMMA ProbedStarts ==
  ASSUME NEW c \in Config, NEW inb \in SUBSET InboundTags, Starts(PrependProbeRule(c, inb))
  PROVE  Starts(c)
<1> DEFINE d == PrependProbeRule(c, inb)
           a == ProbeAims(c, inb)
<1>1. /\ d \in Config /\ d.rules = a \o c.rules
      /\ d.outbounds = c.outbounds /\ d.balancers = c.balancers
  BY PrependIs
<1>2. a \in Seq(RuleSet) /\ c.rules \in Seq(RuleSet)
  BY AimsTyped DEF Config
<1>3. ToSet(c.rules) \subseteq ToSet(d.rules)
  <2>1. /\ a \o c.rules \in Seq(RuleSet) /\ Len(a \o c.rules) = Len(a) + Len(c.rules)
        /\ \A i \in 1..Len(c.rules) : (a \o c.rules)[Len(a) + i] = c.rules[i]
    BY <1>2, ConcatIs
  <2> HIDE DEF a, d
  <2>2. ASSUME NEW i \in DOMAIN c.rules  PROVE \E k \in DOMAIN d.rules : d.rules[k] = c.rules[i]
    <3>1. Len(a) + i \in DOMAIN d.rules /\ d.rules[Len(a) + i] = c.rules[i]
      BY <1>1, <1>2, <2>1
    <3> QED  BY <3>1
  <2> QED  BY <2>2 DEF ToSet
<1>4. Tags(c) = Tags(d) /\ Starts(d)
  BY <1>1 DEF Tags, Outbounds
<1> HIDE DEF d
<1> QED  BY <1>1, <1>3, <1>4 DEF Starts
-----------------------------------------------------------------------------
\* Of a config that was built so, the split keeps off and sends on what it must.
LEMMA SplitIsSafeFollows == ASSUME BuiltInv PROVE SplitIsSafe
<1> DEFINE row == job.row
           whole == Source(Target(row), {"tun"})
           c == SourceOf(row, split)
           w == SplitOf(row, split)
           x == ProbedOf(row, split)
<1> SUFFICES ASSUME InSession, split, windows, Starts(job.cfg), NEW p \in Theirs
             PROVE  /\ p.proc \notin Listed => \A o \in Way(job.cfg, p) : IsLocal(o)
                    /\ p.proc \in Listed /\ Starts(whole) /\ DefaultTag(whole) # None =>
                         Through(job.cfg, p) = Through(whole, p)
  BY DEF SplitIsSafe
<1>1. job # None /\ job.kind = "session"
  BY DEF InSession, Idle
<1>2. apps = Listed /\ Listed \in SUBSET Programs /\ sub \in Seq(Profile)
  BY <1>1, CoreConfigAssumption DEF BuiltInv, ConfigTyped, JobBuilt
<1>3. /\ split \in BOOLEAN /\ row \in Rows /\ BuildModeConfig(Target(row), split) # Refused
      /\ Usable(job.cfg, split) /\ Alike(job.cfg, x)
  BY <1>1, RunsIs
<1>4. Usable(c, split) /\ Usable(w, split) /\ Usable(x, split) /\ w = ApplySplitRouting(c, Listed)
  BY <1>2, <1>3, ModeIs
<1>5. x = PrependProbeRule(w, ProbeInbounds(split)) /\ ProbeInbounds(split) = {"probe"}
  BY DEF ProbedOf, ProbeInbounds, TunMode
<1>6. SameBehind(c, whole)
  BY <1>2, <1>3, InboundsAre, SourceBehind, CoreConfigAssumption DEF SourceOf
<1>7. p.inb # "probe"
  BY DEF Theirs, Packets
<1> HIDE DEF c, w, x, whole
<1>8. Starts(w)
  <2>1. job.cfg.outbounds \in Seq(OutboundSet)
    BY <1>3 DEF Usable, Config
  <2>2. Starts(x)
    BY <2>1, <1>3, AlikeStarts
  <2> QED  BY <2>2, <1>4, <1>5, InboundsAre, ProbedStarts DEF Usable
<1>9. Way(x, p) = Way(w, p)
  <2>1. {"probe"} \in SUBSET InboundTags /\ {"probe"} # {} /\ p.inb \notin {"probe"} /\ w \in Config
    BY <1>4, <1>7, CoreConfigAssumption DEF Usable
  <2>2. Way(PrependProbeRule(w, {"probe"}), p) = Way(w, p)
    BY <2>1, ProbedWay
  <2> QED  BY <2>2, <1>5
<1>10. /\ Through(job.cfg, p) = Through(x, p)
       /\ (\A o \in Way(job.cfg, p) : IsLocal(o)) <=> (\A o \in Way(x, p) : IsLocal(o))
  BY <1>3, <1>4, AlikeThrough DEF Usable
<1>11. /\ c \in Config /\ 1 \in DOMAIN c.outbounds
       /\ ApplySplitRouting(c, Listed) # Refused /\ Starts(ApplySplitRouting(c, Listed))
  BY <1>4, <1>8, CoreConfigAssumption DEF Usable
<1>12. ASSUME p.proc \notin Listed  PROVE \A o \in Way(job.cfg, p) : IsLocal(o)
  <2>1. \A o \in Way(ApplySplitRouting(c, Listed), p) : IsLocal(o)
    BY <1>2, <1>11, <1>12, SplitKeepsOut
  <2> QED  BY <2>1, <1>4, <1>9, <1>10
<1>13. ASSUME p.proc \in Listed, Starts(whole), DefaultTag(whole) # None
       PROVE  Through(job.cfg, p) = Through(whole, p)
  <2>1. c # Refused /\ c # NoRouting
    BY <1>4, CoreConfigAssumption DEF Usable
  <2>2. c.outbounds = whole.outbounds /\ c.rules = whole.rules /\ c.balancers = whole.balancers
    BY <2>1, <1>6 DEF SameBehind
  <2>3. Starts(c) /\ DefaultTag(c) # None /\ Through(c, p) = Through(whole, p)
    BY <2>2, <1>13, BehindWay
  <2>4. Way(ApplySplitRouting(c, Listed), p) = Way(c, p)
    BY <2>3, <1>2, <1>11, <1>13, SplitGoesOn
  <2> QED  BY <2>3, <2>4, <1>4, <1>9, <1>10 DEF Through
<1> QED  BY <1>12, <1>13

\* Over the tunnel an unlisted program stays off it, and a listed one goes where
\* the whole config would send it.
THEOREM SplitIsSafeAlways == ConfigSpec => []SplitIsSafe
BY ConfigInvariant, SplitIsSafeFollows, PTL
-----------------------------------------------------------------------------
(* Where a probe goes. *)

Aimed(r, c) == r.tag = AimTag(c) /\ r.balancer = AimBalancer(c)

\* A probe's connection goes where its rules aim, before any rule of the panel's.
LEMMA ProbeWay ==
  ASSUME NEW c \in Config, NEW inb \in SUBSET InboundTags, FirstTunnelTag(c) # None,
         NEW p, p.dest \in Checks, inb = {} \/ p.inb \in inb
  PROVE  \E r : Aimed(r, c) /\ Way(PrependProbeRule(c, inb), p) = Behind(PrependProbeRule(c, inb), r)
<1> DEFINE d == PrependProbeRule(c, inb)
           a == ProbeAims(c, inb)
<1>1. d \in Config /\ d.rules = a \o c.rules
  BY PrependIs
<1>2. a \in Seq(RuleSet) /\ c.rules \in Seq(RuleSet)
  BY AimsTyped DEF Config
<1>3. ForProbes(a, inb, AimTag(c), AimBalancer(c))
  BY AimsAre DEF AimTag
<1>4. /\ \E i \in DOMAIN a : Holds(a[i], p)
      /\ \A i \in DOMAIN a : Aimed(a[i], c)
  BY <1>3 DEF ForProbes, Aimed
<1> HIDE DEF d, a
<1>5. PICK i \in DOMAIN a : Holds(a[i], p) /\ Way(d, p) = Behind(d, a[i])
  BY <1>1, <1>2, <1>4, WayFront
<1> QED  BY <1>4, <1>5 DEF d

\* It goes through servers.
LEMMA AimedIsTunnel ==
  ASSUME NEW c \in Config, FirstTunnelTag(c) # None, Starts(c), BalancesServers(c),
         NEW r, Aimed(r, c), NEW o \in Behind(c, r)
  PROVE  ~IsLocal(o)
<1>1. o \in Outbounds(c)
  BY DEF Behind
<1>2. CASE AimBalancer(c) = None
  <2>1. o.tag = FirstTunnelTag(c)
    BY <1>2 DEF Aimed, AimTag, Behind
  <2>2. \E i \in DOMAIN c.outbounds : c.outbounds[i].tag = FirstTunnelTag(c) /\ ~IsLocal(c.outbounds[i])
    BY FirstTunnelIs
  <2>3. PICK q \in Outbounds(c) : q.tag = FirstTunnelTag(c) /\ ~IsLocal(q)
    BY <2>2 DEF Outbounds, ToSet
  <2>4. o = q
    BY <1>1, <2>1, <2>3, OneOfATag
  <2> QED  BY <2>3, <2>4
<1>3. CASE AimBalancer(c) # None
  <2>1. PICK b \in ToSet(c.balancers) : o.tag \in b.over
    BY <1>3 DEF Aimed, Behind
  <2>2. o.tag \in Tags(c) \ LocalTags(c)
    BY <2>1 DEF BalancesServers
  <2> QED  BY <1>1, <2>2 DEF LocalTags, Tags
<1> QED  BY <1>2, <1>3

\* The way past the tunnel that the split adds is no aim.
LEMMA SplitAims ==
  ASSUME NEW c \in Config, 1 \in DOMAIN c.outbounds, NEW d,
         d.outbounds = WithDirect(c), d.balancers = c.balancers
  PROVE  /\ FirstTunnelTag(d) = FirstTunnelTag(c) /\ AimTag(d) = AimTag(c)
         /\ AimBalancer(d) = AimBalancer(c)
         /\ Outbounds(c) \subseteq Outbounds(d) /\ Outbounds(d) \subseteq Outbounds(c) \cup {Added}
<1>1. /\ \A i \in DOMAIN c.outbounds : i \in DOMAIN d.outbounds /\ d.outbounds[i] = c.outbounds[i]
      /\ \A i \in DOMAIN d.outbounds : i \in DOMAIN c.outbounds \/ d.outbounds[i] = Added
  BY WithDirectIs
<1> DEFINE where(b) == {i \in DOMAIN b.outbounds : b.outbounds[i].tag # None /\ ~IsLocal(b.outbounds[i])}
<1>2. where(c) = where(d)
  BY <1>1, AddedIs
<1>3. FirstTunnelTag(d) = FirstTunnelTag(c)
  <2>1. CASE where(c) = {}
    BY <1>2, <2>1 DEF FirstTunnelTag
  <2>2. CASE where(c) # {}
    <3>1. where(c) \in SUBSET Nat
      BY DEF Config
    <3>2. Min(where(c)) \in where(c)
      <4> HIDE DEF where
      <4> QED  BY <2>2, <3>1, MinIs
    <3>3. FirstTunnelTag(c) = c.outbounds[Min(where(c))].tag
      BY <2>2 DEF FirstTunnelTag
    <3>4. FirstTunnelTag(d) = d.outbounds[Min(where(c))].tag
      BY <1>2, <2>2 DEF FirstTunnelTag
    <3>5. Min(where(c)) \in DOMAIN c.outbounds
      BY <3>2
    <3> HIDE DEF where
    <3> QED  BY <3>3, <3>4, <3>5, <1>1
  <2> QED  BY <2>1, <2>2
<1>4. AimBalancer(d) = AimBalancer(c)
  BY DEF AimBalancer
<1>5. Outbounds(c) \subseteq Outbounds(d) /\ Outbounds(d) \subseteq Outbounds(c) \cup {Added}
  BY <1>1 DEF Outbounds, ToSet
<1> QED  BY <1>3, <1>4, <1>5 DEF AimTag

\* An entry is measured as the session of its own profile is built.
LEMMA BenchIs ==
  ASSUME sub \in Seq(Profile), NEW row \in Rows, OwnsRow(row)
  PROVE  BenchConfig(row) = FinalizeConfig(Unless(Source(Target(row), BenchInbounds), BenchProbe))
<1> DEFINE t == Target(row)
           prof == sub[row.prof]
<1>1. t.raw = prof /\ prof \in Profile
  BY RowIs DEF OwnsRow
<1>2. BenchInbounds \in SUBSET InboundTags
  BY CoreConfigAssumption DEF BenchInbounds
<1>3. CASE row.server = None
  BY <1>1, <1>3, RowIs DEF BenchConfig, Source, IsProfile
<1>4. CASE row.server # None
  <2>1. /\ t.entry = EntryOf(prof, row.server) /\ t.entry # None /\ t.entry \in OutboundSet
    BY <1>4, RowIs, EntryIs, CoreConfigAssumption
  <2> HIDE DEF t, prof
  <2> DEFINE single == SingleServerFromProfile(t, BenchInbounds)
             template == MergeConfig(ProxyOutbound(prof.panel, t.entry), BenchInbounds)
  <2>2. Source(t, BenchInbounds) = IF single = NoRouting THEN template ELSE single
    BY <1>1, <2>1 DEF Source, IsProfile
  <2>3. single = IF prof.panel THEN MergeProfileSingle(prof, t.entry.tag, BenchInbounds) ELSE NoRouting
    BY <1>1 DEF SingleServerFromProfile
  <2>4. BuildSingleBench(prof, t.entry)
          = IF single = NoRouting THEN BenchProbe(template) ELSE Unless(single, BenchProbe)
    BY <2>3 DEF BuildSingleBench
  <2>5. template \notin {Refused, NoRouting}
    <3>1. ProxyOutbound(prof.panel, t.entry) \in OutboundSet /\ ProxyOutbound(prof.panel, t.entry).tag = "proxy"
      BY <2>1, ProxyIs
    <3>2. template \in Config
      BY <1>2, <3>1, TemplateIs
    <3> QED  BY <3>2, CoreConfigAssumption
  <2>6. BenchConfig(row) = FinalizeConfig(BuildSingleBench(prof, t.entry))
    BY <1>4, <2>1 DEF BenchConfig, prof
  <2> HIDE DEF single, template
  <2>7. BuildSingleBench(prof, t.entry) = Unless(Source(t, BenchInbounds), BenchProbe)
    BY <2>2, <2>4, <2>5 DEF Unless
  <2> QED  BY <2>6, <2>7 DEF t
<1> QED  BY <1>3, <1>4

\* Two configs over the same servers aim a probe at the same of them.
LEMMA AimedAlike ==
  ASSUME NEW w, NEW e, AimTag(w) = AimTag(e), AimBalancer(w) = AimBalancer(e),
         w.balancers = e.balancers, Outbounds(e) \subseteq Outbounds(w),
         Outbounds(w) \subseteq Outbounds(e) \cup {Added},
         NEW r, Aimed(r, w), NEW q, Aimed(q, e), \A o \in Behind(w, r) : ~IsLocal(o)
  PROVE  Behind(w, r) = Behind(e, q)
<1> DEFINE tags == IF r.balancer = None THEN {r.tag}
                   ELSE UNION {b.over : b \in {d \in ToSet(e.balancers) : d.tag = r.balancer}}
<1>1. r.tag = q.tag /\ r.balancer = q.balancer
  BY DEF Aimed
<1>2. Behind(w, r) = {o \in Outbounds(w) : o.tag \in tags}
  BY DEF Behind
<1>3. Behind(e, q) = {o \in Outbounds(e) : o.tag \in tags}
  BY <1>1 DEF Behind
<1> HIDE DEF tags
<1>4. \A o \in Behind(w, r) : o # Added
  BY AddedIs
<1> QED  BY <1>2, <1>3, <1>4

\* Of a config that was built so, a ping is answered for the session.
LEMMA PingFollows == ASSUME BuiltInv PROVE PingIsOfSession
<1> DEFINE row == job.row
           inb == ProbeInbounds(split)
           c == SourceOf(row, split)
           w == SplitOf(row, split)
           x == ProbedOf(row, split)
           e == Source(Target(row), BenchInbounds)
           y == BenchProbe(e)
           ping == BenchConfig(row)
<1> SUFFICES ASSUME InSession, OwnsRow(row), FirstTunnelTag(job.cfg) # None,
                    Starts(job.cfg), BalancesServers(job.cfg), NEW p \in Probes(job.cfg)
             PROVE  /\ \A o \in Way(job.cfg, p) : ~IsLocal(o)
                    /\ ping # Refused =>
                         Through(ping, [p EXCEPT !.inb = "http"]) = Through(job.cfg, p)
  BY DEF PingIsOfSession
<1>1. job # None /\ job.kind = "session"
  BY DEF InSession, Idle
<1>2. apps \in SUBSET Programs /\ sub \in Seq(Profile)
  BY CoreConfigAssumption DEF BuiltInv, ConfigTyped
<1>3. /\ split \in BOOLEAN /\ row \in Rows /\ BuildModeConfig(Target(row), split) # Refused
      /\ Usable(job.cfg, split) /\ Alike(job.cfg, x)
  BY <1>1, RunsIs
<1>4. /\ Usable(c, split) /\ Usable(w, split) /\ Usable(x, split)
      /\ split /\ windows => w = ApplySplitRouting(c, apps)
      /\ ~(split /\ windows) => w = c
  BY <1>3, ModeIs
<1>5. x = PrependProbeRule(w, inb) /\ inb \in SUBSET InboundTags
  BY InboundsAre DEF ProbedOf
<1>6. p.dest \in Checks /\ (inb = {} \/ p.inb \in inb)
  <2>1. p.inb \in (IF "probe" \in job.cfg.inbounds THEN {"probe"} ELSE {"http"}) /\ p.dest \in Checks
    BY DEF Probes, Checks
  <2>2. job.cfg.inbounds = Inbounds(split)
    BY <1>3 DEF Usable
  <2> QED  BY <2>1, <2>2 DEF Inbounds, ProbeInbounds
<1>7. SameBehind(c, e)
  BY <1>2, <1>3, InboundsAre, SourceBehind, CoreConfigAssumption DEF SourceOf, BenchInbounds
<1>8. ping = FinalizeConfig(Unless(e, BenchProbe))
  BY <1>2, <1>3, BenchIs
<1> HIDE DEF inb, c, w, x, e, ping
<1>9. /\ c \in Config /\ 1 \in DOMAIN c.outbounds /\ w \in Config /\ x \in Config
      /\ 1 \in DOMAIN x.outbounds /\ 1 \in DOMAIN job.cfg.outbounds /\ job.cfg \in Config
  BY <1>3, <1>4 DEF Usable
<1>10. x.outbounds = w.outbounds /\ x.balancers = w.balancers
  BY <1>5, <1>9, PrependIs
<1>11. Starts(w) /\ BalancesServers(w) /\ FirstTunnelTag(w) # None
  <2>1. job.cfg.outbounds \in Seq(OutboundSet)
    BY <1>9 DEF Config
  <2>2. Starts(x) /\ BalancesServers(x) /\ FirstTunnelTag(x) # None
    BY <2>1, <1>3, AlikeStarts
  <2>3. Tags(x) = Tags(w) /\ LocalTags(x) = LocalTags(w)
    BY <1>10 DEF Tags, LocalTags, Outbounds
  <2> QED  BY <2>2, <2>3, <1>5, <1>9, <1>10, ProbedStarts DEF BalancesServers, FirstTunnelTag
<1>12. PICK r : Aimed(r, w) /\ Way(x, p) = Behind(x, r)
  BY <1>5, <1>6, <1>9, <1>11, ProbeWay
<1>13. Behind(x, r) = Behind(w, r)
  BY <1>10 DEF Behind, Outbounds
<1>14. \A o \in Behind(w, r) : ~IsLocal(o)
  BY <1>9, <1>11, <1>12, AimedIsTunnel
<1>15. /\ Through(job.cfg, p) = Through(x, p)
       /\ (\A o \in Way(job.cfg, p) : ~IsLocal(o)) <=> (\A o \in Way(x, p) : ~IsLocal(o))
  BY <1>3, <1>9, AlikeThrough
<1>16. \A o \in Way(job.cfg, p) : ~IsLocal(o)
  BY <1>12, <1>13, <1>14, <1>15
<1>17. ASSUME ping # Refused  PROVE Through(ping, [p EXCEPT !.inb = "http"]) = Through(job.cfg, p)
  <2> DEFINE p2 == [p EXCEPT !.inb = "http"]
  <2>1. p2.dest \in Checks
    BY <1>6 DEF Probes, Checks
  <2> HIDE DEF p2
  <2>2. c \notin {Refused, NoRouting} /\ e \notin {Refused, NoRouting}
    BY <1>7, <1>9, CoreConfigAssumption DEF SameBehind
  <2>3. e.outbounds = c.outbounds /\ e.balancers = c.balancers
    BY <1>7, <2>2 DEF SameBehind
  <2>4. e \in Config /\ 1 \in DOMAIN e.outbounds
    <3>1. BenchInbounds \in SUBSET InboundTags
      BY CoreConfigAssumption DEF BenchInbounds
    <3> QED  BY <1>2, <1>3, <2>2, <3>1, SourceIs DEF e
  <2>5. /\ y \in Config /\ y.outbounds = e.outbounds /\ y.balancers = e.balancers
        /\ y = PrependProbeRule(e, {})
    <3>1. {} \in SUBSET InboundTags /\ y = PrependProbeRule(e, {})
      BY DEF BenchProbe
    <3> QED  BY <3>1, <2>4, PrependIs
  <2> HIDE DEF y
  <2>6. ping = FinalizeConfig(y)
    BY <1>8, <2>2 DEF Unless, y
  <2>7. ping \in Config /\ Alike(ping, y)
    BY <1>17, <2>5, <2>6, FinalizeIs
  <2>8. /\ FirstTunnelTag(w) = FirstTunnelTag(e) /\ AimTag(w) = AimTag(e)
        /\ AimBalancer(w) = AimBalancer(e) /\ w.balancers = e.balancers
        /\ Outbounds(e) \subseteq Outbounds(w) /\ Outbounds(w) \subseteq Outbounds(e) \cup {Added}
    <3>1. CASE ~(split /\ windows)
      BY <3>1, <1>4, <2>3 DEF FirstTunnelTag, AimTag, AimBalancer, Outbounds
    <3>2. CASE split /\ windows
      <4>1. w.outbounds = WithDirect(c) /\ w.balancers = c.balancers
        <5>1. w = ApplySplitRouting(c, apps) /\ ApplySplitRouting(c, apps) # Refused
          BY <3>2, <1>4, <1>9, CoreConfigAssumption
        <5>2. /\ ApplySplitRouting(c, apps).outbounds = WithDirect(c)
              /\ ApplySplitRouting(c, apps).balancers = c.balancers
          BY <5>1, <1>2, <1>9, SplitIs
        <5> QED  BY <5>1, <5>2
      <4>2. w.outbounds = WithDirect(e)
        BY <4>1, <2>3 DEF WithDirect, Freedoms
      <4> QED  BY <4>1, <4>2, <2>3, <2>4, SplitAims
    <3> QED  BY <3>1, <3>2
  <2>9. PICK q : Aimed(q, e) /\ Way(y, p2) = Behind(y, q)
    <3>1. {} \in SUBSET InboundTags /\ FirstTunnelTag(e) # None
      BY <1>11, <2>8
    <3> QED  BY <3>1, <2>1, <2>4, <2>5, ProbeWay
  <2>10. Behind(y, q) = Behind(e, q)
    BY <2>5 DEF Behind, Outbounds
  <2>11. Behind(w, r) = Behind(e, q)
    BY <1>12, <1>14, <2>8, <2>9, AimedAlike
  <2>12. Way(y, p2) = Way(x, p)
    BY <1>12, <1>13, <2>9, <2>10, <2>11
  <2>13. Through(y, p2) = Through(x, p)
    BY <2>12 DEF Through
  <2>14. Through(ping, p2) = Through(y, p2)
    <3>1. 1 \in DOMAIN ping.outbounds
      BY <2>4, <2>5, <2>7 DEF Alike
    <3> QED  BY <3>1, <2>5, <2>7, AlikeThrough
  <2> QED  BY <2>13, <2>14, <1>15 DEF p2
<1> QED  BY <1>16, <1>17

\* A ping measures the servers that a session comes through.
THEOREM PingIsOfSessionAlways == ConfigSpec => []PingIsOfSession
BY ConfigInvariant, PingFollows, PTL
-----------------------------------------------------------------------------
(* A panel's rules under a session. *)

\* A core starts with the probe's rules if it starts without them.
LEMMA StartsProbed ==
  ASSUME NEW c \in Config, NEW inb \in SUBSET InboundTags, Starts(c)
  PROVE  Starts(PrependProbeRule(c, inb))
<1> DEFINE d == PrependProbeRule(c, inb)
           a == ProbeAims(c, inb)
<1>1. /\ d \in Config /\ d.rules = a \o c.rules
      /\ d.outbounds = c.outbounds /\ d.balancers = c.balancers
  BY PrependIs
<1>2. a \in Seq(RuleSet) /\ c.rules \in Seq(RuleSet)
  BY AimsTyped DEF Config
<1>3. Tags(d) = Tags(c)
  BY <1>1 DEF Tags, Outbounds
<1>4. ASSUME NEW r \in ToSet(a)
      PROVE  IF r.balancer = None THEN r.tag \in Tags(c)
             ELSE \E b \in ToSet(c.balancers) : b.tag = r.balancer
  <2>1. r.tag = AimTag(c) /\ r.balancer = AimBalancer(c) /\ (AimTag(c) # None \/ AimBalancer(c) # None)
    <3>1. CASE a = <<>>
      BY <3>1 DEF ToSet
    <3>2. CASE ForProbes(a, inb, AimTag(c), AimBalancer(c)) /\ (AimTag(c) # None \/ AimBalancer(c) # None)
      BY <3>2 DEF ForProbes, ToSet
    <3> QED  BY <3>1, <3>2, AimsAre
  <2>2. CASE AimBalancer(c) = None
    <3>1. r.tag = FirstTunnelTag(c) /\ FirstTunnelTag(c) # None
      BY <2>1, <2>2 DEF AimTag
    <3>2. \E i \in DOMAIN c.outbounds : c.outbounds[i].tag = FirstTunnelTag(c)
      BY <3>1, FirstTunnelIs
    <3> QED  BY <2>1, <2>2, <3>1, <3>2 DEF Tags, Outbounds, ToSet
  <2>3. CASE AimBalancer(c) # None
    <3>1. c.balancers # <<>> /\ r.balancer = c.balancers[1].tag
      BY <2>1, <2>3 DEF AimBalancer
    <3>2. c.balancers \in Seq(BalancerSet)
      BY DEF Config
    <3>3. 1 \in DOMAIN c.balancers
      BY <3>1, <3>2
    <3> QED  BY <2>1, <2>3, <3>1, <3>3 DEF ToSet
  <2> QED  BY <2>2, <2>3
<1>5. ToSet(d.rules) \subseteq ToSet(a) \cup ToSet(c.rules)
  <2> HIDE DEF a, d
  <2> QED  BY <1>1, <1>2, JoinIs DEF ToSet
<1> HIDE DEF d, a
<1>6. Starts(d)
  BY <1>1, <1>3, <1>4, <1>5 DEF Starts
<1> QED  BY <1>6 DEF d

\* With a routing section a server of a panel is under its profile's rules.
LEMMA PanelSource ==
  ASSUME sub \in Seq(Profile), NEW row \in Rows, NEW inb \in SUBSET InboundTags,
         Source(Target(row), inb) # Refused, Owner(row).panel, Owner(row).routing
  PROVE  \/ /\ row.server = None
            /\ Source(Target(row), inb) = ProfileBase(Owner(row), inb)
         \/ /\ row.server # None
            /\ Source(Target(row), inb)
                 = MergeProfileSingle(Owner(row), EntryOf(sub[row.prof], row.server).tag, inb)
            /\ Source(Target(row), inb) # NoRouting
            /\ EntryOf(sub[row.prof], row.server) \in Outbounds(sub[row.prof])
            /\ IsEntry(EntryOf(sub[row.prof], row.server))
            /\ EntryOf(sub[row.prof], row.server).tag \in Names \cup {None}
<1> DEFINE t == Target(row)
           prof == Owner(row)
<1>1. t.raw = prof /\ prof \in Profile
  BY RowIs
<1>2. CASE row.server = None
  BY <1>1, <1>2, RowIs DEF Source, IsProfile, MergeProfile
<1>3. CASE row.server # None
  <2> DEFINE o == EntryOf(sub[row.prof], row.server)
  <2>1. /\ t.entry = o /\ o # None /\ o \in OutboundSet /\ o \in Outbounds(sub[row.prof])
        /\ IsEntry(o)
    BY <1>3, RowIs, EntryIs, CoreConfigAssumption
  <2>2. o.tag \in Names \cup {None}
    BY <2>1 DEF OutboundSet
  <2> DEFINE single == MergeProfileSingle(prof, o.tag, inb)
  <2>3. single # NoRouting
    <3>1. CASE ProfileBase(prof, inb) = Refused
      BY <3>1, CoreConfigAssumption DEF MergeProfileSingle, Unless
    <3>2. CASE ProfileBase(prof, inb) # Refused
      <4> DEFINE b == ProfileBase(prof, inb)
      <4>1. b \in Config /\ b.routing = prof.routing
        BY <1>1, <3>2, BaseIs
      <4>2. b \notin {Refused, NoRouting} /\ b.routing
        BY <4>1, CoreConfigAssumption
      <4> HIDE DEF b, o
      <4>3. single = IF o.tag = None \/ o.tag \notin Tags(b) THEN Refused
                     ELSE DropBalancers([b EXCEPT !.outbounds = PinOutbound(@, o.tag)], o.tag)
        BY <4>2 DEF MergeProfileSingle, Unless, b
      <4>4. o.tag # None /\ o.tag \in Tags(b) =>
              DropBalancers([b EXCEPT !.outbounds = PinOutbound(@, o.tag)], o.tag) \in Config
        BY <4>1, <2>2, DropIs
      <4> QED  BY <4>3, <4>4, CoreConfigAssumption
    <3> QED  BY <3>1, <3>2
  <2>4. SingleServerFromProfile(t, inb) = single
    BY <1>1, <2>1 DEF SingleServerFromProfile
  <2> HIDE DEF t, o, single
  <2>5. Source(t, inb) = single
    BY <2>1, <2>3, <2>4 DEF Source, IsProfile
  <2> QED  BY <1>3, <2>1, <2>2, <2>3, <2>5 DEF t, o, single
<1> QED  BY <1>2, <1>3

\* Pinned, the profile starts as it does, and answers as it does.
LEMMA PinnedStarts ==
  ASSUME NEW prof \in Profile, Starts(prof), NEW tag \in Names, NEW c \in Config,
         \E k \in DOMAIN prof.outbounds : prof.outbounds[k].tag = tag,
         c.outbounds = PinOutbound(prof.outbounds, tag), c.balancers = <<>>,
         c.rules = [i \in DOMAIN prof.rules |-> Repoint(prof.rules[i], tag)]
  PROVE  Starts(c) /\ Outbounds(c) = Outbounds(prof)
<1>1. prof.outbounds \in Seq(OutboundSet) /\ prof.rules \in Seq(RuleSet)
  BY DEF Profile
<1>2. /\ ToSet(c.outbounds) = ToSet(prof.outbounds)
      /\ \A j, k \in DOMAIN c.outbounds : j # k =>
           \E m, n \in DOMAIN prof.outbounds :
              m # n /\ c.outbounds[j] = prof.outbounds[m] /\ c.outbounds[k] = prof.outbounds[n]
  <2>1. IsPinned(c.outbounds, prof.outbounds)
    BY <1>1, PinIs
  <2> QED  BY <2>1 DEF IsPinned
<1>3. Outbounds(c) = Outbounds(prof) /\ Tags(c) = Tags(prof)
  BY <1>2 DEF Outbounds, Tags
<1>4. \A j, k \in DOMAIN c.outbounds :
        c.outbounds[j].tag = c.outbounds[k].tag /\ j # k => c.outbounds[j].tag = None
  <2> SUFFICES ASSUME NEW j \in DOMAIN c.outbounds, NEW k \in DOMAIN c.outbounds,
                      c.outbounds[j].tag = c.outbounds[k].tag, j # k
               PROVE  c.outbounds[j].tag = None
    OBVIOUS
  <2>1. PICK m \in DOMAIN prof.outbounds, n \in DOMAIN prof.outbounds :
          m # n /\ c.outbounds[j] = prof.outbounds[m] /\ c.outbounds[k] = prof.outbounds[n]
    BY <1>2
  <2> QED  BY <2>1 DEF Starts
<1>5. tag \in Tags(c)
  <2>1. tag # None
    BY CoreConfigAssumption
  <2>2. \E o \in Outbounds(prof) : o.tag = tag
    BY DEF Outbounds, ToSet
  <2> QED  BY <2>1, <2>2, <1>3 DEF Tags
<1>6. ASSUME NEW r \in ToSet(c.rules)  PROVE r.balancer = None /\ r.tag \in Tags(c)
  <2>1. PICK i \in DOMAIN prof.rules : r = Repoint(prof.rules[i], tag)
    BY <1>6 DEF ToSet
  <2>2. prof.rules[i] \in RuleSet /\ prof.rules[i] \in ToSet(prof.rules)
    BY <1>1 DEF ToSet
  <2>3. r.balancer = None /\ r.tag = IF prof.rules[i].balancer = None THEN prof.rules[i].tag ELSE tag
    BY <2>1, <2>2, RepointIs
  <2>4. prof.rules[i].balancer = None => prof.rules[i].tag \in Tags(prof)
    BY <2>2 DEF Starts
  <2> QED  BY <2>3, <2>4, <1>3, <1>5
<1>7. ToSet(c.balancers) = {}
  BY DEF ToSet
<1> QED  BY <1>3, <1>4, <1>6, <1>7 DEF Starts

\* What a panel's rules name is answered alike once a server is pinned.
LEMMA PinnedAnswers ==
  ASSUME NEW prof \in Profile, Starts(prof), BalancesServers(prof), NEW tag \in Names,
         NEW c \in Config, \E k \in DOMAIN prof.outbounds : prof.outbounds[k].tag = tag,
         c.outbounds = PinOutbound(prof.outbounds, tag), c.balancers = <<>>,
         c.rules = [i \in DOMAIN prof.rules |-> Repoint(prof.rules[i], tag)],
         prof.balancers = <<>> \/ \E o \in Outbounds(prof) : o.tag = tag /\ ~IsLocal(o),
         NEW p, Hits(prof, p) # {}
  PROVE  Answer(c, p) = Answer(prof, p)
<1>1. prof.rules \in Seq(RuleSet) /\ prof.balancers \in Seq(BalancerSet)
  BY DEF Profile
<1>2. Outbounds(c) = Outbounds(prof)
  BY PinnedStarts
<1>3. \A i \in DOMAIN prof.rules :
        /\ c.rules[i].balancer = None
        /\ c.rules[i].tag = IF prof.rules[i].balancer = None THEN prof.rules[i].tag ELSE tag
        /\ Holds(c.rules[i], p) <=> Holds(prof.rules[i], p)
  BY <1>1, RepointIs
<1>4. Hits(c, p) = Hits(prof, p)
  BY <1>3 DEF Hits
<1> DEFINE i == Min(Hits(prof, p))
           r == prof.rules[i]
           q == c.rules[i]
<1>5. i \in DOMAIN prof.rules
  <2>1. Hits(prof, p) \in SUBSET Nat
    BY <1>1 DEF Hits
  <2>2. Min(Hits(prof, p)) \in Hits(prof, p)
    BY <2>1, MinIs
  <2> QED  BY <2>2 DEF Hits
<1>6. Way(prof, p) = Behind(prof, r) /\ Way(c, p) = Behind(c, q)
  BY <1>4 DEF Way
<1>7. r \in ToSet(prof.rules) /\ q.balancer = None /\ q.tag = IF r.balancer = None THEN r.tag ELSE tag
  BY <1>3, <1>5 DEF ToSet
<1> HIDE DEF i, r, q
<1>8. Behind(c, q) = {o \in Outbounds(prof) : o.tag = q.tag}
  BY <1>2, <1>7 DEF Behind
<1>9. CASE r.balancer = None
  <2>1. Behind(prof, r) = {o \in Outbounds(prof) : o.tag = q.tag}
    BY <1>7, <1>9 DEF Behind
  <2> QED  BY <1>6, <1>8, <2>1 DEF Answer
<1>10. CASE r.balancer # None
  <2>1. PICK b \in ToSet(prof.balancers) : b.tag = r.balancer
    BY <1>7, <1>10 DEF Starts
  <2>2. prof.balancers # <<>>
    BY <2>1 DEF ToSet
  <2>3. PICK o \in Outbounds(prof) : o.tag = tag /\ ~IsLocal(o)
    BY <2>2
  <2>4. tag # None /\ q.tag = tag
    BY <1>7, <1>10, CoreConfigAssumption
  <2>5. Way(c, p) = {o}
    BY <1>6, <1>8, <2>3, <2>4, OneOfATag
  <2>6. Answer(c, p) = {"tunnel"}
    BY <2>3, <2>5 DEF Answer
  <2>7. \A u \in Way(prof, p) : ~IsLocal(u)
    <3> TAKE u \in Way(prof, p)
    <3>1. u \in Outbounds(prof) /\ \E d \in ToSet(prof.balancers) : u.tag \in d.over
      BY <1>6, <1>10 DEF Behind
    <3>2. u.tag \in Tags(prof) \ LocalTags(prof)
      BY <3>1 DEF BalancesServers
    <3> QED  BY <3>1, <3>2 DEF LocalTags, Tags
  <2>8. \E u \in Way(prof, p) : TRUE
    <3>1. PICK n \in b.over : n \in Tags(prof)
      BY <2>1 DEF BalancesServers
    <3>2. PICK u \in Outbounds(prof) : u.tag = n
      BY <3>1 DEF Tags
    <3>3. u \in Behind(prof, r)
      BY <1>10, <2>1, <3>1, <3>2 DEF Behind
    <3> QED  BY <3>3, <1>6
  <2>9. Answer(prof, p) = {"tunnel"}
    BY <2>7, <2>8 DEF Answer
  <2> QED  BY <2>6, <2>9
<1> QED  BY <1>9, <1>10

\* Of a config that was built so, the rules are the panel's.
LEMMA PanelsFollow == ASSUME BuiltInv PROVE RulesArePanels
<1> DEFINE row == job.row
           prof == Owner(row)
           inb == ProbeInbounds(split)
           c == SourceOf(row, split)
           w == SplitOf(row, split)
           x == ProbedOf(row, split)
<1> SUFFICES ASSUME ~Idle, job.kind \in {"session", "preview"}, ~(split /\ windows),
                    prof.panel, prof.routing, Starts(prof), BalancesServers(prof)
             PROVE  /\ Starts(job.cfg)
                    /\ OwnsRow(row) \/ prof.balancers = <<>> =>
                         \A p \in Theirs :
                           Hits(prof, p) # {} /\ ~Caught(p) => Answer(job.cfg, p) = Answer(prof, p)
  BY DEF RulesArePanels
<1>1. job # None /\ sub \in Seq(Profile)
  BY CoreConfigAssumption DEF Idle, BuiltInv, ConfigTyped
<1>2. /\ split \in BOOLEAN /\ row \in Rows /\ BuildModeConfig(Target(row), split) # Refused
      /\ Usable(job.cfg, split) /\ Alike(job.cfg, x)
  BY <1>1, RunsIs
<1>3. Usable(c, split) /\ Usable(x, split) /\ w = c
  BY <1>2, ModeIs
<1>4. x = PrependProbeRule(c, inb) /\ inb \in SUBSET InboundTags
  BY <1>3, InboundsAre DEF ProbedOf
<1>5. prof \in Profile
  BY <1>1, <1>2, RowIs
<1> DEFINE tag == EntryOf(sub[row.prof], row.server).tag
<1>6. \/ row.server = None /\ c = ProfileBase(prof, Inbounds(split))
      \/ /\ row.server # None
         /\ c = MergeProfileSingle(prof, tag, Inbounds(split)) /\ c # NoRouting
         /\ EntryOf(sub[row.prof], row.server) \in Outbounds(sub[row.prof])
         /\ IsEntry(EntryOf(sub[row.prof], row.server))
         /\ tag \in Names \cup {None}
  <2>1. Source(Target(row), Inbounds(split)) # Refused
    BY <1>3, CoreConfigAssumption DEF Usable, SourceOf
  <2> QED  BY <2>1, <1>1, <1>2, InboundsAre, PanelSource DEF SourceOf
<1> HIDE DEF prof, inb, c, w, x, tag
<1>7. c \in Config /\ x \in Config /\ job.cfg \in Config /\ 1 \in DOMAIN job.cfg.outbounds
  BY <1>2, <1>3 DEF Usable
<1>8. /\ Starts(c)
      /\ OwnsRow(row) \/ prof.balancers = <<>> =>
           \A p : Hits(prof, p) # {} => Answer(c, p) = Answer(prof, p)
  <2>1. CASE row.server = None /\ c = ProfileBase(prof, Inbounds(split))
    <3>1. c.outbounds = prof.outbounds /\ c.rules = prof.rules /\ c.balancers = prof.balancers
      BY <2>1, <1>5, <1>7, InboundsAre, BaseIs, CoreConfigAssumption
    <3> QED  BY <3>1, BehindWay
  <2>2. CASE /\ row.server # None
             /\ c = MergeProfileSingle(prof, tag, Inbounds(split)) /\ c # NoRouting
             /\ EntryOf(sub[row.prof], row.server) \in Outbounds(sub[row.prof])
             /\ IsEntry(EntryOf(sub[row.prof], row.server))
             /\ tag \in Names \cup {None}
    <3>1. /\ c.balancers = <<>> /\ tag \in Names
          /\ \E k \in DOMAIN prof.outbounds : prof.outbounds[k].tag = tag
          /\ c.outbounds = PinOutbound(prof.outbounds, tag)
          /\ c.rules = [i \in DOMAIN prof.rules |-> Repoint(prof.rules[i], tag)]
      <4>1. c \notin {Refused, NoRouting}
        BY <1>7, CoreConfigAssumption
      <4>2. IsSingle(c, prof, tag, Inbounds(split))
        BY <4>1, <2>2, <1>5, InboundsAre, SingleIs
      <4> QED  BY <4>2 DEF IsSingle
    <3>2. Starts(c)
      BY <3>1, <1>5, <1>7, PinnedStarts
    <3>3. ASSUME NEW p, OwnsRow(row) \/ prof.balancers = <<>>, Hits(prof, p) # {}
          PROVE  Answer(c, p) = Answer(prof, p)
      <4>1. prof.balancers = <<>> \/ \E o \in Outbounds(prof) : o.tag = tag /\ ~IsLocal(o)
        <5>1. CASE prof.balancers = <<>>
          BY <5>1
        <5>2. CASE OwnsRow(row)
          <6> DEFINE o == EntryOf(sub[row.prof], row.server)
          <6>1. o \in Outbounds(prof) /\ o.tag = tag /\ IsEntry(o)
            BY <2>2, <5>2 DEF OwnsRow, prof, tag
          <6>2. ~IsLocal(o)
            BY <6>1 DEF IsEntry, IsLocal
          <6> QED  BY <6>1, <6>2
        <5> QED  BY <5>1, <5>2, <3>3
      <4> QED  BY <4>1, <3>1, <3>3, <1>5, <1>7, PinnedAnswers
    <3> QED  BY <3>2, <3>3
  <2> QED  BY <1>6, <2>1, <2>2
<1>9. Starts(job.cfg)
  <2>1. Starts(x)
    BY <1>4, <1>7, <1>8, StartsProbed
  <2>2. job.cfg.outbounds \in Seq(OutboundSet)
    BY <1>7 DEF Config
  <2> QED  BY <2>1, <2>2, <1>2, AlikeStarts
<1>10. ASSUME NEW p \in Theirs, OwnsRow(row) \/ prof.balancers = <<>>, Hits(prof, p) # {}, ~Caught(p)
       PROVE  Answer(job.cfg, p) = Answer(prof, p)
  <2>1. Answer(job.cfg, p) = Answer(x, p)
    BY <1>2, <1>7, AlikeThrough
  <2>2. (inb # {} /\ p.inb \notin inb) \/ p.dest \notin Checks
    <3>1. p.inb # "probe"
      BY DEF Theirs, Packets
    <3>2. job.cfg.inbounds = Inbounds(split)
      BY <1>2 DEF Usable
    <3>3. CASE TunMode(split)
      <4>1. inb = {"probe"}
        BY <3>3 DEF inb, ProbeInbounds
      <4> QED  BY <3>1, <4>1
    <3>4. CASE ~TunMode(split)
      <4>1. "probe" \notin job.cfg.inbounds
        BY <3>2, <3>4 DEF Inbounds
      <4> QED  BY <4>1, <1>10 DEF Caught, Checks
    <3> QED  BY <3>3, <3>4
  <2>3. Way(x, p) = Way(c, p)
    BY <2>2, <1>4, <1>7, ProbedWay
  <2>4. Answer(x, p) = Answer(c, p)
    BY <2>3 DEF Answer
  <2>5. Answer(c, p) = Answer(prof, p)
    BY <1>8, <1>10
  <2> QED  BY <2>1, <2>4, <2>5
<1> QED  BY <1>9, <1>10

\* A panel's rules hold under what is picked of its subscription.
THEOREM RulesArePanelsAlways == ConfigSpec => []RulesArePanels
BY ConfigInvariant, PanelsFollow, PTL
=============================================================================
