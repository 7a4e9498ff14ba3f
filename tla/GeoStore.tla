------------------------------ MODULE GeoStore ------------------------------
(***************************************************************************)
(* The geo databases the service keeps for its interfaces                  *)
(* (internal/service/geostore.go), and an interface handing its pair over  *)
(* before it starts a session (internal/app/remote_geo.go).                *)
(*                                                                         *)
(* A database stands for its SHA-256.  A request and its answer are one    *)
(* step: the connection's handler takes them in order and the interface    *)
(* waits for each.  A database comes in two pieces, the first and the last: *)
(* those between change only its file.  Of the blobs' times only their     *)
(* order is kept; which of them are past geoKeep when pruning looks is a   *)
(* choice.  The session is what Service says of one, and claims it in the  *)
(* step that makes its pair.  A removal the system refuses is left out.    *)
(***************************************************************************)
EXTENDS Naturals, FiniteSets

CONSTANTS
  Conns,      \* interfaces, each over its connection
  Dbs,        \* databases, each by its hash
  Pairs,      \* <<geoip, geosite>> an interface may run on
  Size,       \* of a database
  MaxFile,    \* ipc.MaxGeoFile
  MaxStore,   \* maxGeoStore
  MaxUploads, \* maxGeoUploads
  NoPair      \* no pair, and no database

ASSUME GeoStoreAssumption ==
  /\ Pairs \subseteq Dbs \X Dbs /\ \A p \in Pairs : p[1] # p[2]
  /\ NoPair \notin Pairs \cup Dbs
  /\ MaxFile \in Nat \ {0} /\ Size \in [Dbs -> 1..MaxFile]
  /\ MaxStore \in Nat /\ MaxStore >= 4 * MaxFile
  /\ MaxUploads \in Nat \ {0}

VARIABLES
  \* the store
  blobs,
  older,      \* <<d, e>>: d's time is before e's
  sets,       \* of a pair's folder: "no", "whole", or "torn": a file of it is gone
  active,     \* g.active
  uploading,  \* g.uploading
  \* the handlers of the connections
  up,         \* the upload in progress
  \* the interfaces
  phase,      \* "idle", at a database's "first" piece, "sending" the rest,
              \* or "ready" to start
  pair, left, \* what it shares, and what of it is still to be sent
  alone,      \* ghost: nobody else touched the blobs since it asked
  \* the service's session
  sess, on

store   == <<blobs, older, sets, active>>
uploads == <<uploading, up>>
shares  == <<phase, pair, left, alone>>
session == <<sess, on>>
storeVars == <<store, uploads, shares, session>>

NoUpload == [db |-> NoPair, good |-> FALSE]
Halves(p) == IF p = NoPair THEN {} ELSE {p[1], p[2]}

StoreInit ==
  /\ blobs = {} /\ older = {} /\ sets = [p \in Pairs |-> "no"] /\ active = NoPair
  /\ uploading = 0 /\ up = [c \in Conns |-> NoUpload]
  /\ phase = [c \in Conns |-> "idle"] /\ pair = [c \in Conns |-> NoPair]
  /\ left = [c \in Conns |-> {}] /\ alone = [c \in Conns |-> FALSE]
  /\ sess = "none" /\ on = NoPair

(***************************************************************************)
(* The store                                                               *)
(***************************************************************************)
Has(d) == d \in blobs

\* What the databases take, counted byte by byte.
Bytes(ds) == Cardinality({b \in ds \X (1..MaxFile) : b[2] <= Size[b[1]]})

\* Mutant: of the running session's pair only the first is spared.
Pinned_Geoip == IF active = NoPair THEN {} ELSE {active[1]}

Pinned == Halves(active)

\* room: of what nothing pins the oldest go first, and no more than it takes: one
\* goes when those before it have gone and it still does not fit.
Fits(ds, need) == Bytes(ds) + need <= MaxStore
Spare == blobs \ Pinned
Before(d) == {e \in Spare : <<e, d>> \in older}
Left(need) == {d \in blobs : d \in Spare => Fits(blobs \ Before(d), need)}
Room(need) == Fits(Left(need), need)

\* What is left in the store, and what has come into it, as its newest.
Stays(ds) == blobs' = ds /\ older' = older \cap (ds \X ds)
Comes(d, ds) == blobs' = ds \cup {d} /\ older' = (older \cap (ds \X ds)) \cup (ds \X {d})

\* Mutant: what was asked about keeps its time.
Touch_Not(p) == UNCHANGED older

\* What was asked about is the newest now, of one time: either of the two may
\* come before the other when room is made.
Touch(p) ==
  LET asked == Halves(p) \cap blobs
  IN  \E first \in Halves(p) :
        older' = {b \in blobs \X blobs :
          IF b[1] \in asked THEN b[2] \in asked \ {first} /\ b[1] = first
                            ELSE b[2] \in asked \/ b \in older}

\* Mutant: the room made when it began is taken to be there still.
Kept_Unchecked(d) == Comes(d, blobs)

\* A database that came in whole; others may have come in since it began.
Kept(d) == IF Room(Size[d]) THEN Comes(d, Left(Size[d])) ELSE Stays(Left(Size[d]))

\* Whom the step leaves alone with the store, c being the one who takes it.
StillAlone(c) == [d \in Conns |-> alone[d] /\ (d = c \/ UNCHANGED <<blobs, older>>)]

\* Mutant: the folders are pruned before the new pair is the active one.
Prune_First(p) ==
  /\ active' = p
  /\ sets' = [q \in Pairs |-> IF q # active THEN "no" ELSE sets[q]]
  /\ UNCHANGED <<blobs, older>>

\* prune, once p is the active pair.  The oldest blobs are past geoKeep.
Prune(p) ==
  /\ active' = p
  /\ sets' = [q \in Pairs |-> IF q # p THEN "no" ELSE IF sets[q] = "no" THEN "whole" ELSE sets[q]]
  /\ \E past \in SUBSET blobs :
       /\ \A b \in older : b[2] \in past => b[1] \in past
       /\ Stays(blobs \ (past \ Halves(p)))

\* makeSet finds the pair's folder, or can make it of the blobs.
CanMake(p) ==
  IF p = NoPair THEN TRUE ELSE sets[p] # "no" \/ Halves(p) \subseteq blobs

(***************************************************************************)
(* Handing a pair over: shareGeo, geo_have, geo_put                        *)
(***************************************************************************)
Fail(c) ==
  /\ phase' = [phase EXCEPT ![c] = "idle"]
  /\ left' = [left EXCEPT ![c] = {}]
  /\ pair' = [pair EXCEPT ![c] = NoPair]
  /\ alone' = [StillAlone(c) EXCEPT ![c] = FALSE]

\* missing: what is there is marked as just asked about.
Ask(c, p) ==
  /\ phase[c] = "idle"
  /\ Touch(p)
  /\ pair' = [pair EXCEPT ![c] = p]
  /\ left' = [left EXCEPT ![c] = Halves(p) \ blobs]
  /\ phase' = [phase EXCEPT ![c] = IF Halves(p) \subseteq blobs THEN "ready" ELSE "first"]
  /\ alone' = [d \in Conns |-> d = c]
  /\ UNCHANGED <<blobs, sets, active, uploads, session>>

\* The service takes none, or there is none here it would take.
SharesNone(c) ==
  /\ phase[c] = "idle"
  /\ phase' = [phase EXCEPT ![c] = "ready"]
  /\ UNCHANGED <<store, uploads, pair, left, alone, session>>

\* Mutant: what was on its way before a first piece stays counted.
Others_Kept(c) == uploading

\* abort, of whatever c had on its way.
Others(c) == uploading - IF up[c] = NoUpload THEN 0 ELSE 1
Abort(c) ==
  /\ uploading' = Others(c)
  /\ up' = [up EXCEPT ![c] = NoUpload]

\* The geoip database goes first.
Upcoming(c) == IF pair[c][1] \in left[c] THEN pair[c][1] ELSE pair[c][2]

\* A first piece drops what came before it; begin makes room, or refuses.
PutFirst(c) ==
  /\ phase[c] = "first"
  /\ LET d == Upcoming(c)
         busy == Others(c) >= MaxUploads
     IN  /\ IF busy THEN UNCHANGED <<blobs, older>> ELSE Stays(Left(Size[d]))
         /\ IF busy \/ ~Room(Size[d])
              THEN Abort(c) /\ Fail(c)
              ELSE /\ uploading' = Others(c) + 1
                   \* good: it is a database, and still what was hashed
                   /\ \E good \in BOOLEAN :
                        up' = [up EXCEPT ![c] = [db |-> d, good |-> good]]
                   /\ phase' = [phase EXCEPT ![c] = "sending"]
                   /\ alone' = StillAlone(c)
                   /\ UNCHANGED <<pair, left>>
  /\ UNCHANGED <<sets, active, session>>

\* The last piece and keep: a database that came in whole goes among the blobs,
\* unless it is not what it was said to be, is there already, or has no room.
KeepWhole(c) ==
  /\ phase[c] = "sending"
  /\ LET d == up[c].db
         fits == Has(d) \/ Room(Size[d])
     IN  /\ IF Has(d) \/ ~up[c].good THEN UNCHANGED <<blobs, older>> ELSE Kept(d)
         /\ IF up[c].good /\ fits
              THEN /\ left' = [left EXCEPT ![c] = @ \ {d}]
                   /\ phase' = [phase EXCEPT ![c] = IF left[c] = {d} THEN "ready" ELSE "first"]
                   /\ alone' = StillAlone(c)
                   /\ UNCHANGED pair
              ELSE Fail(c)
  /\ Abort(c)
  /\ UNCHANGED <<sets, active, session>>

\* The connect is cancelled between two requests; what was sent stays behind.
Cancel(c) ==
  /\ phase[c] # "idle"
  /\ UNCHANGED <<store, uploads, session>>
  /\ Fail(c)

\* The connection breaks, and its handler drops the upload on its way out; or
\* the service cannot write a piece.
Drop(c) ==
  /\ phase[c] # "idle" \/ up[c] # NoUpload
  /\ UNCHANGED <<store, session>>
  /\ Abort(c) /\ Fail(c)

(***************************************************************************)
(* The session                                                             *)
(***************************************************************************)
\* A session holds the service already.
StartRefused(c) ==
  /\ phase[c] = "ready" /\ sess = "running"
  /\ UNCHANGED <<store, uploads, session>>
  /\ Fail(c)

\* It claims the service, and use makes its pair the one there is.
Start(c) ==
  /\ phase[c] = "ready" /\ sess = "none" /\ CanMake(pair[c])
  /\ Prune(pair[c])
  /\ sess' = "running" /\ on' = pair[c]
  /\ UNCHANGED uploads
  /\ Fail(c)

\* The folder cannot be made: the active pair is still the last session's.
StartFails(c) ==
  /\ phase[c] = "ready" /\ sess = "none"
  /\ pair[c] # NoPair /\ sets[pair[c]] = "no"
  /\ UNCHANGED <<store, uploads, session>>
  /\ Fail(c)

\* However it ends, its pair is kept.
End ==
  /\ sess = "running"
  /\ sess' = "none" /\ on' = NoPair
  /\ UNCHANGED <<store, uploads, shares>>

(***************************************************************************)
(* The service's own end                                                   *)
(***************************************************************************)
\* The next service starts with what is in the folders, and an empty tmp.
Gone ==
  /\ active' = NoPair
  /\ uploading' = 0 /\ up' = [c \in Conns |-> NoUpload]
  /\ phase' = [c \in Conns |-> "idle"] /\ left' = [c \in Conns |-> {}]
  /\ pair' = [c \in Conns |-> NoPair] /\ alone' = [c \in Conns |-> FALSE]
  /\ sess' = "none" /\ on' = NoPair

Restart == Gone /\ UNCHANGED <<blobs, older, sets>>

\* The service dies inside prune, when a folder has lost one of its files.
PruneCut(c) ==
  /\ phase[c] = "ready" /\ sess = "none" /\ CanMake(pair[c])
  /\ \E p \in {q \in Pairs : sets[q] = "whole" /\ q # pair[c]} :
       sets' = [q \in Pairs |-> IF q = p THEN "torn" ELSE
                                IF q = pair[c] THEN "whole" ELSE sets[q]]
  /\ UNCHANGED <<blobs, older>>
  /\ Gone

ConnNext(c) ==
  \/ \E p \in Pairs : Ask(c, p)
  \/ SharesNone(c)
  \/ PutFirst(c) \/ KeepWhole(c)
  \/ Cancel(c) \/ Drop(c)
  \/ StartRefused(c) \/ Start(c) \/ StartFails(c)
StoreNext ==
  \/ \E c \in Conns : ConnNext(c)
  \/ End \/ Restart
StoreSpec == StoreInit /\ [][StoreNext]_storeVars

\* With a service killed at the worst moment.
CutSpec == StoreInit /\ [][StoreNext \/ \E c \in Conns : PruneCut(c)]_storeVars

(***************************************************************************)
(* Properties                                                              *)
(***************************************************************************)
\* However uploads meet, the blobs take no more of the disk than maxGeoStore:
\* room was made for an upload when it began, and others came in since.
StoreBounded == Bytes(blobs) <= MaxStore

\* Every place among the uploads is held by one in progress, whatever way it
\* goes - kept, refused, started over, cancelled, cut off: a place not given
\* back would in the end refuse every database.
PlacesHeld ==
  /\ uploading = Cardinality({c \in Conns : up[c] # NoUpload})
  /\ uploading <= MaxUploads

\* The folder a session's core reads, now and at each restart of it, is there
\* and is the one pruning leaves alone.
RunsOnItsPair ==
  sess = "running" => active = on /\ (on # NoPair => sets[on] # "no")

\* An interface alone with the store finds its own pair there when it comes to
\* start: the room its second database takes is never its first's place, with
\* a session of somebody else's pair running.
OwnPairIsThere ==
  \A c \in Conns :
    phase[c] = "ready" /\ alone[c] => Halves(pair[c]) \subseteq blobs

\* The databases of the running session's pair are not what makes room.
PinnedStay ==
  [][sess = "running" /\ sess' = "running" =>
       Halves(on) \cap blobs \subseteq blobs']_storeVars

\* "A pair is made whole elsewhere and renamed in: one that is there is
\* complete" (makeSet): no session runs on a folder with a file missing.
PairIsWhole == sess = "running" /\ on # NoPair => sets[on] = "whole"
=============================================================================
