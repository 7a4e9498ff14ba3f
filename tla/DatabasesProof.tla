--------------------------- MODULE DatabasesProof ---------------------------
(***************************************************************************)
(* The databases of a session, in the service and in the interface: proofs *)
(* about GeoStore, which keeps within its bound, its places and its pairs, *)
(* for any number of interfaces, databases and pairs, and about Install,   *)
(* whose pairs are of one install, whose files are not lost and whose      *)
(* screen tells the truth, for any number of loads, releases and refused   *)
(* renames.                                                                *)
(***************************************************************************)
EXTENDS GeoStore, Install, FiniteSetTheorems, TLAPS

-----------------------------------------------------------------------------
(* The service's store. *)

StoreTyped ==
  /\ blobs \in SUBSET Dbs /\ IsFiniteSet(blobs)
  /\ older \subseteq blobs \X blobs
  /\ sets \in [Pairs -> {"no", "whole", "torn"}]
  /\ active \in Pairs \cup {NoPair}
  /\ uploading \in Nat
  /\ up \in [Conns -> [db : Dbs, good : BOOLEAN] \cup {NoUpload}]
  /\ phase \in [Conns -> {"idle", "first", "sending", "ready"}]
  /\ pair \in [Conns -> Pairs \cup {NoPair}]
  /\ left \in [Conns -> SUBSET Dbs]
  /\ alone \in [Conns -> BOOLEAN]
  /\ sess \in {"none", "running"}
  /\ on \in Pairs \cup {NoPair}

\* What an interface has to send is of its pair, and what it is sending is next.
SendInv == \A c \in Conns :
  /\ phase[c] = "idle" => pair[c] = NoPair /\ left[c] = {} /\ ~alone[c]
  /\ phase[c] \in {"first", "sending"} =>
       pair[c] \in Pairs /\ left[c] # {} /\ left[c] \subseteq Halves(pair[c])
  /\ phase[c] = "sending" => up[c] # NoUpload /\ up[c].db = Upcoming(c)
  /\ phase[c] = "ready" => left[c] = {}

PlaceInv == IsFiniteSet({c \in Conns : up[c] # NoUpload}) /\ PlacesHeld

\* What an interface alone with the store has there is its newest.
AloneInv == \A c \in Conns : alone[c] =>
  /\ Halves(pair[c]) \ left[c] \subseteq blobs
  /\ left[c] \cap blobs = {}
  /\ \A d \in Halves(pair[c]) \ left[c], e \in blobs \ Halves(pair[c]) : <<e, d>> \in older

GInv == StoreTyped /\ SendInv /\ PlaceInv /\ StoreBounded /\ RunsOnItsPair /\ AloneInv

-----------------------------------------------------------------------------
(* What databases take. *)

Of(ds) == {b \in ds \X (1..MaxFile) : b[2] <= Size[b[1]]}

LEMMA BytesOf ==
  ASSUME NEW ds \in SUBSET Dbs, IsFiniteSet(ds)
  PROVE  /\ IsFiniteSet(Of(ds)) /\ Bytes(ds) = Cardinality(Of(ds)) /\ Bytes(ds) \in Nat
         /\ Bytes(ds) <= Cardinality(ds) * MaxFile
  <1>1. IsFiniteSet(1..MaxFile) /\ Cardinality(1..MaxFile) = MaxFile
    <2>1. MaxFile \in Nat
      BY GeoStoreAssumption
    <2>2. /\ IsFiniteSet(1..MaxFile)
          /\ Cardinality(1..MaxFile) = IF 1 > MaxFile THEN 0 ELSE MaxFile - 1 + 1
      BY <2>1, FS_Interval
    <2> QED
      BY <2>1, <2>2
  <1>2. /\ IsFiniteSet(ds \X (1..MaxFile))
        /\ Cardinality(ds \X (1..MaxFile)) = Cardinality(ds) * MaxFile
    BY <1>1, FS_Product
  <1>3. Of(ds) \in SUBSET (ds \X (1..MaxFile))
    BY DEF Of
  <1>4. IsFiniteSet(Of(ds)) /\ Cardinality(Of(ds)) <= Cardinality(ds) * MaxFile
    BY <1>2, <1>3, FS_Subset
  <1> QED
    BY <1>4, FS_CardinalityType DEF Bytes, Of

\* Fewer take no more.
LEMMA BytesFewer ==
  ASSUME NEW ds \in SUBSET Dbs, IsFiniteSet(ds), NEW es \in SUBSET ds
  PROVE  IsFiniteSet(es) /\ Bytes(es) \in Nat /\ Bytes(ds) \in Nat /\ Bytes(es) <= Bytes(ds)
  <1>1. IsFiniteSet(es) /\ es \in SUBSET Dbs
    BY FS_Subset
  <1>2. Of(es) \in SUBSET Of(ds)
    BY DEF Of
  <1> QED
    BY <1>1, <1>2, BytesOf, FS_Subset

\* One more takes its size more.
LEMMA BytesMore ==
  ASSUME NEW ds \in SUBSET Dbs, IsFiniteSet(ds), NEW d \in Dbs
  PROVE  IsFiniteSet(ds \cup {d}) /\ Bytes(ds \cup {d}) <= Bytes(ds) + Size[d]
  <1>1. IsFiniteSet(ds \cup {d}) /\ ds \cup {d} \in SUBSET Dbs /\ IsFiniteSet({d})
    BY FS_AddElement, FS_Singleton
  <1>2. Of(ds \cup {d}) = Of(ds) \cup Of({d})
    BY DEF Of
  <1>3. Of({d}) = {d} \X (1..Size[d])
    BY GeoStoreAssumption DEF Of
  <1>4. Cardinality(Of({d})) = Size[d] /\ IsFiniteSet(Of({d}))
    <2>1. Size[d] \in Nat /\ Size[d] >= 1
      BY GeoStoreAssumption
    <2>2. IsFiniteSet(1..Size[d]) /\ Cardinality(1..Size[d]) = Size[d]
      <3>1. ASSUME NEW n \in Nat, n >= 1 PROVE IsFiniteSet(1..n) /\ Cardinality(1..n) = n
        <4>1. IsFiniteSet(1..n) /\ Cardinality(1..n) = IF 1 > n THEN 0 ELSE n - 1 + 1
          BY ONLY <3>1, FS_Interval
        <4> QED
          BY ONLY <3>1, <4>1
      <3> QED
        BY ONLY <2>1, <3>1
    <2>3. Cardinality({d}) = 1
      BY FS_Singleton
    <2>4. /\ IsFiniteSet({d} \X (1..Size[d]))
          /\ Cardinality({d} \X (1..Size[d])) = Cardinality({d}) * Cardinality(1..Size[d])
      BY <1>1, <2>2, FS_Product
    <2>5. Cardinality({d}) * Cardinality(1..Size[d]) = Size[d]
      BY ONLY <2>1, <2>2, <2>3
    <2> QED
      BY ONLY <1>3, <2>4, <2>5
  <1>5. Cardinality(Of(ds) \cup Of({d})) =
          Cardinality(Of(ds)) + Cardinality(Of({d})) - Cardinality(Of(ds) \cap Of({d}))
    BY <1>4, BytesOf, FS_Union
  <1>6. Cardinality(Of(ds) \cap Of({d})) \in Nat
    BY BytesOf, FS_Intersection, FS_CardinalityType
  <1>7. /\ Bytes(ds) = Cardinality(Of(ds)) /\ Bytes(ds) \in Nat /\ Size[d] \in Nat
        /\ Bytes(ds \cup {d}) = Cardinality(Of(ds \cup {d}))
    BY GeoStoreAssumption, <1>1, BytesOf
  <1>8. \A a, b, c, e \in Nat : a = b + c - e => a <= b + c
    OBVIOUS
  <1>9. Cardinality(Of(ds) \cup Of({d})) \in Nat
    BY <1>4, BytesOf, FS_Union, FS_CardinalityType
  <1> QED
    BY ONLY <1>1, <1>2, <1>4, <1>5, <1>6, <1>7, <1>8, <1>9

\* A pair and one more are at most three.
LEMMA ThreeFit ==
  ASSUME NEW p \in Pairs \cup {NoPair}, NEW d \in Dbs, NEW need \in 0..MaxFile
  PROVE  /\ Halves(p) \cup {d} \in SUBSET Dbs /\ IsFiniteSet(Halves(p) \cup {d})
         /\ Fits(Halves(p) \cup {d}, need)
  <1>1. PICK x \in Dbs, y \in Dbs : Halves(p) \cup {d} \in SUBSET {x, y, d}
    <2>1. CASE p = NoPair
      BY <2>1 DEF Halves
    <2>2. CASE p \in Pairs
      BY GeoStoreAssumption, <2>2 DEF Halves
    <2> QED
      BY <2>1, <2>2
  <1>2. IsFiniteSet({x, y, d}) /\ Cardinality({x, y, d}) <= 3 /\ Cardinality({x, y, d}) \in Nat
    <2>1. IsFiniteSet({x}) /\ Cardinality({x}) = 1
      BY FS_Singleton
    <2>2. IsFiniteSet({x} \cup {y}) /\ Cardinality({x} \cup {y}) \in 1..2
      BY <2>1, FS_AddElement
    <2>3. IsFiniteSet({x} \cup {y} \cup {d}) /\ Cardinality({x} \cup {y} \cup {d}) \in 1..3
      BY <2>2, FS_AddElement
    <2>4. {x, y, d} = {x} \cup {y} \cup {d}
      OBVIOUS
    <2> QED
      BY <2>3, <2>4
  <1>3. {x, y, d} \in SUBSET Dbs
    OBVIOUS
  <1>4. Bytes({x, y, d}) \in Nat /\ Bytes({x, y, d}) <= 3 * MaxFile
    BY GeoStoreAssumption, <1>2, <1>3, BytesOf
  <1>5. IsFiniteSet(Halves(p) \cup {d}) /\ Bytes(Halves(p) \cup {d}) \in Nat
        /\ Bytes(Halves(p) \cup {d}) <= Bytes({x, y, d})
    BY <1>1, <1>2, <1>3, BytesFewer
  <1> QED
    BY GeoStoreAssumption, <1>1, <1>3, <1>4, <1>5 DEF Fits

-----------------------------------------------------------------------------
(* What a step does to the store. *)

\* Room is made of what nothing pins.
LEMMA LeftKeepsPinned ==
  ASSUME StoreTyped, NEW need
  PROVE  Left(need) \in SUBSET blobs /\ IsFiniteSet(Left(need)) /\ Pinned \cap blobs \subseteq Left(need)
  <1>1. Left(need) \in SUBSET blobs /\ Pinned \cap blobs \subseteq Left(need)
    BY DEF Left, Spare
  <1> QED
    BY <1>1, FS_Subset DEF StoreTyped

\* Nor of what an interface alone with the store has there already: with that,
\* the pinned pair and the one to come there is room for all.
LEMMA OwnIsLeft ==
  ASSUME StoreTyped, SendInv, AloneInv, NEW c \in Conns, alone[c], phase[c] \in {"first", "sending"},
         NEW need \in 0..MaxFile
  PROVE  Halves(pair[c]) \ left[c] \subseteq Left(need)
  <1>1. SUFFICES ASSUME NEW a \in Halves(pair[c]) \ left[c], a \in Spare PROVE Fits(blobs \ Before(a), need)
    BY DEF Left, AloneInv
  <1>2. /\ pair[c] \in Pairs /\ left[c] # {} /\ left[c] \subseteq Halves(pair[c])
        /\ a \in blobs /\ blobs \in SUBSET Dbs /\ IsFiniteSet(blobs)
    BY DEF SendInv, AloneInv, StoreTyped
  <1>3. blobs \ Before(a) \in SUBSET (Halves(active) \cup {a})
    <2>1. SUFFICES ASSUME NEW e \in blobs, e \notin Halves(active), e # a PROVE e \in Before(a)
      OBVIOUS
    <2>2. e \notin Halves(pair[c])
      BY <1>2, <2>1, GeoStoreAssumption DEF Halves, AloneInv
    <2> QED
      BY <2>1, <2>2 DEF AloneInv, Before, Spare, Pinned
  <1>4. /\ Halves(active) \cup {a} \in SUBSET Dbs /\ IsFiniteSet(Halves(active) \cup {a})
        /\ Fits(Halves(active) \cup {a}, need)
    BY <1>2, ThreeFit DEF StoreTyped
  <1>5. /\ Bytes(blobs \ Before(a)) \in Nat /\ Bytes(Halves(active) \cup {a}) \in Nat
        /\ Bytes(blobs \ Before(a)) <= Bytes(Halves(active) \cup {a})
    BY <1>3, <1>4, BytesFewer
  <1> QED
    BY <1>4, <1>5, GeoStoreAssumption DEF Fits

\* Fewer databases: the bound stays, and what was the newest is.
LEMMA StaysKeeps ==
  ASSUME StoreTyped, StoreBounded, NEW ds \in SUBSET blobs, Stays(ds)
  PROVE  /\ blobs' \in SUBSET Dbs /\ IsFiniteSet(blobs') /\ older' \subseteq blobs' \X blobs'
         /\ StoreBounded'
  <1>1. blobs' = ds /\ older' \subseteq ds \X ds
    BY DEF Stays
  <1>2. IsFiniteSet(ds) /\ Bytes(ds) \in Nat /\ Bytes(blobs) \in Nat /\ Bytes(ds) <= Bytes(blobs)
    BY BytesFewer DEF StoreTyped
  <1>3. Bytes(ds) <= MaxStore
    BY <1>2, GeoStoreAssumption DEF StoreBounded
  <1> QED
    BY <1>1, <1>2, <1>3 DEF StoreTyped, StoreBounded, Bytes

\* One more comes where there is room for it.
LEMMA ComesKeeps ==
  ASSUME StoreTyped, NEW d \in Dbs, NEW ds \in SUBSET blobs, Fits(ds, Size[d]), Comes(d, ds)
  PROVE  /\ blobs' \in SUBSET Dbs /\ IsFiniteSet(blobs') /\ older' \subseteq blobs' \X blobs'
         /\ StoreBounded'
  <1>1. blobs' = ds \cup {d} /\ older' \subseteq blobs' \X blobs'
    BY DEF Comes
  <1>2. IsFiniteSet(ds) /\ ds \in SUBSET Dbs
    BY FS_Subset DEF StoreTyped
  <1>3. IsFiniteSet(ds \cup {d}) /\ Bytes(ds \cup {d}) <= Bytes(ds) + Size[d]
    BY <1>2, BytesMore
  <1>4. Bytes(ds) \in Nat /\ Bytes(ds \cup {d}) \in Nat /\ Size[d] \in Nat
    BY <1>2, <1>3, BytesOf, GeoStoreAssumption
  <1>5. Bytes(ds \cup {d}) <= MaxStore
    BY <1>3, <1>4, GeoStoreAssumption DEF Fits
  <1> QED
    BY <1>1, <1>2, <1>3, <1>5 DEF StoreBounded, Bytes

-----------------------------------------------------------------------------
(* What a step does to the places and to the interfaces. *)

Held == {c \in Conns : up[c] # NoUpload}

LEMMA OthersHeld ==
  ASSUME StoreTyped, PlaceInv, NEW c \in Conns
  PROVE  /\ IsFiniteSet(Held \ {c}) /\ Others(c) = Cardinality(Held \ {c})
         /\ Others(c) \in Nat /\ Others(c) <= MaxUploads
  <1>1. IsFiniteSet(Held) /\ uploading = Cardinality(Held) /\ uploading \in Nat /\ uploading <= MaxUploads
    BY DEF PlaceInv, PlacesHeld, Held, StoreTyped
  <1>2. IsFiniteSet(Held \ {c}) /\ Cardinality(Held \ {c}) \in Nat
    BY <1>1, FS_RemoveElement, FS_CardinalityType
  <1>3. Cardinality(Held \ {c}) = IF c \in Held THEN Cardinality(Held) - 1 ELSE Cardinality(Held)
    BY <1>1, FS_RemoveElement
  <1>4. Others(c) = Cardinality(Held \ {c})
    BY <1>1, <1>3 DEF Others, Held
  <1>5. Others(c) <= uploading
    BY <1>1, <1>2, <1>3, <1>4
  <1> QED
    BY <1>1, <1>2, <1>4, <1>5, GeoStoreAssumption

LEMMA AbortKeeps ==
  ASSUME StoreTyped, PlaceInv, NEW c \in Conns, Abort(c)
  PROVE  /\ uploading' \in Nat /\ up' \in [Conns -> [db : Dbs, good : BOOLEAN] \cup {NoUpload}]
         /\ PlaceInv' /\ \A d \in Conns \ {c} : up'[d] = up[d]
  <1>1. {d \in Conns : up'[d] # NoUpload} = Held \ {c}
    BY DEF Abort, StoreTyped, Held
  <1> QED
    BY <1>1, OthersHeld DEF Abort, StoreTyped, PlaceInv, PlacesHeld

\* An interface that gives up has nothing to send.
LEMMA FailKeeps ==
  ASSUME StoreTyped, SendInv, NEW c \in Conns, Fail(c), \A d \in Conns \ {c} : up'[d] = up[d]
  PROVE  /\ phase' \in [Conns -> {"idle", "first", "sending", "ready"}]
         /\ pair' \in [Conns -> Pairs \cup {NoPair}] /\ left' \in [Conns -> SUBSET Dbs]
         /\ alone' \in [Conns -> BOOLEAN] /\ SendInv'
         /\ \A d \in Conns : alone'[d] =>
              d # c /\ alone[d] /\ UNCHANGED <<blobs, older, pair[d], left[d]>>
  <1>1. /\ phase' \in [Conns -> {"idle", "first", "sending", "ready"}]
        /\ pair' \in [Conns -> Pairs \cup {NoPair}] /\ left' \in [Conns -> SUBSET Dbs]
    BY DEF Fail, StoreTyped
  <1>2. /\ alone' \in [Conns -> BOOLEAN] /\ ~alone'[c]
        /\ \A d \in Conns \ {c} : alone'[d] = (alone[d] /\ UNCHANGED <<blobs, older>>)
    BY DEF Fail, StillAlone, StoreTyped
  <1>3. /\ \A d \in Conns \ {c} : phase'[d] = phase[d] /\ pair'[d] = pair[d] /\ left'[d] = left[d]
        /\ phase'[c] = "idle" /\ pair'[c] = NoPair /\ left'[c] = {}
    BY DEF Fail, StoreTyped
  <1>4. SendInv'
    BY <1>2, <1>3 DEF SendInv, Upcoming
  <1> QED
    BY <1>1, <1>2, <1>3, <1>4

LEMMA AloneKept ==
  ASSUME AloneInv, \A d \in Conns : alone'[d] => alone[d] /\ UNCHANGED <<blobs, older, pair[d], left[d]>>
  PROVE  AloneInv'
  BY DEF AloneInv

\* The store and the session stay as they were.
LEMMA StoreUntouched ==
  ASSUME StoreTyped, StoreBounded, RunsOnItsPair, UNCHANGED <<store, session>>
  PROVE  /\ blobs' \in SUBSET Dbs /\ IsFiniteSet(blobs') /\ older' \subseteq blobs' \X blobs'
         /\ sets' \in [Pairs -> {"no", "whole", "torn"}] /\ active' \in Pairs \cup {NoPair}
         /\ sess' \in {"none", "running"} /\ on' \in Pairs \cup {NoPair}
         /\ StoreBounded' /\ RunsOnItsPair'
  BY DEF StoreTyped, store, session, StoreBounded, Bytes, RunsOnItsPair

-----------------------------------------------------------------------------
(* The steps. *)

LEMMA GeoInit == StoreInit => GInv
  <1> SUFFICES ASSUME StoreInit PROVE GInv
    OBVIOUS
  <1>1. IsFiniteSet({}) /\ Cardinality({}) = 0
    BY FS_EmptySet
  <1>2. StoreTyped
    BY <1>1 DEF StoreInit, StoreTyped, NoUpload
  <1>3. SendInv
    BY DEF StoreInit, SendInv
  <1>4. PlaceInv
    <2>1. {c \in Conns : up[c] # NoUpload} = {} /\ uploading = 0
      BY DEF StoreInit
    <2>2. 0 <= MaxUploads
      BY GeoStoreAssumption
    <2> QED
      BY <1>1, <2>1, <2>2 DEF PlaceInv, PlacesHeld
  <1>5. StoreBounded
    <2>1. Bytes({}) = Cardinality({})
      <3>1. {b \in {} \X (1..MaxFile) : b[2] <= Size[b[1]]} = {}
        OBVIOUS
      <3> QED
        BY <3>1 DEF Bytes
    <2> QED
      BY <1>1, <2>1, GeoStoreAssumption DEF StoreInit, StoreBounded
  <1>6. RunsOnItsPair /\ AloneInv
    BY DEF StoreInit, RunsOnItsPair, AloneInv
  <1> QED
    BY <1>2, <1>3, <1>4, <1>5, <1>6 DEF GInv

LEMMA AskKeeps ==
  ASSUME GInv, NEW c \in Conns, NEW p \in Pairs, Ask(c, p)
  PROVE  GInv'
  <1> USE DEF GInv
  <1>1. /\ phase[c] = "idle" /\ Touch(p) /\ pair' = [pair EXCEPT ![c] = p]
        /\ left' = [left EXCEPT ![c] = Halves(p) \ blobs]
        /\ phase' = [phase EXCEPT ![c] = IF Halves(p) \subseteq blobs THEN "ready" ELSE "first"]
        /\ blobs' = blobs /\ sets' = sets /\ active' = active
        /\ uploading' = uploading /\ up' = up /\ sess' = sess /\ on' = on
    BY DEF Ask, uploads, session
  <1>2. alone' = [d \in Conns |-> d = c]
    BY DEF Ask
  <1>3. Halves(p) = {p[1], p[2]} /\ Halves(p) \in SUBSET Dbs
    BY GeoStoreAssumption DEF Halves
  <1>4. PICK first \in Halves(p) : older' = {b \in blobs \X blobs :
          IF b[1] \in Halves(p) \cap blobs THEN b[2] \in (Halves(p) \cap blobs) \ {first} /\ b[1] = first
          ELSE b[2] \in Halves(p) \cap blobs \/ b \in older}
    BY <1>1 DEF Touch
  <1>5. /\ phase'[c] = (IF Halves(p) \subseteq blobs THEN "ready" ELSE "first")
        /\ pair'[c] = p /\ left'[c] = Halves(p) \ blobs
        /\ \A d \in Conns \ {c} : phase'[d] = phase[d] /\ pair'[d] = pair[d] /\ left'[d] = left[d]
    BY <1>1 DEF StoreTyped
  <1>6. StoreTyped'
    <2>1. older' \subseteq blobs' \X blobs'
      BY <1>1, <1>4
    <2>2. /\ phase' \in [Conns -> {"idle", "first", "sending", "ready"}]
          /\ pair' \in [Conns -> Pairs \cup {NoPair}] /\ left' \in [Conns -> SUBSET Dbs]
      BY <1>1, <1>3 DEF StoreTyped
    <2>3. alone' \in [Conns -> BOOLEAN]
      BY <1>2
    <2> QED
      BY <1>1, <2>1, <2>2, <2>3 DEF StoreTyped
  <1>7. SendInv'
    <2> SUFFICES ASSUME NEW d \in Conns PROVE SendInv!(d)'
      BY DEF SendInv
    <2>1. CASE d = c
      BY <1>3, <1>5, <2>1
    <2>2. CASE d # c
      <3>1. ~alone'[d]
        BY <1>2, <2>2
      <3> QED
        BY <1>1, <1>5, <2>2, <3>1 DEF SendInv, Upcoming
    <2> QED
      BY <2>1, <2>2
  <1>8. PlaceInv' /\ StoreBounded' /\ RunsOnItsPair'
    BY <1>1 DEF PlaceInv, PlacesHeld, StoreBounded, Bytes, RunsOnItsPair
  <1>9. AloneInv'
    <2>1. \A d \in Conns : alone'[d] => d = c
      BY <1>2
    <2>2. \A d \in Halves(p) \cap blobs, e \in blobs \ Halves(p) : <<e, d>> \in older'
      BY <1>4
    <2> QED
      BY <1>1, <1>5, <2>1, <2>2 DEF AloneInv
  <1> QED
    BY <1>6, <1>7, <1>8, <1>9

LEMMA SharesNoneKeeps ==
  ASSUME GInv, NEW c \in Conns, SharesNone(c)
  PROVE  GInv'
  <1> USE DEF GInv
  <1>1. /\ phase[c] = "idle" /\ phase' = [phase EXCEPT ![c] = "ready"]
        /\ UNCHANGED <<store, session>> /\ uploading' = uploading /\ up' = up
        /\ pair' = pair /\ left' = left /\ alone' = alone
    BY DEF SharesNone, uploads
  <1>2. StoreTyped' /\ StoreBounded' /\ RunsOnItsPair'
    <2>1. phase' \in [Conns -> {"idle", "first", "sending", "ready"}]
      BY <1>1 DEF StoreTyped
    <2> QED
      BY <1>1, <2>1, StoreUntouched DEF StoreTyped
  <1>3. SendInv'
    <2>1. \A d \in Conns : phase'[d] = IF d = c THEN "ready" ELSE phase[d]
      BY <1>1 DEF StoreTyped
    <2> QED
      BY <1>1, <2>1 DEF SendInv, Upcoming
  <1>4. PlaceInv'
    BY <1>1 DEF PlaceInv, PlacesHeld
  <1>5. AloneInv'
    BY <1>1 DEF AloneInv, store
  <1> QED
    BY <1>2, <1>3, <1>4, <1>5

LEMMA PutFirstKeeps ==
  ASSUME GInv, NEW c \in Conns, PutFirst(c)
  PROVE  GInv'
  <1> USE DEF GInv
  <1> DEFINE d == Upcoming(c)
             busy == Others(c) >= MaxUploads
  <1>1. /\ phase[c] = "first" /\ sets' = sets /\ active' = active /\ sess' = sess /\ on' = on
        /\ IF busy THEN UNCHANGED <<blobs, older>> ELSE Stays(Left(Size[d]))
    BY DEF PutFirst, session
  <1>2. d \in left[c] /\ d \in Dbs /\ pair[c] \in Pairs /\ Size[d] \in 0..MaxFile
    <2>1. pair[c] \in Pairs /\ left[c] # {} /\ left[c] \subseteq {pair[c][1], pair[c][2]}
      BY <1>1, GeoStoreAssumption DEF SendInv, Halves
    <2>2. d \in left[c]
      BY <2>1 DEF Upcoming
    <2>3. d \in Dbs
      BY <2>2 DEF StoreTyped
    <2> QED
      BY <2>1, <2>2, <2>3, GeoStoreAssumption
  <1>3. /\ blobs' \in SUBSET blobs /\ IsFiniteSet(blobs') /\ older' = older \cap (blobs' \X blobs')
        /\ StoreBounded' /\ (alone[c] => Halves(pair[c]) \ left[c] \subseteq blobs')
    <2>1. CASE busy
      <3>1. blobs' = blobs /\ older' = older
        BY <1>1, <2>1
      <3> QED
        BY <3>1 DEF StoreTyped, StoreBounded, Bytes, AloneInv
    <2>2. CASE ~busy
      <3>1. Stays(Left(Size[d]))
        BY <1>1, <2>2
      <3>2. Left(Size[d]) \in SUBSET blobs
        BY LeftKeepsPinned
      <3>3. alone[c] => Halves(pair[c]) \ left[c] \subseteq Left(Size[d])
        BY <1>1, <1>2, OwnIsLeft
      <3>4. IsFiniteSet(blobs') /\ StoreBounded'
        BY <3>1, <3>2, StaysKeeps
      <3> QED
        BY <3>1, <3>2, <3>3, <3>4 DEF Stays
    <2> QED
      BY <2>1, <2>2
  <1>4. /\ blobs' \in SUBSET Dbs /\ older' \subseteq blobs' \X blobs' /\ RunsOnItsPair'
        /\ sets' \in [Pairs -> {"no", "whole", "torn"}] /\ active' \in Pairs \cup {NoPair}
        /\ sess' \in {"none", "running"} /\ on' \in Pairs \cup {NoPair}
    BY <1>1, <1>3 DEF StoreTyped, RunsOnItsPair
  <1>5. CASE busy \/ ~Room(Size[d])
    <2>1. Abort(c) /\ Fail(c)
      BY <1>5 DEF PutFirst
    <2>2. /\ uploading' \in Nat /\ up' \in [Conns -> [db : Dbs, good : BOOLEAN] \cup {NoUpload}]
          /\ PlaceInv' /\ \A e \in Conns \ {c} : up'[e] = up[e]
      BY <2>1, AbortKeeps
    <2>3. /\ phase' \in [Conns -> {"idle", "first", "sending", "ready"}]
          /\ pair' \in [Conns -> Pairs \cup {NoPair}] /\ left' \in [Conns -> SUBSET Dbs]
          /\ alone' \in [Conns -> BOOLEAN] /\ SendInv'
          /\ \A e \in Conns : alone'[e] =>
               e # c /\ alone[e] /\ UNCHANGED <<blobs, older, pair[e], left[e]>>
      BY <2>1, <2>2, FailKeeps
    <2>4. AloneInv'
      BY <2>3, AloneKept
    <2>5. StoreTyped'
      BY <1>3, <1>4, <2>2, <2>3 DEF StoreTyped
    <2> QED
      BY <1>3, <1>4, <2>2, <2>3, <2>4, <2>5
  <1>6. CASE ~busy /\ Room(Size[d])
    <2>1. /\ uploading' = Others(c) + 1 /\ phase' = [phase EXCEPT ![c] = "sending"]
          /\ pair' = pair /\ left' = left
      BY <1>6 DEF PutFirst
    <2>2. alone' = StillAlone(c)
      BY <1>6 DEF PutFirst
    <2>3. PICK good \in BOOLEAN : up' = [up EXCEPT ![c] = [db |-> d, good |-> good]]
      BY <1>6 DEF PutFirst
    <2>4. /\ [db |-> d, good |-> good] \in [db : Dbs, good : BOOLEAN]
          /\ [db |-> d, good |-> good] # NoUpload /\ [db |-> d, good |-> good].db = d
      <3>1. d # NoPair
        BY <1>2, GeoStoreAssumption
      <3>2. [db |-> d, good |-> good].db = d /\ NoUpload.db = NoPair
        BY DEF NoUpload
      <3> QED
        BY <1>2, <3>1, <3>2
    <2>5. /\ up' \in [Conns -> [db : Dbs, good : BOOLEAN] \cup {NoUpload}]
          /\ up'[c] # NoUpload /\ up'[c].db = d /\ \A e \in Conns \ {c} : up'[e] = up[e]
      BY <2>3, <2>4 DEF StoreTyped
    <2>6. PlaceInv' /\ uploading' \in Nat
      <3>1. {e \in Conns : up'[e] # NoUpload} = (Held \ {c}) \cup {c}
        BY <2>5 DEF Held
      <3>2. /\ IsFiniteSet(Held \ {c}) /\ Others(c) = Cardinality(Held \ {c})
            /\ Others(c) \in Nat /\ Others(c) <= MaxUploads
        BY OthersHeld
      <3>3. /\ IsFiniteSet((Held \ {c}) \cup {c})
            /\ Cardinality((Held \ {c}) \cup {c}) = Cardinality(Held \ {c}) + 1
        BY <3>2, FS_AddElement
      <3>4. Others(c) + 1 <= MaxUploads /\ Others(c) + 1 \in Nat
        BY <1>6, <3>2, GeoStoreAssumption
      <3> QED
        BY <2>1, <3>1, <3>2, <3>3, <3>4 DEF PlaceInv, PlacesHeld
    <2>7. /\ alone' \in [Conns -> BOOLEAN]
          /\ \A e \in Conns : alone'[e] => alone[e] /\ (e = c \/ UNCHANGED <<blobs, older>>)
      BY <2>2 DEF StillAlone, StoreTyped
    <2>8. phase' \in [Conns -> {"idle", "first", "sending", "ready"}]
          /\ \A e \in Conns : phase'[e] = IF e = c THEN "sending" ELSE phase[e]
      BY <2>1 DEF StoreTyped
    <2>9. StoreTyped'
      BY <1>3, <1>4, <2>1, <2>5, <2>6, <2>7, <2>8 DEF StoreTyped
    <2>10. SendInv'
      <3> SUFFICES ASSUME NEW e \in Conns PROVE SendInv!(e)'
        BY DEF SendInv
      <3>1. CASE e = c
        <4>1. Upcoming(c)' = d
          BY <2>1 DEF Upcoming
        <4> QED
          BY <1>1, <2>1, <2>5, <2>8, <3>1, <4>1 DEF SendInv
      <3>2. CASE e # c
        <4>1. phase'[e] = phase[e] /\ up'[e] = up[e] /\ (alone'[e] => alone[e])
          BY <2>5, <2>7, <2>8, <3>2
        <4> QED
          BY <2>1, <4>1 DEF SendInv, Upcoming
      <3> QED
        BY <3>1, <3>2
    <2>11. AloneInv'
      <3> SUFFICES ASSUME NEW e \in Conns, alone'[e]
                   PROVE  /\ Halves(pair[e]) \ left[e] \subseteq blobs'
                          /\ left[e] \cap blobs' = {}
                          /\ \A x \in Halves(pair[e]) \ left[e], y \in blobs' \ Halves(pair[e]) :
                               <<y, x>> \in older'
        BY <2>1 DEF AloneInv
      <3>1. alone[e] /\ (e = c \/ UNCHANGED <<blobs, older>>)
        BY <2>7
      <3>2. Halves(pair[e]) \ left[e] \subseteq blobs'
        BY <1>3, <3>1 DEF AloneInv
      <3> QED
        BY <1>3, <3>1, <3>2 DEF AloneInv
    <2> QED
      BY <1>3, <1>4, <2>6, <2>9, <2>10, <2>11
  <1> QED
    BY <1>5, <1>6

LEMMA KeepKeeps ==
  ASSUME GInv, NEW c \in Conns, KeepWhole(c)
  PROVE  GInv'
  <1> USE DEF GInv
  <1> DEFINE d == up[c].db
             fits == Has(d) \/ Room(Size[d])
  <1>1. /\ phase[c] = "sending" /\ Abort(c)
        /\ sets' = sets /\ active' = active /\ sess' = sess /\ on' = on
        /\ IF Has(d) \/ ~up[c].good THEN UNCHANGED <<blobs, older>> ELSE Kept(d)
    BY DEF KeepWhole, session
  <1>2. d = Upcoming(c) /\ d \in left[c] /\ d \in Dbs /\ Size[d] \in 0..MaxFile
    <2>1. /\ d = Upcoming(c) /\ left[c] # {} /\ pair[c] \in Pairs
          /\ left[c] \subseteq {pair[c][1], pair[c][2]}
      BY <1>1, GeoStoreAssumption DEF SendInv, Halves
    <2>2. d \in left[c]
      BY <2>1 DEF Upcoming
    <2>3. d \in Dbs
      BY <2>2 DEF StoreTyped
    <2> QED
      BY <2>1, <2>2, <2>3, GeoStoreAssumption
  <1>3. /\ blobs' \in SUBSET Dbs /\ IsFiniteSet(blobs') /\ older' \subseteq blobs' \X blobs'
        /\ StoreBounded'
    <2>1. CASE UNCHANGED <<blobs, older>>
      BY <2>1 DEF StoreTyped, StoreBounded, Bytes
    <2>2. CASE Kept(d)
      <3>1. Left(Size[d]) \in SUBSET blobs
        BY LeftKeepsPinned
      <3>2. CASE Room(Size[d])
        <4>1. Comes(d, Left(Size[d])) /\ Fits(Left(Size[d]), Size[d])
          BY <2>2, <3>2 DEF Kept, Room
        <4> QED
          BY <1>2, <3>1, <4>1, ComesKeeps
      <3>3. CASE ~Room(Size[d])
        BY <2>2, <3>1, <3>3, StaysKeeps DEF Kept
      <3> QED
        BY <3>2, <3>3
    <2> QED
      BY <1>1, <2>1, <2>2
  <1>4. /\ uploading' \in Nat /\ up' \in [Conns -> [db : Dbs, good : BOOLEAN] \cup {NoUpload}]
        /\ PlaceInv' /\ \A e \in Conns \ {c} : up'[e] = up[e]
    BY <1>1, AbortKeeps
  <1>5. /\ sets' \in [Pairs -> {"no", "whole", "torn"}] /\ active' \in Pairs \cup {NoPair}
        /\ sess' \in {"none", "running"} /\ on' \in Pairs \cup {NoPair} /\ RunsOnItsPair'
    BY <1>1 DEF StoreTyped, RunsOnItsPair
  <1>6. CASE ~(up[c].good /\ fits)
    <2>1. Fail(c)
      BY <1>6 DEF KeepWhole
    <2>2. /\ phase' \in [Conns -> {"idle", "first", "sending", "ready"}]
          /\ pair' \in [Conns -> Pairs \cup {NoPair}] /\ left' \in [Conns -> SUBSET Dbs]
          /\ alone' \in [Conns -> BOOLEAN] /\ SendInv'
          /\ \A e \in Conns : alone'[e] =>
               e # c /\ alone[e] /\ UNCHANGED <<blobs, older, pair[e], left[e]>>
      BY <1>4, <2>1, FailKeeps
    <2>3. AloneInv'
      BY <2>2, AloneKept
    <2>4. StoreTyped'
      BY <1>3, <1>4, <1>5, <2>2 DEF StoreTyped
    <2> QED
      BY <1>3, <1>4, <1>5, <2>2, <2>3, <2>4
  <1>7. CASE up[c].good /\ fits
    <2>1. /\ left' = [left EXCEPT ![c] = @ \ {d}]
          /\ phase' = [phase EXCEPT ![c] = IF left[c] = {d} THEN "ready" ELSE "first"]
          /\ pair' = pair
      BY <1>7 DEF KeepWhole
    <2>2. alone' = StillAlone(c)
      BY <1>7 DEF KeepWhole
    <2>3. /\ left' \in [Conns -> SUBSET Dbs] /\ left'[c] = left[c] \ {d}
          /\ \A e \in Conns \ {c} : left'[e] = left[e]
      BY <2>1 DEF StoreTyped
    <2>4. /\ phase' \in [Conns -> {"idle", "first", "sending", "ready"}]
          /\ phase'[c] = (IF left[c] = {d} THEN "ready" ELSE "first")
          /\ \A e \in Conns \ {c} : phase'[e] = phase[e]
      BY <2>1 DEF StoreTyped
    <2>5. /\ alone' \in [Conns -> BOOLEAN]
          /\ \A e \in Conns : alone'[e] => alone[e] /\ (e = c \/ UNCHANGED <<blobs, older>>)
      BY <2>2 DEF StillAlone, StoreTyped
    <2>6. StoreTyped'
      BY <1>3, <1>4, <1>5, <2>1, <2>3, <2>4, <2>5 DEF StoreTyped
    <2>7. SendInv'
      <3> SUFFICES ASSUME NEW e \in Conns PROVE SendInv!(e)'
        BY DEF SendInv
      <3>1. CASE e = c
        BY <1>1, <1>2, <2>1, <2>3, <2>4, <3>1 DEF SendInv
      <3>2. CASE e # c
        <4>1. phase'[e] = phase[e] /\ up'[e] = up[e] /\ left'[e] = left[e] /\ (alone'[e] => alone[e])
          BY <1>4, <2>3, <2>4, <2>5, <3>2
        <4> QED
          BY <2>1, <4>1 DEF SendInv, Upcoming
      <3> QED
        BY <3>1, <3>2
    <2>8. AloneInv'
      <3> SUFFICES ASSUME NEW e \in Conns, alone'[e]
                   PROVE  /\ Halves(pair[e]) \ left'[e] \subseteq blobs'
                          /\ left'[e] \cap blobs' = {}
                          /\ \A x \in Halves(pair[e]) \ left'[e], y \in blobs' \ Halves(pair[e]) :
                               <<y, x>> \in older'
        BY <2>1 DEF AloneInv
      <3>1. alone[e] /\ (e = c \/ UNCHANGED <<blobs, older>>)
        BY <2>5
      <3>2. CASE e = c
        <4>1. d \notin blobs /\ left[c] \cap blobs = {}
          BY <1>2, <3>1, <3>2 DEF AloneInv
        <4>2. Comes(d, Left(Size[d]))
          BY <1>1, <1>7, <4>1 DEF Has, Kept
        <4>3. Left(Size[d]) \in SUBSET blobs /\ Halves(pair[c]) \ left[c] \subseteq Left(Size[d])
          BY <1>1, <1>2, <3>1, <3>2, LeftKeepsPinned, OwnIsLeft
        <4>4. blobs' = Left(Size[d]) \cup {d}
              /\ older' = (older \cap (Left(Size[d]) \X Left(Size[d]))) \cup (Left(Size[d]) \X {d})
          BY <4>2 DEF Comes
        <4>5. d \in Halves(pair[c])
          BY <1>1, <1>2 DEF SendInv
        <4>6. ASSUME NEW x \in Halves(pair[c]) \ left'[c], NEW y \in blobs' \ Halves(pair[c])
              PROVE  <<y, x>> \in older'
          <5>1. y \in Left(Size[d]) /\ y \in blobs \ Halves(pair[c])
            BY <4>3, <4>4, <4>5
          <5>2. CASE x = d
            BY <4>4, <5>1, <5>2
          <5>3. CASE x # d
            <6>1. x \in Halves(pair[c]) \ left[c]
              BY <2>3, <5>3
            <6>2. x \in Left(Size[d]) /\ <<y, x>> \in older
              BY <3>1, <3>2, <4>3, <5>1, <6>1 DEF AloneInv
            <6> QED
              BY <4>4, <5>1, <6>2
          <5> QED
            BY <5>2, <5>3
        <4>7. Halves(pair[c]) \ left'[c] \subseteq blobs' /\ left'[c] \cap blobs' = {}
          BY <2>3, <4>1, <4>3, <4>4
        <4> QED
          BY <3>2, <4>6, <4>7
      <3>3. CASE e # c
        BY <2>3, <3>1, <3>3 DEF AloneInv
      <3> QED
        BY <3>2, <3>3
    <2> QED
      BY <1>3, <1>4, <1>5, <2>6, <2>7, <2>8
  <1> QED
    BY <1>6, <1>7

\* It gives up: the store, the places and the session as they were.
LEMMA GivesUpKeeps ==
  ASSUME GInv, NEW c \in Conns, Fail(c), UNCHANGED <<store, uploads, session>>
  PROVE  GInv'
  <1> USE DEF GInv
  <1>1. uploading' = uploading /\ up' = up
    BY DEF uploads
  <1>2. /\ phase' \in [Conns -> {"idle", "first", "sending", "ready"}]
        /\ pair' \in [Conns -> Pairs \cup {NoPair}] /\ left' \in [Conns -> SUBSET Dbs]
        /\ alone' \in [Conns -> BOOLEAN] /\ SendInv'
        /\ \A e \in Conns : alone'[e] =>
             e # c /\ alone[e] /\ UNCHANGED <<blobs, older, pair[e], left[e]>>
    BY <1>1, FailKeeps
  <1>3. AloneInv'
    BY <1>2, AloneKept
  <1>4. PlaceInv'
    BY <1>1 DEF PlaceInv, PlacesHeld
  <1>5. StoreTyped' /\ StoreBounded' /\ RunsOnItsPair'
    BY <1>1, <1>2, StoreUntouched DEF StoreTyped
  <1> QED
    BY <1>2, <1>3, <1>4, <1>5

LEMMA DropKeeps ==
  ASSUME GInv, NEW c \in Conns, Drop(c)
  PROVE  GInv'
  <1> USE DEF GInv
  <1>1. UNCHANGED <<store, session>> /\ Abort(c) /\ Fail(c)
    BY DEF Drop
  <1>2. /\ uploading' \in Nat /\ up' \in [Conns -> [db : Dbs, good : BOOLEAN] \cup {NoUpload}]
        /\ PlaceInv' /\ \A e \in Conns \ {c} : up'[e] = up[e]
    BY <1>1, AbortKeeps
  <1>3. /\ phase' \in [Conns -> {"idle", "first", "sending", "ready"}]
        /\ pair' \in [Conns -> Pairs \cup {NoPair}] /\ left' \in [Conns -> SUBSET Dbs]
        /\ alone' \in [Conns -> BOOLEAN] /\ SendInv'
        /\ \A e \in Conns : alone'[e] =>
             e # c /\ alone[e] /\ UNCHANGED <<blobs, older, pair[e], left[e]>>
    BY <1>1, <1>2, FailKeeps
  <1>4. AloneInv'
    BY <1>3, AloneKept
  <1>5. StoreTyped' /\ StoreBounded' /\ RunsOnItsPair'
    BY <1>1, <1>2, <1>3, StoreUntouched DEF StoreTyped
  <1> QED
    BY <1>2, <1>3, <1>4, <1>5

LEMMA StartKeeps ==
  ASSUME GInv, NEW c \in Conns, Start(c)
  PROVE  GInv'
  <1> USE DEF GInv
  <1>1. /\ phase[c] = "ready" /\ CanMake(pair[c]) /\ Prune(pair[c]) /\ Fail(c)
        /\ sess' = "running" /\ on' = pair[c] /\ uploading' = uploading /\ up' = up
    BY DEF Start, uploads
  <1>2. pair[c] \in Pairs \cup {NoPair}
    BY DEF StoreTyped
  <1>3. /\ blobs' \in SUBSET Dbs /\ IsFiniteSet(blobs') /\ older' \subseteq blobs' \X blobs'
        /\ StoreBounded'
    <2>1. PICK past \in SUBSET blobs : Stays(blobs \ (past \ Halves(pair[c])))
      BY <1>1 DEF Prune
    <2> QED
      BY <2>1, StaysKeeps
  <1>4. /\ active' = pair[c]
        /\ sets' = [q \in Pairs |-> IF q # pair[c] THEN "no" ELSE
                                    IF sets[q] = "no" THEN "whole" ELSE sets[q]]
    BY <1>1 DEF Prune
  <1>5. sets' \in [Pairs -> {"no", "whole", "torn"}]
    BY <1>4 DEF StoreTyped
  <1>6. RunsOnItsPair'
    BY <1>1, <1>2, <1>4 DEF RunsOnItsPair
  <1>7. /\ phase' \in [Conns -> {"idle", "first", "sending", "ready"}]
        /\ pair' \in [Conns -> Pairs \cup {NoPair}] /\ left' \in [Conns -> SUBSET Dbs]
        /\ alone' \in [Conns -> BOOLEAN] /\ SendInv'
        /\ \A e \in Conns : alone'[e] =>
             e # c /\ alone[e] /\ UNCHANGED <<blobs, older, pair[e], left[e]>>
    BY <1>1, FailKeeps
  <1>8. AloneInv'
    BY <1>7, AloneKept
  <1>9. PlaceInv'
    BY <1>1 DEF PlaceInv, PlacesHeld
  <1>10. StoreTyped'
    BY <1>1, <1>2, <1>3, <1>4, <1>5, <1>7 DEF StoreTyped
  <1> QED
    BY <1>3, <1>6, <1>7, <1>8, <1>9, <1>10

LEMMA EndKeeps ==
  ASSUME GInv, End
  PROVE  GInv'
  <1> USE DEF GInv
  <1>1. /\ sess' = "none" /\ on' = NoPair /\ blobs' = blobs /\ older' = older /\ sets' = sets
        /\ active' = active /\ uploading' = uploading /\ up' = up
        /\ phase' = phase /\ pair' = pair /\ left' = left /\ alone' = alone
    BY DEF End, store, uploads, shares
  <1>2. StoreTyped'
    BY <1>1 DEF StoreTyped
  <1>3. SendInv' /\ AloneInv'
    BY <1>1 DEF SendInv, AloneInv, Upcoming
  <1>4. PlaceInv' /\ StoreBounded' /\ RunsOnItsPair'
    BY <1>1 DEF PlaceInv, PlacesHeld, StoreBounded, Bytes, RunsOnItsPair
  <1> QED
    BY <1>2, <1>3, <1>4

\* What the next service starts with.
LEMMA GoneKeeps ==
  ASSUME GInv, Gone, UNCHANGED <<blobs, older>>, sets' \in [Pairs -> {"no", "whole", "torn"}]
  PROVE  GInv'
  <1> USE DEF GInv
  <1>1. /\ active' = NoPair /\ uploading' = 0 /\ sess' = "none" /\ on' = NoPair
        /\ up' = [c \in Conns |-> NoUpload]
        /\ phase' = [c \in Conns |-> "idle"] /\ pair' = [c \in Conns |-> NoPair]
        /\ left' = [c \in Conns |-> {}]
    BY DEF Gone
  <1>2. alone' \in [Conns -> BOOLEAN] /\ \A c \in Conns : ~alone'[c]
    BY DEF Gone
  <1>3. up' \in [Conns -> [db : Dbs, good : BOOLEAN] \cup {NoUpload}]
    BY <1>1
  <1>4. StoreTyped'
    BY <1>1, <1>2, <1>3 DEF StoreTyped
  <1>5. SendInv' /\ AloneInv'
    BY <1>1, <1>2 DEF SendInv, AloneInv
  <1>6. PlaceInv'
    <2>1. {c \in Conns : up'[c] # NoUpload} = {}
      BY <1>1
    <2>2. IsFiniteSet({}) /\ Cardinality({}) = 0 /\ 0 <= MaxUploads
      BY FS_EmptySet, GeoStoreAssumption
    <2> QED
      BY <1>1, <2>1, <2>2 DEF PlaceInv, PlacesHeld
  <1>7. StoreBounded' /\ RunsOnItsPair'
    BY <1>1 DEF StoreBounded, Bytes, RunsOnItsPair
  <1> QED
    BY <1>4, <1>5, <1>6, <1>7

LEMMA StutterKeeps ==
  ASSUME GInv, UNCHANGED storeVars
  PROVE  GInv'
  BY DEF GInv, StoreTyped, SendInv, PlaceInv, PlacesHeld, StoreBounded, Bytes, RunsOnItsPair, AloneInv,
         Upcoming, storeVars, store, uploads, shares, session

LEMMA GeoStep ==
  ASSUME GInv, [StoreNext \/ \E c \in Conns : PruneCut(c)]_storeVars
  PROVE  GInv'
  <1>1. ASSUME NEW c \in Conns, ConnNext(c) PROVE GInv'
    <2>1. CASE \E p \in Pairs : Ask(c, p)
      BY <2>1, AskKeeps
    <2>2. CASE SharesNone(c)
      BY <2>2, SharesNoneKeeps
    <2>3. CASE PutFirst(c)
      BY <2>3, PutFirstKeeps
    <2>4. CASE KeepWhole(c)
      BY <2>4, KeepKeeps
    <2>5. CASE Cancel(c) \/ StartRefused(c) \/ StartFails(c)
      BY <2>5, GivesUpKeeps DEF Cancel, StartRefused, StartFails
    <2>6. CASE Drop(c)
      BY <2>6, DropKeeps
    <2>7. CASE Start(c)
      BY <2>7, StartKeeps
    <2> QED
      BY <1>1, <2>1, <2>2, <2>3, <2>4, <2>5, <2>6, <2>7 DEF ConnNext
  <1>2. CASE End
    BY <1>2, EndKeeps
  <1>3. CASE Restart
    BY <1>3, GoneKeeps DEF Restart, GInv, StoreTyped
  <1>4. ASSUME NEW c \in Conns, PruneCut(c) PROVE GInv'
    <2>1. Gone /\ UNCHANGED <<blobs, older>>
      BY <1>4 DEF PruneCut
    <2>2. PICK p \in Pairs :
            sets' = [q \in Pairs |-> IF q = p THEN "torn" ELSE IF q = pair[c] THEN "whole" ELSE sets[q]]
      BY <1>4 DEF PruneCut
    <2>3. sets' \in [Pairs -> {"no", "whole", "torn"}]
      BY <2>2 DEF GInv, StoreTyped
    <2> QED
      BY <2>1, <2>3, GoneKeeps
  <1>5. CASE UNCHANGED storeVars
    BY <1>5, StutterKeeps
  <1> QED
    BY <1>1, <1>2, <1>3, <1>4, <1>5 DEF StoreNext

-----------------------------------------------------------------------------
(* The theorems. *)

\* Wherever the interfaces, their uploads, the sessions and the service's own
\* restarts cross, the inductive invariant stays - a service killed inside
\* prune (geostore.go:313) included.
THEOREM GeoInvariance == CutSpec => []GInv
  <1>1. StoreInit => GInv
    BY GeoInit
  <1>2. GInv /\ [StoreNext \/ \E c \in Conns : PruneCut(c)]_storeVars => GInv'
    BY GeoStep
  <1> QED
    BY <1>1, <1>2, PTL DEF CutSpec

\* What holds of the specification with the worst of its ends holds of that
\* without.
LEMMA SpecIsCutSpec == StoreSpec => CutSpec
  <1>1. [StoreNext]_storeVars => [StoreNext \/ \E c \in Conns : PruneCut(c)]_storeVars
    OBVIOUS
  <1> QED
    BY <1>1, PTL DEF StoreSpec, CutSpec

\* The blobs never take more than maxGeoStore (geoStore.begin, keep and room).
THEOREM GeoStoreIsBounded == StoreSpec => []StoreBounded
  <1>1. GInv => StoreBounded
    BY DEF GInv
  <1> QED
    BY <1>1, SpecIsCutSpec, GeoInvariance, PTL

\* A place among the uploads is held by an upload in progress, and there are no
\* more of them than maxGeoUploads (begin, keep and abort).
THEOREM PlacesAreHeld == StoreSpec => []PlacesHeld
  <1>1. GInv => PlacesHeld
    BY DEF GInv, PlaceInv
  <1> QED
    BY <1>1, SpecIsCutSpec, GeoInvariance, PTL

\* A session's folder is there, and the one prune leaves (use, prune).
THEOREM SessionsPairIsThere == StoreSpec => []RunsOnItsPair
  <1>1. GInv => RunsOnItsPair
    BY DEF GInv
  <1> QED
    BY <1>1, SpecIsCutSpec, GeoInvariance, PTL

\* An interface alone with the store is never refused its own pair: the room of
\* the second is not made of the first (room, and the order missing leaves).
THEOREM OwnPairIsNotEvicted == StoreSpec => []OwnPairIsThere
  <1>1. GInv => OwnPairIsThere
    BY DEF GInv, OwnPairIsThere, SendInv, AloneInv
  <1> QED
    BY <1>1, SpecIsCutSpec, GeoInvariance, PTL

\* No step takes a database of the running session's pair out of the store
\* (room spares what active pins; prune runs when the next session starts).
THEOREM PinnedIsNotEvicted == StoreSpec => PinnedStay
  <1>1. GInv /\ [StoreNext]_storeVars =>
          [sess = "running" /\ sess' = "running" => Halves(on) \cap blobs \subseteq blobs']_storeVars
    <2> SUFFICES ASSUME GInv, StoreNext, sess = "running", sess' = "running"
                 PROVE  Halves(on) \cap blobs \subseteq blobs'
      BY DEF storeVars, store
    <2>1. StoreTyped /\ Pinned = Halves(on)
      BY DEF GInv, RunsOnItsPair, Pinned
    <2>2. ASSUME NEW need PROVE Left(need) \in SUBSET blobs /\ Halves(on) \cap blobs \subseteq Left(need)
      BY <2>1, LeftKeepsPinned
    <2>3. ASSUME NEW c \in Conns, ConnNext(c) PROVE Halves(on) \cap blobs \subseteq blobs'
      <3>1. CASE PutFirst(c)
        BY <2>2, <3>1 DEF PutFirst, Stays
      <3>2. CASE KeepWhole(c)
        BY <2>2, <3>2 DEF KeepWhole, Kept, Comes, Stays
      <3>3. CASE \/ \E p \in Pairs : Ask(c, p)
                 \/ SharesNone(c) \/ Cancel(c) \/ Drop(c) \/ StartRefused(c) \/ StartFails(c)
        BY <3>3 DEF Ask, SharesNone, Cancel, Drop, StartRefused, StartFails, store
      <3>4. CASE Start(c)
        BY <3>4 DEF Start
      <3> QED
        BY <2>3, <3>1, <3>2, <3>3, <3>4 DEF ConnNext
    <2>4. ~End /\ ~Restart
      BY DEF End, Restart, Gone
    <2> QED
      BY <2>3, <2>4 DEF StoreNext
  <1> QED
    BY <1>1, SpecIsCutSpec, GeoInvariance, PTL DEF StoreSpec, PinnedStay

-----------------------------------------------------------------------------
(* The installs of the interface. *)

Tags == 0..MaxTag
Stages == {"idle", "asked", "get", "lock", "aside", "put", "unput", "rollback", "clean",
           "unlock", "installed", "failed"}
Core == <<"xray">>
Ops == [pc : Stages, names : {<<>>, Pair, Core}, tag : Tags, mine : BOOLEAN, at : Nat, old : Seq(Tags)]

\* What is known of an install at each of its stages.
OpInv(p) ==
  LET o == op[p] IN
  /\ o \in Ops
  /\ o.pc # "idle" => o.names \in {Pair, Core} /\ o.tag # 0
  /\ o.pc \in {"asked", "get", "lock"} => o.at = 1 /\ o.old = <<>>
  /\ o.pc = "aside" => o.names = Pair /\ o.at \in {1, 2} /\ Len(o.old) = o.at - 1
  /\ o.pc = "put" => \/ o.names = Pair /\ o.at \in {1, 2} /\ Len(o.old) = o.at
                     \/ o.names = Core /\ o.at = 1 /\ o.old = <<>>
  /\ o.pc = "unput" => o.names = Pair /\ o.at \in {1, 2} /\ Len(o.old) = o.at
  /\ o.pc = "rollback" => o.names = Pair /\ o.at \in {0, 1} /\ Len(o.old) >= o.at
  /\ o.pc = "clean" => \/ o.names = Pair /\ Len(o.old) = 2
                       \/ o.names = Core /\ o.old = <<>>

\* The i-th file of the pair is under way: what was there is moved aside.
Out(p, i) ==
  /\ op[p].names = Pair
  /\ \/ op[p].pc = "aside" /\ i < op[p].at
     \/ op[p].pc \in {"put", "unput", "rollback"} /\ i <= op[p].at

\* Until it is back, it is next to its name.
KeptInv(p) == \A i \in {1, 2} :
  Out(p, i) /\ op[p].old[i] # 0 => op[p].old[i] \in aside[DirOf(p)][Pair[i]]

\* What is under the names meanwhile.
FilesInv(p) == op[p].names = Pair =>
  LET f == file[DirOf(p)] IN
  /\ op[p].pc \in {"put", "unput"} => f[Name(p)] = 0
  /\ op[p].pc \in {"aside", "put", "unput"} /\ op[p].at = 2 => f["geoip"] = op[p].tag
  /\ op[p].pc = "clean" => f["geoip"] = op[p].tag /\ f["geosite"] = op[p].tag

\* A directory with geoip a and geosite b under their names, or back there: of
\* one install, unless a file of another is moved aside.
Fit(d, a, b) == a = b \/ aside[d]["geoip"] \ {a} # {} \/ aside[d]["geosite"] \ {b} # {}
Base(p, i) == IF Out(p, i) THEN op[p].old[i] ELSE file[DirOf(p)][Pair[i]]
FitInv(p) == Fit(DirOf(p), Base(p, 1), Base(p, 2))

ProcInv(p) == OpInv(p) /\ (Committing(p) => KeptInv(p) /\ FilesInv(p) /\ (torn \/ FitInv(p)))

DirInv(d) ==
  \/ torn
  \/ \E p \in Procs : DirOf(p) = d /\ Committing(p)
  \/ Fit(d, file[d]["geoip"], file[d]["geosite"])

LockInv == \A p \in Procs : Committing(p) <=> holder = p

\* A screen that is gone has nothing at work, and nothing that may begin.
ScreenInv == screen = "gone" => ~Running("screen") /\ ~op["screen"].mine

\* What is remembered of the geo releases: the pair put in is the one that was
\* asked for last, and is marked when it is in.
CorePair(v) == file["core"]["geoip"] = v /\ file["core"]["geosite"] = v
MemoryInv ==
  /\ marked <= slot
  /\ op["screen"].pc # "idle" /\ op["screen"].names = Pair => op["screen"].tag = slot /\ marked < slot
  /\ op["screen"].pc = "installed" /\ op["screen"].names = Pair => CorePair(op["screen"].tag)
  /\ marked # 0 /\ marked = slot => CorePair(marked)

IInv ==
  /\ TypeOK /\ torn \in BOOLEAN /\ op = [p \in Procs |-> op[p]]
  /\ \A p \in Procs : ProcInv(p)
  /\ \A d \in Dirs : DirInv(d)
  /\ LockInv /\ ScreenInv /\ MemoryInv

-----------------------------------------------------------------------------
(* The names, and what moves with a step of one install. *)

LEMMA PairIs ==
  /\ Pair[1] = "geoip" /\ Pair[2] = "geosite" /\ Len(Pair) = 2 /\ Pair # Core /\ Pair # <<>>
  /\ Core[1] = "xray" /\ Len(Core) = 1
  BY DEF Pair, Core

LEMMA DirIs == \A p \in Procs : DirOf(p) \in Dirs /\ (DirOf(p) = "core" <=> p = "screen")
  BY InstallAssumption DEF DirOf, Dirs, Procs

LEMMA NoOpIs == NoOp \in Ops /\ NoOp.pc = "idle" /\ ~NoOp.mine /\ 0 \in Tags
  BY InstallAssumption DEF NoOp, Ops, Stages, Tags

\* One install goes on.
LEMMA OpGoes ==
  ASSUME IInv, NEW p \in Procs, NEW e \in Ops, op' = [op EXCEPT ![p] = e]
  PROVE  /\ op'[p] = e /\ op' = [op EXCEPT ![p] = op'[p]] /\ op' = [q \in Procs |-> op'[q]]
         /\ \A q \in Procs \ {p} : op'[q] = op[q]
  BY DEF IInv

\* Whoever is not at its commit is not disturbed by one who is.
LEMMA OthersKeep ==
  ASSUME NEW q \in Procs, ProcInv(q), ~Committing(q), op'[q] = op[q]
  PROVE  ProcInv(q)' /\ ~Committing(q)'
  BY DEF ProcInv, OpInv, Committing

\* A step of the commit that holds the lock.
LEMMA CommitKeeps ==
  ASSUME IInv, NEW p \in Procs, Committing(p),
         op' = [op EXCEPT ![p] = op'[p]], UNCHANGED <<shell, memory, torn>>,
         file' \in [Dirs -> [Names -> Tags]], aside' \in [Dirs -> [Names -> SUBSET (1..MaxTag)]],
         \A d \in Dirs \ {DirOf(p)} : file'[d] = file[d] /\ aside'[d] = aside[d],
         holder' = (IF Committing(p)' THEN p ELSE "nobody"),
         ProcInv(p)', Committing(p)' \/ DirInv(DirOf(p))',
         p = "screen" =>
           /\ op'[p].pc # "idle" /\ op'[p].tag = op[p].tag /\ op'[p].names = op[p].names
           /\ op[p].names = Pair \/ \A n \in {"geoip", "geosite"} : file'[DirOf(p)][n] = file[DirOf(p)][n]
           /\ op'[p].pc = "installed" /\ op[p].names = Pair => CorePair(op[p].tag)'
  PROVE  IInv'
  <1>1. /\ screen' = screen /\ stage' = stage /\ core' = core /\ slot' = slot /\ marked' = marked
        /\ torn' = torn
    BY DEF shell, memory
  <1>2. \A q \in Procs \ {p} : op'[q] = op[q] /\ ~Committing(q)
    BY DEF IInv, LockInv
  <1>3. TypeOK' /\ torn' \in BOOLEAN
    <2>1. holder' \in Procs \cup {"nobody"}
      OBVIOUS
    <2> QED
      BY <1>1, <2>1 DEF IInv, TypeOK, Tags
  <1>4. op' = [q \in Procs |-> op'[q]]
    BY DEF IInv
  <1>5. \A q \in Procs : ProcInv(q)'
    BY <1>2, OthersKeep DEF IInv
  <1>6. LockInv'
    <2>1. "nobody" \notin Procs
      BY InstallAssumption DEF Procs
    <2>2. \A q \in Procs \ {p} : ~Committing(q)'
      BY <1>2, OthersKeep DEF IInv
    <2> QED
      BY <2>1, <2>2 DEF LockInv
  <1>7. ASSUME NEW d \in Dirs PROVE DirInv(d)'
    <2>1. CASE d = DirOf(p)
      BY <2>1 DEF DirInv
    <2>2. CASE d # DirOf(p)
      <3>1. DirInv(d) /\ file'[d] = file[d] /\ aside'[d] = aside[d]
        BY <2>2 DEF IInv
      <3>2. \A q \in Procs : DirOf(q) = d => ~Committing(q)
        BY <1>2, <2>2
      <3> QED
        BY <1>1, <3>1, <3>2 DEF DirInv, Fit
    <2> QED
      BY <2>1, <2>2
  <1>8. ScreenInv'
    <2>1. p = "screen" => screen # "gone"
      BY DEF IInv, ScreenInv, Running
    <2>2. "screen" \in Procs
      BY DEF Procs
    <2>3. p # "screen" => op'["screen"] = op["screen"]
      BY <1>2, <2>2
    <2> QED
      BY <1>1, <2>1, <2>3 DEF IInv, ScreenInv, Running, Committing
  <1>9. MemoryInv'
    <2>1. MemoryInv /\ "screen" \in Procs /\ marked \in Nat /\ slot \in Nat
      BY DEF IInv, Procs, TypeOK
    <2>2. CASE p # "screen"
      <3>1. op'["screen"] = op["screen"] /\ file'["core"] = file["core"]
        BY <1>2, <2>1, <2>2, DirIs DEF Dirs
      <3> QED
        BY <1>1, <2>1, <3>1 DEF MemoryInv, CorePair
    <2>3. CASE p = "screen"
      <3>1. DirOf(p) = "core" /\ op[p].pc # "idle"
        BY <2>3 DEF DirOf, Committing
      <3>2. CASE op[p].names = Pair
        BY <1>1, <2>1, <2>3, <3>1, <3>2 DEF MemoryInv
      <3>3. CASE op[p].names # Pair
        BY <1>1, <2>1, <2>3, <3>1, <3>3 DEF MemoryInv, CorePair
      <3> QED
        BY <3>2, <3>3
    <2> QED
      BY <2>2, <2>3
  <1> QED
    BY <1>3, <1>4, <1>5, <1>6, <1>7, <1>8, <1>9 DEF IInv

\* An install that is asked for, fetched or told of: nothing on the disk moves.
LEMMA AskedKeeps ==
  ASSUME IInv, NEW p \in Procs, ~Committing(p), ~Committing(p)', OpInv(p)',
         op' = [op EXCEPT ![p] = op'[p]], UNCHANGED <<disk, holder, torn>>,
         screen' \in {"gone", "open", "closing"}, stage' \in {"menu", "releases", "working", "done"},
         {slot', marked'} \subseteq Tags, ScreenInv', MemoryInv'
  PROVE  IInv'
  <1>1. file' = file /\ aside' = aside /\ holder' = holder /\ torn' = torn
    BY DEF disk
  <1>2. \A q \in Procs \ {p} : op'[q] = op[q]
    BY DEF IInv
  <1>3. TypeOK' /\ torn' \in BOOLEAN
    BY <1>1 DEF IInv, TypeOK, Tags
  <1>4. op' = [q \in Procs |-> op'[q]]
    BY DEF IInv
  <1>5. ASSUME NEW q \in Procs \ {p} PROVE (Committing(q)' <=> Committing(q)) /\ ProcInv(q)'
    <2>1. op'[q] = op[q] /\ ProcInv(q)
      BY <1>2 DEF IInv
    <2>2. (Committing(q)' <=> Committing(q)) /\ (OpInv(q)' <=> OpInv(q))
      BY <2>1 DEF Committing, OpInv
    <2>3. \A i \in {1, 2} : (Out(q, i)' <=> Out(q, i)) /\ Base(q, i)' = Base(q, i)
      BY <1>1, <2>1 DEF Base, Out
    <2>4. KeptInv(q)' <=> KeptInv(q)
      BY <1>1, <2>1, <2>3 DEF KeptInv
    <2>5. FilesInv(q)' <=> FilesInv(q)
      BY <1>1, <2>1 DEF FilesInv, Name
    <2>6. FitInv(q)' <=> FitInv(q)
      BY <1>1, <2>3 DEF FitInv, Fit
    <2> QED
      BY <1>1, <2>1, <2>2, <2>4, <2>5, <2>6 DEF ProcInv
  <1>6. ProcInv(p)'
    BY DEF ProcInv
  <1>7. LockInv'
    BY <1>1, <1>5 DEF IInv, LockInv
  <1>8. \A d \in Dirs : DirInv(d)'
    <2>1. \A q \in Procs : Committing(q)' <=> Committing(q)
      BY <1>5
    <2> QED
      BY <1>1, <2>1 DEF IInv, DirInv, Fit
  <1> QED
    BY <1>3, <1>4, <1>5, <1>6, <1>7, <1>8 DEF IInv

-----------------------------------------------------------------------------
(* The steps of a commit. *)

LEMMA LockKeeps ==
  ASSUME IInv, NEW p \in Procs, Lock(p)
  PROVE  IInv'
  <1> DEFINE to == IF OneFile(p) THEN "put" ELSE "aside"
  <1>1. /\ op[p].pc = "lock" /\ holder = "nobody" /\ holder' = p
        /\ op' = [op EXCEPT ![p].pc = to] /\ UNCHANGED <<disk, shell, memory, bounds>>
    BY DEF Lock, At, LockFree, Goes
  <1>2. /\ file' = file /\ aside' = aside /\ torn' = torn
        /\ screen' = screen /\ stage' = stage /\ slot' = slot /\ marked' = marked
    BY <1>1 DEF disk, shell, memory, bounds
  <1>3. OpInv(p) /\ \A q \in Procs : ~Committing(q)
    <2>1. "nobody" \notin Procs
      BY InstallAssumption DEF Procs
    <2> QED
      BY <1>1, <2>1 DEF IInv, ProcInv, LockInv
  <1>4. /\ op'[p].pc = to /\ op'[p].names = op[p].names /\ op'[p].tag = op[p].tag
        /\ op'[p].mine = op[p].mine /\ op'[p].at = op[p].at /\ op'[p].old = op[p].old
        /\ op'[p] \in Ops
        /\ \A q \in Procs \ {p} : op'[q] = op[q]
        /\ op' = [q \in Procs |-> op'[q]]
    <2> DEFINE e == [op[p] EXCEPT !.pc = to]
    <2>1. op[p] \in Ops /\ to \in Stages
      BY <1>3 DEF OpInv, Stages
    <2>2. /\ e \in Ops /\ e.pc = to /\ e.names = op[p].names /\ e.tag = op[p].tag
          /\ e.mine = op[p].mine /\ e.at = op[p].at /\ e.old = op[p].old
      BY <2>1 DEF Ops
    <2>3. op' = [op EXCEPT ![p] = e]
      BY <1>1
    <2> HIDE DEF e, to
    <2> QED
      BY <2>2, <2>3, OpGoes
  <1>5. OpInv(p)' /\ Committing(p)'
    BY <1>1, <1>3, <1>4, PairIs DEF OpInv, OneFile, Committing, Core
  <1>6. \A i \in {1, 2} : ~Out(p, i)'
    BY <1>1, <1>3, <1>4, PairIs DEF OpInv, OneFile, Out, Core
  <1>7. KeptInv(p)'
    BY <1>6 DEF KeptInv
  <1>8. FilesInv(p)'
    BY <1>1, <1>3, <1>4, PairIs DEF FilesInv, OpInv, OneFile, Core
  <1>9. torn' \/ FitInv(p)'
    <2>1. DirInv(DirOf(p))
      BY DirIs DEF IInv
    <2> QED
      BY <1>2, <1>3, <1>6, <2>1, PairIs DEF DirInv, FitInv, Fit, Base
  <1>10. \A q \in Procs : ProcInv(q)'
    BY <1>3, <1>4, <1>5, <1>7, <1>8, <1>9, OthersKeep DEF ProcInv, IInv
  <1>11. LockInv'
    BY <1>1, <1>3, <1>4, <1>5, OthersKeep DEF LockInv, IInv
  <1>12. \A d \in Dirs : DirInv(d)'
    BY <1>2, <1>3 DEF IInv, DirInv, Fit
  <1>13. ScreenInv'
    <2>1. "screen" \in Procs
      BY DEF Procs
    <2>2. /\ Running("screen")' => Running("screen")
          /\ op'["screen"].mine = op["screen"].mine
      BY <1>1, <1>4, <2>1 DEF Running, Committing
    <2> QED
      BY <1>2, <2>2 DEF IInv, ScreenInv
  <1>14. MemoryInv'
    <2>1. "screen" \in Procs
      BY DEF Procs
    <2>2. /\ op'["screen"].names = op["screen"].names /\ op'["screen"].tag = op["screen"].tag
          /\ op'["screen"].pc # "idle" => op["screen"].pc # "idle"
          /\ op'["screen"].pc = "installed" => op["screen"].pc = "installed"
      BY <1>1, <1>4, <2>1
    <2> QED
      BY <1>2, <2>2 DEF IInv, MemoryInv, CorePair
  <1>15. TypeOK' /\ torn' \in BOOLEAN
    BY <1>1, <1>2 DEF IInv, TypeOK
  <1> QED
    BY <1>4, <1>10, <1>11, <1>12, <1>13, <1>14, <1>15 DEF IInv

LEMMA MoveAsideKeeps ==
  ASSUME IInv, NEW p \in Procs, MoveAside(p)
  PROVE  IInv'
  <1> DEFINE d == DirOf(p)
             o == op[p]
  <1>1. o.pc = "aside" /\ Committing(p) /\ holder' = holder /\ UNCHANGED <<shell, memory, torn>>
    BY DEF MoveAside, At, Committing
  <1>2. /\ OpInv(p) /\ KeptInv(p) /\ FilesInv(p) /\ (torn \/ FitInv(p)) /\ d \in Dirs /\ holder = p
        /\ file \in [Dirs -> [Names -> Tags]] /\ aside \in [Dirs -> [Names -> SUBSET (1..MaxTag)]]
    BY <1>1, DirIs DEF IInv, ProcInv, LockInv, TypeOK, Tags
  <1>3. /\ o.names = Pair /\ o.at \in {1, 2} /\ Len(o.old) = o.at - 1 /\ o.old \in Seq(Tags)
        /\ Name(p) = Pair[o.at] /\ Name(p) \in Names /\ Here(p) = file[d][Name(p)] /\ Here(p) \in Tags
    <2>1. o.names = Pair /\ o.at \in {1, 2} /\ Len(o.old) = o.at - 1 /\ o.old \in Seq(Tags)
      BY <1>1, <1>2 DEF OpInv, Ops
    <2>2. Name(p) = Pair[o.at] /\ Name(p) \in Names
      BY <2>1, PairIs DEF Name, Names
    <2> QED
      BY <1>2, <2>1, <2>2 DEF Here
  <1>4. CASE /\ op' = [op EXCEPT ![p].pc = "put", ![p].old = Append(@, Here(p))]
             /\ IF Here(p) = 0 THEN UNCHANGED disk ELSE Keep(p, Name(p), Here(p)) /\ Put(p, Name(p), 0)
    <2>1. op' = [op EXCEPT ![p] = [o EXCEPT !.pc = "put", !.old = Append(o.old, Here(p))]]
      BY <1>4
    <2>2. /\ op'[p].pc = "put" /\ op'[p].names = Pair /\ op'[p].tag = o.tag /\ op'[p].mine = o.mine
          /\ op'[p].at = o.at /\ op'[p].old = Append(o.old, Here(p))
          /\ op'[p] \in Ops
          /\ op' = [op EXCEPT ![p] = op'[p]]
      <3> DEFINE e == [o EXCEPT !.pc = "put", !.old = Append(o.old, Here(p))]
      <3>1. "put" \in Stages /\ o \in Ops /\ Append(o.old, Here(p)) \in Seq(Tags)
        BY <1>2, <1>3 DEF OpInv, Stages
      <3>2. /\ e \in Ops /\ e.pc = "put" /\ e.names = Pair /\ e.tag = o.tag
            /\ e.mine = o.mine /\ e.at = o.at /\ e.old = Append(o.old, Here(p))
        BY <1>3, <3>1 DEF Ops
      <3>3. op' = [op EXCEPT ![p] = e]
        BY <2>1
      <3> HIDE DEF e
      <3> QED
        BY <3>2, <3>3, OpGoes
    <2>3. /\ Len(op'[p].old) = o.at /\ op'[p].old[o.at] = Here(p)
          /\ \A i \in {1, 2} : i < o.at => op'[p].old[i] = o.old[i]
      BY <1>3, <2>2
    <2>4. OpInv(p)' /\ Committing(p)'
      BY <1>1, <1>2, <1>3, <2>2, <2>3 DEF OpInv, Committing
    <2>5. /\ file' = [file EXCEPT ![d] = [file[d] EXCEPT ![Name(p)] = 0]]
          /\ aside' = [aside EXCEPT ![d] = [aside[d] EXCEPT ![Name(p)] =
                         IF Here(p) = 0 THEN @ ELSE @ \cup {Here(p)}]]
      <3>1. CASE Here(p) = 0
        <4>1. file' = file /\ aside' = aside
          BY <1>4, <3>1 DEF disk
        <4>2. [file[d] EXCEPT ![Name(p)] = 0] = file[d]
          BY <1>2, <1>3, <3>1
        <4>3. [aside[d] EXCEPT ![Name(p)] = @] = aside[d]
          BY <1>2, <1>3
        <4> QED
          BY <1>2, <3>1, <4>1, <4>2, <4>3
      <3>2. CASE Here(p) # 0
        BY <1>4, <3>2 DEF Keep, Put
      <3> QED
        BY <3>1, <3>2
    <2>6. /\ file' \in [Dirs -> [Names -> Tags]] /\ aside' \in [Dirs -> [Names -> SUBSET (1..MaxTag)]]
          /\ \A e \in Dirs \ {d} : file'[e] = file[e] /\ aside'[e] = aside[e]
          /\ file'[d][Name(p)] = 0
          /\ aside'[d][Name(p)] = aside[d][Name(p)] \cup ({Here(p)} \ {0})
          /\ \A n \in Names \ {Name(p)} : file'[d][n] = file[d][n] /\ aside'[d][n] = aside[d][n]
      <3>1. 0 \in Tags /\ (Here(p) # 0 => Here(p) \in 1..MaxTag)
        BY <1>3, InstallAssumption DEF Tags
      <3>2. file'[d] = [file[d] EXCEPT ![Name(p)] = 0] /\ file'[d] \in [Names -> Tags]
        BY <1>2, <1>3, <2>5, <3>1
      <3>3. /\ aside'[d] = [aside[d] EXCEPT ![Name(p)] = IF Here(p) = 0 THEN @ ELSE @ \cup {Here(p)}]
            /\ aside'[d] \in [Names -> SUBSET (1..MaxTag)]
        BY <1>2, <1>3, <2>5, <3>1
      <3> QED
        BY <1>2, <1>3, <2>5, <3>2, <3>3
    <2>7. \A i \in {1, 2} : Out(p, i)' <=> i <= o.at
      BY <1>3, <2>2 DEF Out
    <2>8. \A i \in {1, 2} : Out(p, i) <=> i < o.at
      BY <1>1, <1>3 DEF Out
    <2>9. \A i \in {1, 2} : i # o.at => Pair[i] \in Names \ {Name(p)}
      BY <1>3, PairIs DEF Names
    <2>10. KeptInv(p)'
      <3> SUFFICES ASSUME NEW i \in {1, 2}, i <= o.at, op'[p].old[i] # 0
                   PROVE  op'[p].old[i] \in aside'[d][Pair[i]]
        BY <2>7 DEF KeptInv
      <3>1. CASE i = o.at
        BY <1>3, <2>3, <2>6, <3>1
      <3>2. CASE i < o.at
        <4>1. Out(p, i) /\ op'[p].old[i] = o.old[i] /\ Pair[i] \in Names \ {Name(p)}
          BY <1>3, <2>3, <2>8, <2>9, <3>2
        <4>2. aside'[d][Pair[i]] = aside[d][Pair[i]]
          BY <2>6, <4>1
        <4> QED
          BY <1>2, <4>1, <4>2 DEF KeptInv
      <3> QED
        BY <1>3, <3>1, <3>2
    <2>11. FilesInv(p)'
      <3>1. Name(p)' = Name(p)
        BY <2>2, <1>3 DEF Name
      <3>2. o.at = 2 => file[d]["geoip"] = o.tag /\ "geoip" \in Names \ {Name(p)}
        BY <1>1, <1>2, <1>3, <2>9, PairIs DEF FilesInv
      <3> QED
        BY <2>2, <2>6, <3>1, <3>2 DEF FilesInv
    <2>12. torn' \/ FitInv(p)'
      <3>1. \A i \in {1, 2} : Base(p, i)' = Base(p, i)
        <4> SUFFICES ASSUME NEW i \in {1, 2} PROVE Base(p, i)' = Base(p, i)
          OBVIOUS
        <4>1. CASE i < o.at
          <5>1. Out(p, i) /\ Out(p, i)' /\ op'[p].old[i] = o.old[i]
            BY <1>3, <2>3, <2>7, <2>8, <4>1
          <5> QED
            BY <5>1 DEF Base
        <4>2. CASE i = o.at
          BY <1>3, <2>3, <2>7, <2>8, <4>2 DEF Base
        <4>3. CASE i > o.at
          BY <1>3, <2>6, <2>7, <2>8, <2>9, <4>3 DEF Base
        <4> QED
          BY <1>3, <4>1, <4>2, <4>3
      <3>2. \A n \in Names : aside[d][n] \subseteq aside'[d][n]
        BY <2>6
      <3> QED
        BY <1>1, <1>2, <3>1, <3>2 DEF FitInv, Fit, Names
    <2>13. ProcInv(p)'
      BY <2>4, <2>10, <2>11, <2>12 DEF ProcInv
    <2>14. op'[p].pc # "idle" /\ op'[p].pc # "installed" /\ op'[p].tag = o.tag /\ op'[p].names = o.names
      BY <1>3, <2>2
    <2> QED
      BY <1>1, <1>2, <1>3, <2>2, <2>4, <2>6, <2>13, <2>14, CommitKeeps
  <1>5. CASE op' = [op EXCEPT ![p].pc = "rollback", ![p].at = @ - 1] /\ UNCHANGED disk
    <2>1. op' = [op EXCEPT ![p] = [o EXCEPT !.pc = "rollback", !.at = o.at - 1]]
      BY <1>5
    <2>2. /\ op'[p].pc = "rollback" /\ op'[p].names = Pair /\ op'[p].tag = o.tag /\ op'[p].mine = o.mine
          /\ op'[p].at = o.at - 1 /\ op'[p].old = o.old
          /\ op'[p] \in Ops
          /\ op' = [op EXCEPT ![p] = op'[p]]
      <3> DEFINE e == [o EXCEPT !.pc = "rollback", !.at = o.at - 1]
      <3>1. "rollback" \in Stages /\ o \in Ops /\ o.at - 1 \in Nat
        BY <1>2, <1>3 DEF OpInv, Stages
      <3>2. /\ e \in Ops /\ e.pc = "rollback" /\ e.names = Pair /\ e.tag = o.tag
            /\ e.mine = o.mine /\ e.at = o.at - 1 /\ e.old = o.old
        BY <1>3, <3>1 DEF Ops
      <3>3. op' = [op EXCEPT ![p] = e]
        BY <2>1
      <3> HIDE DEF e
      <3> QED
        BY <3>2, <3>3, OpGoes
    <2>3. OpInv(p)' /\ Committing(p)'
      BY <1>1, <1>2, <1>3, <2>2 DEF OpInv, Committing
    <2>4. file' = file /\ aside' = aside
      BY <1>5 DEF disk
    <2>5. \A i \in {1, 2} : (Out(p, i)' <=> Out(p, i)) /\ Base(p, i)' = Base(p, i)
      BY <1>1, <1>3, <2>2, <2>4 DEF Out, Base
    <2>6. KeptInv(p)'
      BY <1>2, <2>2, <2>4, <2>5 DEF KeptInv
    <2>7. FilesInv(p)'
      BY <2>2 DEF FilesInv
    <2>8. torn' \/ FitInv(p)'
      BY <1>1, <1>2, <2>4, <2>5 DEF FitInv, Fit
    <2>9. ProcInv(p)'
      BY <2>3, <2>6, <2>7, <2>8 DEF ProcInv
    <2>10. op'[p].pc # "idle" /\ op'[p].pc # "installed" /\ op'[p].tag = o.tag /\ op'[p].names = o.names
      BY <1>3, <2>2
    <2> QED
      BY <1>1, <1>2, <1>3, <2>2, <2>3, <2>4, <2>9, <2>10, CommitKeeps
  <1> QED
    BY <1>4, <1>5 DEF MoveAside

LEMMA AtCommit ==
  ASSUME IInv, NEW p \in Procs, Committing(p)
  PROVE  /\ op[p] \in Ops /\ OpInv(p) /\ KeptInv(p) /\ FilesInv(p) /\ (torn \/ FitInv(p))
         /\ DirOf(p) \in Dirs /\ holder = p /\ op[p].tag \in 1..MaxTag
         /\ file \in [Dirs -> [Names -> Tags]] /\ aside \in [Dirs -> [Names -> SUBSET (1..MaxTag)]]
  <1>1. OpInv(p) /\ op[p] \in Ops
    BY DEF IInv, ProcInv, OpInv
  <1>2. op[p].tag \in Tags /\ op[p].tag # 0
    BY <1>1 DEF OpInv, Ops, Committing
  <1> QED
    BY <1>1, <1>2, DirIs, InstallAssumption DEF IInv, ProcInv, LockInv, TypeOK, Tags

LEMMA PutInKeeps ==
  ASSUME IInv, NEW p \in Procs, PutIn(p)
  PROVE  IInv'
  <1> DEFINE d == DirOf(p)
             o == op[p]
  <1>1. o.pc = "put" /\ Committing(p) /\ holder' = holder /\ UNCHANGED <<shell, memory, torn>>
    BY DEF PutIn, At, Committing
  <1>2. /\ o \in Ops /\ OpInv(p) /\ KeptInv(p) /\ FilesInv(p) /\ (torn \/ FitInv(p))
        /\ d \in Dirs /\ holder = p /\ o.tag \in 1..MaxTag
        /\ file \in [Dirs -> [Names -> Tags]] /\ aside \in [Dirs -> [Names -> SUBSET (1..MaxTag)]]
    BY <1>1, AtCommit
  <1>3. /\ \/ o.names = Pair /\ o.at \in {1, 2} /\ Len(o.old) = o.at
           \/ o.names = Core /\ o.at = 1 /\ o.old = <<>>
        /\ (OneFile(p) <=> o.names = Core)
    BY <1>1, <1>2 DEF OpInv, OneFile, Core
  <1>4. Name(p) = o.names[o.at] /\ Name(p) \in Names /\ (o.names = Core => Name(p) = "xray")
    BY <1>3, PairIs DEF Name, Names
  <1>5. CASE Put(p, Name(p), o.tag) /\ op' = [op EXCEPT ![p] = NextFile(p)] /\ aside' = aside
    <2>1. /\ file' \in [Dirs -> [Names -> Tags]] /\ \A e \in Dirs \ {d} : file'[e] = file[e]
          /\ file'[d][Name(p)] = o.tag /\ \A n \in Names \ {Name(p)} : file'[d][n] = file[d][n]
      <3>1. file' = [file EXCEPT ![d] = [file[d] EXCEPT ![Name(p)] = o.tag]] /\ o.tag \in Tags
        BY <1>2, <1>5 DEF Put, Tags
      <3>2. file'[d] = [file[d] EXCEPT ![Name(p)] = o.tag] /\ file'[d] \in [Names -> Tags]
        BY <1>2, <1>4, <3>1
      <3> QED
        BY <1>2, <1>4, <3>1, <3>2
    <2>2. CASE o.names = Pair /\ o.at = 1
      <3> DEFINE e == [o EXCEPT !.pc = "aside", !.at = 2]
      <3>1. NextFile(p) = e
        BY <2>2, PairIs DEF NextFile
      <3>2. /\ e \in Ops /\ e.pc = "aside" /\ e.names = Pair /\ e.tag = o.tag /\ e.mine = o.mine
            /\ e.at = 2 /\ e.old = o.old
        BY <1>2, <2>2 DEF Ops, Stages
      <3>3. op' = [op EXCEPT ![p] = e]
        BY <1>5, <3>1
      <3> HIDE DEF e
      <3>4. /\ op'[p] \in Ops /\ op'[p].pc = "aside" /\ op'[p].names = Pair /\ op'[p].tag = o.tag
            /\ op'[p].at = 2 /\ op'[p].old = o.old /\ op' = [op EXCEPT ![p] = op'[p]]
        BY <3>2, <3>3, OpGoes
      <3>5. OpInv(p)' /\ Committing(p)'
        BY <1>2, <1>3, <2>2, <3>4, PairIs DEF OpInv, Committing
      <3>6. Name(p) = "geoip" /\ "geosite" \in Names \ {Name(p)}
        BY <1>4, <2>2, PairIs DEF Names
      <3>7. \A i \in {1, 2} : (Out(p, i)' <=> Out(p, i)) /\ Base(p, i)' = Base(p, i)
        <4>1. \A i \in {1, 2} : (Out(p, i)' <=> i = 1) /\ (Out(p, i) <=> i = 1)
          BY <1>1, <2>2, <3>4 DEF Out
        <4>2. Base(p, 1)' = Base(p, 1)
          BY <3>4, <4>1 DEF Base
        <4>3. Base(p, 2)' = Base(p, 2)
          BY <2>1, <3>6, <4>1, PairIs DEF Base
        <4> QED
          BY <4>1, <4>2, <4>3
      <3>8. KeptInv(p)'
        BY <1>2, <1>5, <3>4, <3>7 DEF KeptInv
      <3>9. FilesInv(p)'
        BY <2>1, <3>4, <3>6 DEF FilesInv
      <3>10. torn' \/ FitInv(p)'
        BY <1>1, <1>2, <1>5, <3>7 DEF FitInv, Fit
      <3>11. ProcInv(p)'
        BY <3>5, <3>8, <3>9, <3>10 DEF ProcInv
      <3>12. op'[p].pc # "idle" /\ op'[p].pc # "installed" /\ op'[p].names = o.names
        BY <2>2, <3>4
      <3> QED
        BY <1>1, <1>2, <1>5, <2>1, <2>2, <3>4, <3>5, <3>11, <3>12, CommitKeeps
    <2>3. CASE o.names = Core \/ o.at = 2
      <3> DEFINE e == [o EXCEPT !.pc = "clean"]
      <3>1. NextFile(p) = e
        <4>1. ~(o.at < Len(o.names))
          <5>1. CASE o.names = Core
            BY <1>3, <5>1, PairIs
          <5>2. CASE o.names = Pair /\ o.at = 2
            BY <5>2, PairIs
          <5> QED
            BY <1>3, <2>3, <5>1, <5>2
        <4> QED
          BY <4>1 DEF NextFile
      <3>2. /\ e \in Ops /\ e.pc = "clean" /\ e.names = o.names /\ e.tag = o.tag /\ e.mine = o.mine
            /\ e.at = o.at /\ e.old = o.old
        BY <1>2, <2>3 DEF Ops, Stages
      <3>3. op' = [op EXCEPT ![p] = e]
        BY <1>5, <3>1
      <3> HIDE DEF e
      <3>4. /\ op'[p] \in Ops /\ op'[p].pc = "clean" /\ op'[p].names = o.names /\ op'[p].tag = o.tag
            /\ op'[p].at = o.at /\ op'[p].old = o.old /\ op' = [op EXCEPT ![p] = op'[p]]
        BY <3>2, <3>3, OpGoes
      <3>5. OpInv(p)' /\ Committing(p)'
        <4>1. (o.names = Pair /\ Len(o.old) = 2) \/ (o.names = Core /\ o.old = <<>>)
          BY <1>3, <2>3, PairIs
        <4> QED
          BY <1>2, <3>4, <4>1 DEF OpInv, Committing
      <3>6. \A i \in {1, 2} : ~Out(p, i)'
        BY <3>4 DEF Out
      <3>7. KeptInv(p)'
        BY <3>6 DEF KeptInv
      <3>8. o.names = Pair => file'[d]["geoip"] = o.tag /\ file'[d]["geosite"] = o.tag
        <4>1. o.names = Pair => o.at = 2 /\ Name(p) = "geosite" /\ "geoip" \in Names \ {Name(p)}
          BY <1>3, <1>4, <2>3, PairIs DEF Names
        <4> QED
          BY <1>1, <1>2, <2>1, <4>1 DEF FilesInv
      <3>9. FilesInv(p)'
        BY <3>4, <3>8 DEF FilesInv
      <3>10. o.names = Core => \A n \in {"geoip", "geosite"} : file'[d][n] = file[d][n]
        BY <1>4, <2>1 DEF Names
      <3>11. torn' \/ FitInv(p)'
        <4>1. CASE o.names = Pair
          BY <3>6, <3>8, <4>1, PairIs DEF FitInv, Fit, Base
        <4>2. CASE o.names = Core
          <5>1. \A i \in {1, 2} : ~Out(p, i)
            BY <4>2, PairIs DEF Out
          <5>2. Base(p, 1)' = Base(p, 1) /\ Base(p, 2)' = Base(p, 2)
            BY <3>6, <3>10, <4>2, <5>1, PairIs DEF Base
          <5> QED
            BY <1>1, <1>2, <1>5, <5>2 DEF FitInv, Fit
        <4> QED
          BY <1>3, <4>1, <4>2
      <3>12. ProcInv(p)'
        BY <3>5, <3>7, <3>9, <3>11 DEF ProcInv
      <3>13. op'[p].pc # "idle" /\ op'[p].pc # "installed"
        BY <3>4
      <3> QED
        BY <1>1, <1>2, <1>3, <1>5, <2>1, <3>4, <3>5, <3>10, <3>12, <3>13, CommitKeeps
    <2> QED
      BY <1>3, <2>2, <2>3
  <1>6. CASE (IF OneFile(p) THEN Goes(p, "unlock") ELSE Goes(p, "unput")) /\ UNCHANGED disk
    <2> DEFINE to == IF OneFile(p) THEN "unlock" ELSE "unput"
               e == [o EXCEPT !.pc = to]
    <2>1. file' = file /\ aside' = aside /\ op' = [op EXCEPT ![p] = e]
      BY <1>6 DEF disk, Goes
    <2>2. to \in {"unlock", "unput"} /\ (o.names = Core => to = "unlock") /\ (o.names = Pair => to = "unput")
      BY <1>3, PairIs
    <2> HIDE DEF to
    <2>3. /\ e \in Ops /\ e.pc = to /\ e.names = o.names /\ e.tag = o.tag /\ e.mine = o.mine
          /\ e.at = o.at /\ e.old = o.old
      BY <1>2, <2>2 DEF Ops, Stages
    <2> HIDE DEF e
    <2>4. /\ op'[p] \in Ops /\ op'[p].pc = to /\ op'[p].names = o.names /\ op'[p].tag = o.tag
          /\ op'[p].at = o.at /\ op'[p].old = o.old /\ op' = [op EXCEPT ![p] = op'[p]]
      BY <2>1, <2>3, OpGoes
    <2>5. OpInv(p)' /\ Committing(p)'
      BY <1>2, <1>3, <2>2, <2>4, PairIs DEF OpInv, Committing
    <2>6. \A i \in {1, 2} : (Out(p, i)' <=> Out(p, i)) /\ Base(p, i)' = Base(p, i)
      <3>1. \A i \in {1, 2} : Out(p, i)' <=> Out(p, i)
        BY <1>1, <1>3, <2>2, <2>4, PairIs DEF Out
      <3> QED
        BY <2>1, <2>4, <3>1 DEF Base
    <2>7. KeptInv(p)'
      BY <1>2, <2>1, <2>4, <2>6 DEF KeptInv
    <2>8. FilesInv(p)'
      BY <1>1, <1>2, <2>1, <2>2, <2>4 DEF FilesInv, Name
    <2>9. torn' \/ FitInv(p)'
      BY <1>1, <1>2, <2>1, <2>6 DEF FitInv, Fit
    <2>10. ProcInv(p)'
      BY <2>5, <2>7, <2>8, <2>9 DEF ProcInv
    <2>11. op'[p].pc # "idle" /\ op'[p].pc # "installed"
      BY <2>2, <2>4
    <2> QED
      BY <1>1, <1>2, <2>1, <2>4, <2>5, <2>10, <2>11, CommitKeeps
  <1> QED
    BY <1>5, <1>6 DEF PutIn

\* What was under the name goes back, or stays next to it.
LEMMA BackKeeps ==
  ASSUME IInv, NEW p \in Procs, op[p].pc \in {"unput", "rollback"}, op[p].at # 0,
         op' = [op EXCEPT ![p].pc = "rollback", ![p].at = @ - 1],
         \/ Old(p) = 0 /\ op[p].pc = "unput" /\ UNCHANGED <<disk, faults>>
         \/ PutBack(p, Old(p)),
         holder' = holder, UNCHANGED <<shell, memory, torn>>
  PROVE  IInv'
  <1> DEFINE d == DirOf(p)
             o == op[p]
             v == Old(p)
  <1>1. Committing(p)
    BY DEF Committing
  <1>2. /\ o \in Ops /\ OpInv(p) /\ KeptInv(p) /\ FilesInv(p) /\ (torn \/ FitInv(p))
        /\ d \in Dirs /\ holder = p
        /\ file \in [Dirs -> [Names -> Tags]] /\ aside \in [Dirs -> [Names -> SUBSET (1..MaxTag)]]
    BY <1>1, AtCommit
  <1> PICK k \in {1, 2} : k = op[p].at
    BY <1>2 DEF OpInv
  <1> DEFINE n == Pair[k]
             e == [o EXCEPT !.pc = "rollback", !.at = k - 1]
  <1>3. /\ o.names = Pair /\ (o.pc = "rollback" => k = 1) /\ Len(o.old) >= k
        /\ o.old \in Seq(Tags) /\ n \in Names /\ Name(p) = n /\ v = o.old[k] /\ v \in Tags
    <2>1. /\ o.names = Pair /\ (o.pc = "rollback" => k = 1) /\ Len(o.old) >= k
          /\ o.old \in Seq(Tags)
      BY <1>2 DEF OpInv, Ops
    <2> QED
      BY <2>1, PairIs DEF Name, Names, Old
  <1>4. /\ e \in Ops /\ e.pc = "rollback" /\ e.names = Pair /\ e.tag = o.tag /\ e.mine = o.mine
        /\ e.at = k - 1 /\ e.old = o.old
    <2>1. o \in Ops /\ o.names = Pair /\ k - 1 \in Nat
      BY <1>2, <1>3
    <2> QED
      BY ONLY <2>1 DEF Ops, Stages
  <1>5. op' = [op EXCEPT ![p] = e]
    OBVIOUS
  <1>6. /\ op'[p] \in Ops /\ op'[p].pc = "rollback" /\ op'[p].names = Pair /\ op'[p].tag = o.tag
        /\ op'[p].at = k - 1 /\ op'[p].old = o.old /\ op' = [op EXCEPT ![p] = op'[p]]
    <2> HIDE DEF e
    <2> QED
      BY <1>4, <1>5, OpGoes
  <1>7. OpInv(p)' /\ Committing(p)'
    BY <1>2, <1>3, <1>6, PairIs DEF OpInv, Committing
  <1>8. \A i \in {1, 2} : (Out(p, i) <=> i <= k) /\ (Out(p, i)' <=> i < k)
    BY <1>3, <1>6 DEF Out
  <1>9. v # 0 => v \in aside[d][n]
    BY <1>2, <1>3, <1>8 DEF KeptInv
  <1>10. \/ file' = file /\ aside' = aside /\ (v # 0 \/ file[d][n] = 0)
         \/ /\ file' = [file EXCEPT ![d] = [file[d] EXCEPT ![n] = v]]
            /\ aside' = [aside EXCEPT ![d] = [aside[d] EXCEPT ![n] = @ \ {v}]]
    <2>1. CASE Old(p) = 0 /\ op[p].pc = "unput" /\ UNCHANGED <<disk, faults>>
      BY <1>2, <1>3, <2>1 DEF disk, FilesInv
    <2>2. CASE Put(p, Name(p), v) /\ IF v = 0 THEN UNCHANGED aside ELSE Unkeep(p, Name(p), v)
      <3>1. file' = [file EXCEPT ![d] = [file[d] EXCEPT ![n] = v]]
        BY <1>3, <2>2 DEF Put
      <3>2. CASE v = 0
        <4>1. aside[d][n] \ {v} = aside[d][n]
          BY <1>2, <1>3, <3>2, InstallAssumption
        <4>2. [aside EXCEPT ![d] = [aside[d] EXCEPT ![n] = aside[d][n]]] = aside
          BY <1>2, <1>3
        <4> QED
          BY <2>2, <3>1, <3>2, <4>1, <4>2
      <3>3. CASE v # 0
        BY <1>3, <2>2, <3>1, <3>3 DEF Unkeep
      <3> QED
        BY <3>2, <3>3
    <2>3. CASE v # 0 /\ UNCHANGED disk
      BY <2>3 DEF disk
    <2> QED
      BY <2>1, <2>2, <2>3 DEF PutBack
  <1>11. /\ file' \in [Dirs -> [Names -> Tags]] /\ aside' \in [Dirs -> [Names -> SUBSET (1..MaxTag)]]
         /\ \A f \in Dirs \ {d} : file'[f] = file[f] /\ aside'[f] = aside[f]
         /\ \A m \in Names \ {n} : file'[d][m] = file[d][m] /\ aside'[d][m] = aside[d][m]
         /\ \/ file'[d][n] = v /\ aside'[d][n] \ {v} = aside[d][n] \ {v}
            \/ v \in aside'[d][n] /\ aside'[d][n] = aside[d][n]
    <2>1. CASE file' = file /\ aside' = aside /\ (v # 0 \/ file[d][n] = 0)
      BY <1>2, <1>9, <2>1
    <2>2. CASE /\ file' = [file EXCEPT ![d] = [file[d] EXCEPT ![n] = v]]
               /\ aside' = [aside EXCEPT ![d] = [aside[d] EXCEPT ![n] = @ \ {v}]]
      <3>1. file'[d] = [file[d] EXCEPT ![n] = v] /\ file'[d] \in [Names -> Tags]
        BY <1>2, <1>3, <2>2
      <3>2. aside'[d] = [aside[d] EXCEPT ![n] = @ \ {v}] /\ aside'[d] \in [Names -> SUBSET (1..MaxTag)]
        BY <1>2, <1>3, <2>2
      <3>3. \A f \in Dirs \ {d} : file'[f] = file[f] /\ aside'[f] = aside[f]
        BY <1>2, <2>2
      <3>4. \A m \in Names \ {n} : file'[d][m] = file[d][m] /\ aside'[d][m] = aside[d][m]
        BY <1>2, <3>1, <3>2
      <3>5. file'[d][n] = v /\ aside'[d][n] = aside[d][n] \ {v}
        BY <1>2, <1>3, <3>1, <3>2
      <3>6. file' \in [Dirs -> [Names -> Tags]] /\ aside' \in [Dirs -> [Names -> SUBSET (1..MaxTag)]]
        BY <1>2, <2>2, <3>1, <3>2
      <3> QED
        BY <3>3, <3>4, <3>5, <3>6
    <2> QED
      BY <1>10, <2>1, <2>2
  <1>12. \A i \in {1, 2} : i # k => Pair[i] \in Names \ {n}
    BY <1>3, PairIs DEF Names
  <1>13. KeptInv(p)'
    <2> SUFFICES ASSUME NEW i \in {1, 2}, i < k, op'[p].old[i] # 0
                 PROVE  op'[p].old[i] \in aside'[d][Pair[i]]
      BY <1>8 DEF KeptInv
    <2>1. Out(p, i) /\ aside'[d][Pair[i]] = aside[d][Pair[i]] /\ op'[p].old[i] = o.old[i]
      <3>1. Out(p, i) /\ Pair[i] \in Names \ {n}
        BY <1>8, <1>12
      <3> QED
        BY <1>6, <1>11, <3>1
    <2> QED
      BY <1>2, <2>1 DEF KeptInv
  <1>14. FilesInv(p)'
    BY <1>6 DEF FilesInv
  <1>15. torn' \/ FitInv(p)'
    <2> SUFFICES ASSUME FitInv(p) PROVE FitInv(p)'
      BY <1>2
    <2>1. \A i \in {1, 2} : i # k => Base(p, i)' = Base(p, i) /\ aside'[d][Pair[i]] = aside[d][Pair[i]]
      <3> SUFFICES ASSUME NEW i \in {1, 2}, i # k
                   PROVE  Base(p, i)' = Base(p, i) /\ aside'[d][Pair[i]] = aside[d][Pair[i]]
        OBVIOUS
      <3>1. Out(p, i)' <=> Out(p, i)
        BY <1>8
      <3>2. Pair[i] \in Names \ {n} /\ op'[p].old = o.old
        BY <1>6, <1>12
      <3>3. file'[d][Pair[i]] = file[d][Pair[i]] /\ aside'[d][Pair[i]] = aside[d][Pair[i]]
        BY <1>11, <3>2
      <3> QED
        BY <3>1, <3>2, <3>3 DEF Base
    <2>2. Base(p, k) = v /\ Base(p, k)' = file'[d][n]
      BY <1>3, <1>6, <1>8 DEF Base
    <2>3. CASE k = 1
      <3>1. Base(p, 2)' = Base(p, 2) /\ aside'[d]["geosite"] = aside[d]["geosite"]
        BY <2>1, <2>3, PairIs
      <3>2. Fit(d, v, Base(p, 2))
        BY <2>2, <2>3 DEF FitInv
      <3>3. \/ file'[d]["geoip"] = v /\ aside'[d]["geoip"] \ {v} = aside[d]["geoip"] \ {v}
            \/ v \in aside'[d]["geoip"] /\ aside'[d]["geoip"] = aside[d]["geoip"]
        BY <1>11, <2>3, PairIs
      <3>4. Base(p, 1)' = file'[d]["geoip"]
        BY <2>2, <2>3, PairIs
      <3> QED
        BY <3>1, <3>2, <3>3, <3>4 DEF FitInv, Fit
    <2>4. CASE k = 2
      <3>1. Base(p, 1)' = Base(p, 1) /\ aside'[d]["geoip"] = aside[d]["geoip"]
        BY <2>1, <2>4, PairIs
      <3>2. Fit(d, Base(p, 1), v)
        BY <2>2, <2>4 DEF FitInv
      <3>3. \/ file'[d]["geosite"] = v /\ aside'[d]["geosite"] \ {v} = aside[d]["geosite"] \ {v}
            \/ v \in aside'[d]["geosite"] /\ aside'[d]["geosite"] = aside[d]["geosite"]
        BY <1>11, <2>4, PairIs
      <3>4. Base(p, 2)' = file'[d]["geosite"]
        BY <2>2, <2>4, PairIs
      <3> QED
        BY <3>1, <3>2, <3>3, <3>4 DEF FitInv, Fit
    <2> QED
      BY <1>3, <2>3, <2>4
  <1>16. ProcInv(p)'
    BY <1>7, <1>13, <1>14, <1>15 DEF ProcInv
  <1>17. op'[p].pc # "idle" /\ op'[p].pc # "installed" /\ op'[p].names = o.names
    BY <1>3, <1>6
  <1> HIDE DEF e
  <1> QED
    BY <1>1, <1>2, <1>3, <1>6, <1>7, <1>11, <1>16, <1>17, CommitKeeps

LEMMA UnputKeeps ==
  ASSUME IInv, NEW p \in Procs, Unput(p)
  PROVE  IInv'
  <1>1. op[p].pc = "unput" /\ Committing(p)
    BY DEF Unput, At, Committing
  <1>2. op[p].at # 0
    BY <1>1, AtCommit DEF OpInv
  <1>3. \/ Old(p) = 0 /\ op[p].pc = "unput" /\ UNCHANGED <<disk, faults>>
        \/ PutBack(p, Old(p))
    BY <1>1 DEF Unput
  <1>4. /\ op' = [op EXCEPT ![p].pc = "rollback", ![p].at = @ - 1]
        /\ holder' = holder /\ UNCHANGED <<shell, memory, torn>>
    BY DEF Unput
  <1> QED
    BY <1>1, <1>2, <1>3, <1>4, BackKeeps

\* The commit goes on with the disk as it is and nothing of it out.
LEMMA ToUnlockKeeps ==
  ASSUME IInv, NEW p \in Procs, op[p].pc = "rollback", op[p].at = 0, Goes(p, "unlock"),
         UNCHANGED disk, holder' = holder, UNCHANGED <<shell, memory, torn>>
  PROVE  IInv'
  <1> DEFINE d == DirOf(p)
             o == op[p]
             e == [o EXCEPT !.pc = "unlock"]
  <1>1. Committing(p) /\ file' = file /\ aside' = aside /\ op' = [op EXCEPT ![p] = e]
    BY DEF Committing, disk, Goes
  <1>2. /\ o \in Ops /\ OpInv(p) /\ KeptInv(p) /\ FilesInv(p) /\ (torn \/ FitInv(p))
        /\ d \in Dirs /\ holder = p
        /\ file \in [Dirs -> [Names -> Tags]] /\ aside \in [Dirs -> [Names -> SUBSET (1..MaxTag)]]
    BY <1>1, AtCommit
  <1>3. /\ e \in Ops /\ e.pc = "unlock" /\ e.names = o.names /\ e.tag = o.tag /\ e.mine = o.mine
        /\ e.at = o.at /\ e.old = o.old
    BY <1>2 DEF Ops, Stages
  <1> HIDE DEF e
  <1>4. /\ op'[p] \in Ops /\ op'[p].pc = "unlock" /\ op'[p].names = o.names /\ op'[p].tag = o.tag
        /\ op' = [op EXCEPT ![p] = op'[p]]
    BY <1>1, <1>3, OpGoes
  <1>5. OpInv(p)' /\ Committing(p)'
    BY <1>2, <1>4 DEF OpInv, Committing
  <1>6. \A i \in {1, 2} : ~Out(p, i) /\ ~Out(p, i)' /\ Base(p, i)' = Base(p, i)
    BY <1>1, <1>4 DEF Out, Base
  <1>7. ProcInv(p)'
    <2>1. KeptInv(p)' /\ FilesInv(p)'
      BY <1>4, <1>6 DEF KeptInv, FilesInv
    <2>2. torn' \/ FitInv(p)'
      BY <1>1, <1>2, <1>6 DEF FitInv, Fit
    <2> QED
      BY <1>5, <2>1, <2>2 DEF ProcInv
  <1>8. op'[p].pc # "idle" /\ op'[p].pc # "installed" /\ op[p].names = Pair
    BY <1>2, <1>4 DEF OpInv
  <1> QED
    BY <1>1, <1>2, <1>4, <1>5, <1>7, <1>8, CommitKeeps

LEMMA RollbackKeeps ==
  ASSUME IInv, NEW p \in Procs, Rollback(p)
  PROVE  IInv'
  <1>1. op[p].pc = "rollback" /\ holder' = holder /\ UNCHANGED <<shell, memory, torn>>
    BY DEF Rollback, At
  <1>2. CASE op[p].at = 0
    BY <1>1, <1>2, ToUnlockKeeps DEF Rollback
  <1>3. CASE op[p].at # 0
    <2>1. PutBack(p, Old(p)) /\ op' = [op EXCEPT ![p].at = @ - 1]
      BY <1>3 DEF Rollback, Undo
    <2>2. op[p] \in Ops
      BY DEF IInv, ProcInv, OpInv
    <2>3. [op[p] EXCEPT !.at = @ - 1] = [op[p] EXCEPT !.pc = "rollback", !.at = @ - 1]
      BY <1>1, <2>2 DEF Ops
    <2>4. op' = [op EXCEPT ![p].pc = "rollback", ![p].at = @ - 1]
      BY <2>1, <2>3
    <2> QED
      BY <1>1, <1>3, <2>1, <2>4, BackKeeps
  <1> QED
    BY <1>2, <1>3

LEMMA EndsAnOp ==
  ASSUME IInv, NEW p \in Procs, NEW ok \in BOOLEAN, op[p].pc # "idle", Ends(p, ok)
  PROVE  /\ OpInv(p)' /\ ~Committing(p)' /\ op' = [op EXCEPT ![p] = op'[p]]
         /\ p # "screen" => op'[p].pc = "idle"
         /\ p = "screen" => /\ op'[p].pc = (IF ok THEN "installed" ELSE "failed")
                            /\ op'[p].names = op[p].names /\ op'[p].tag = op[p].tag
                            /\ op'[p].mine = op[p].mine
  <1>1. op[p] \in Ops /\ OpInv(p)
    BY DEF IInv, ProcInv, OpInv
  <1>2. CASE p # "screen"
    <2>1. op' = [op EXCEPT ![p] = NoOp]
      BY <1>2 DEF Ends
    <2>2. op'[p] \in Ops /\ op'[p].pc = "idle" /\ op' = [op EXCEPT ![p] = op'[p]]
      BY <2>1, NoOpIs, OpGoes
    <2> QED
      BY <1>2, <2>2 DEF OpInv, Committing
  <1>3. CASE p = "screen"
    <2> DEFINE to == IF ok THEN "installed" ELSE "failed"
               e == [op[p] EXCEPT !.pc = to, !.at = 1, !.old = <<>>]
    <2>1. op' = [op EXCEPT ![p] = e]
      BY <1>3 DEF Ends
    <2>2. to \in {"installed", "failed"}
      OBVIOUS
    <2> HIDE DEF to
    <2>3. /\ e \in Ops /\ e.pc = to /\ e.names = op[p].names /\ e.tag = op[p].tag
          /\ e.mine = op[p].mine
      <3>1. op[p] \in Ops /\ to \in Stages /\ <<>> \in Seq(Tags)
        BY <1>1, <2>2 DEF Stages
      <3> QED
        BY ONLY <3>1 DEF Ops
    <2> HIDE DEF e
    <2>4. /\ op'[p] \in Ops /\ op'[p].pc = to /\ op'[p].names = op[p].names /\ op'[p].tag = op[p].tag
          /\ op'[p].mine = op[p].mine /\ op' = [op EXCEPT ![p] = op'[p]]
      BY <2>1, <2>3, OpGoes
    <2>5. OpInv(p)' /\ ~Committing(p)'
      BY <1>1, <2>2, <2>4 DEF OpInv, Committing
    <2> QED
      BY <1>3, <2>4, <2>5 DEF to
  <1> QED
    BY <1>2, <1>3

LEMMA CleanKeeps ==
  ASSUME IInv, NEW p \in Procs, Clean(p)
  PROVE  IInv'
  <1> DEFINE d == DirOf(p)
             o == op[p]
             gone(n) == {o.old[i] : i \in {j \in DOMAIN o.old : o.names[j] = n}}
  <1>1. /\ o.pc = "clean" /\ Committing(p) /\ file' = file /\ UNCHANGED <<shell, memory, torn>>
        /\ aside' = [aside EXCEPT ![d] = [n \in Names |-> aside[d][n] \ gone(n)]]
        /\ Ends(p, TRUE) /\ holder' = "nobody"
    BY DEF Clean, At, Committing, bounds
  <1>2. /\ o \in Ops /\ OpInv(p) /\ KeptInv(p) /\ FilesInv(p) /\ (torn \/ FitInv(p))
        /\ d \in Dirs /\ holder = p
        /\ file \in [Dirs -> [Names -> Tags]] /\ aside \in [Dirs -> [Names -> SUBSET (1..MaxTag)]]
    BY <1>1, AtCommit
  <1>3. /\ OpInv(p)' /\ ~Committing(p)' /\ op' = [op EXCEPT ![p] = op'[p]]
        /\ p = "screen" => op'[p].pc = "installed" /\ op'[p].names = o.names /\ op'[p].tag = o.tag
    BY <1>1, EndsAnOp
  <1>4. /\ aside' \in [Dirs -> [Names -> SUBSET (1..MaxTag)]]
        /\ \A f \in Dirs \ {d} : aside'[f] = aside[f]
        /\ \A n \in Names : aside'[d][n] = aside[d][n] \ gone(n)
    <2>1. aside'[d] = [n \in Names |-> aside[d][n] \ gone(n)]
      BY <1>1, <1>2
    <2>2. aside'[d] \in [Names -> SUBSET (1..MaxTag)]
      BY <1>2, <2>1
    <2> QED
      BY <1>1, <1>2, <2>1, <2>2
  <1>5. o.names = Pair \/ (o.names = Core /\ o.old = <<>>)
    BY <1>1, <1>2 DEF OpInv
  <1>6. DirInv(d)'
    <2>1. CASE o.names = Pair
      BY <1>1, <1>2, <2>1 DEF FilesInv, DirInv, Fit
    <2>2. CASE o.names = Core /\ o.old = <<>>
      <3>1. \A n \in Names : gone(n) = {}
        BY <2>2
      <3>2. \A n \in Names : aside'[d][n] = aside[d][n]
        BY <1>4, <3>1
      <3>3. \A i \in {1, 2} : ~Out(p, i)
        BY <1>1 DEF Out
      <3>4. torn \/ Fit(d, file[d]["geoip"], file[d]["geosite"])
        BY <1>2, <3>3, PairIs DEF FitInv, Base
      <3> QED
        BY <1>1, <3>2, <3>4 DEF DirInv, Fit, Names
    <2> QED
      BY <1>5, <2>1, <2>2
  <1>7. p = "screen" /\ o.names = Pair => CorePair(o.tag)'
    <2>1. p = "screen" => d = "core" /\ op'[p].tag = o.tag
      BY <1>3 DEF DirOf
    <2> QED
      BY <1>1, <1>2, <2>1 DEF FilesInv, CorePair
  <1>8. ProcInv(p)'
    BY <1>3 DEF ProcInv
  <1> QED
    BY <1>1, <1>2, <1>3, <1>4, <1>6, <1>7, <1>8, CommitKeeps

LEMMA UnlockKeeps ==
  ASSUME IInv, NEW p \in Procs, Unlock(p)
  PROVE  IInv'
  <1> DEFINE d == DirOf(p)
             o == op[p]
  <1>1. /\ o.pc = "unlock" /\ Committing(p) /\ file' = file /\ aside' = aside
        /\ UNCHANGED <<shell, memory, torn>> /\ Ends(p, FALSE) /\ holder' = "nobody"
    BY DEF Unlock, At, Committing, disk, bounds
  <1>2. /\ o \in Ops /\ OpInv(p) /\ (torn \/ FitInv(p)) /\ d \in Dirs /\ holder = p
        /\ file \in [Dirs -> [Names -> Tags]] /\ aside \in [Dirs -> [Names -> SUBSET (1..MaxTag)]]
    BY <1>1, AtCommit
  <1>3. /\ OpInv(p)' /\ ~Committing(p)' /\ op' = [op EXCEPT ![p] = op'[p]]
        /\ p = "screen" => op'[p].pc = "failed" /\ op'[p].names = o.names /\ op'[p].tag = o.tag
    BY <1>1, EndsAnOp
  <1>4. DirInv(d)'
    <2>1. \A i \in {1, 2} : ~Out(p, i)
      BY <1>1 DEF Out
    <2>2. torn \/ Fit(d, file[d]["geoip"], file[d]["geosite"])
      BY <1>2, <2>1, PairIs DEF FitInv, Base
    <2> QED
      BY <1>1, <2>2 DEF DirInv, Fit
  <1>5. ProcInv(p)'
    BY <1>3 DEF ProcInv
  <1> QED
    BY <1>1, <1>2, <1>3, <1>4, <1>5, CommitKeeps

-----------------------------------------------------------------------------
(* The steps that change no file. *)

\* The screen moves on, and no install does.
LEMMA StillKeeps ==
  ASSUME IInv, op' = op, UNCHANGED <<disk, holder, torn>>,
         screen' \in {"gone", "open", "closing"}, stage' \in {"menu", "releases", "working", "done"},
         {slot', marked'} \subseteq Tags, ScreenInv', MemoryInv'
  PROVE  IInv'
  <1>1. file' = file /\ aside' = aside /\ holder' = holder /\ torn' = torn
    BY DEF disk
  <1>2. TypeOK' /\ torn' \in BOOLEAN /\ op' = [p \in Procs |-> op'[p]]
    BY <1>1 DEF IInv, TypeOK, Tags
  <1>3. ASSUME NEW q \in Procs PROVE (Committing(q)' <=> Committing(q)) /\ ProcInv(q)'
    <2>1. op'[q] = op[q] /\ ProcInv(q)
      BY DEF IInv
    <2>2. (Committing(q)' <=> Committing(q)) /\ (OpInv(q)' <=> OpInv(q))
      BY <2>1 DEF Committing, OpInv
    <2>3. \A i \in {1, 2} : (Out(q, i)' <=> Out(q, i)) /\ Base(q, i)' = Base(q, i)
      BY <1>1, <2>1 DEF Base, Out
    <2>4. KeptInv(q)' <=> KeptInv(q)
      BY <1>1, <2>1, <2>3 DEF KeptInv
    <2>5. FilesInv(q)' <=> FilesInv(q)
      BY <1>1, <2>1 DEF FilesInv, Name
    <2>6. FitInv(q)' <=> FitInv(q)
      BY <1>1, <2>3 DEF FitInv, Fit
    <2> QED
      BY <1>1, <2>1, <2>2, <2>4, <2>5, <2>6 DEF ProcInv
  <1>4. LockInv' /\ \A d \in Dirs : DirInv(d)'
    <2>1. LockInv'
      BY <1>1, <1>3 DEF IInv, LockInv
    <2>2. \A d \in Dirs : DirInv(d)'
      BY <1>1, <1>3 DEF IInv, DirInv, Fit
    <2> QED
      BY <2>1, <2>2
  <1> QED
    BY <1>2, <1>3, <1>4 DEF IInv

LEMMA MenuKeeps ==
  ASSUME IInv, Open \/ PickCore \/ FetchFails \/ AnyKey \/ Quit \/ UNCHANGED vars
  PROVE  IInv'
  <1>1. op' = op /\ UNCHANGED <<disk, holder, torn>> /\ slot' = slot /\ marked' = marked /\ file' = file
    BY DEF Open, PickCore, FetchFails, AnyKey, Quit, vars, memory, bounds, disk
  <1>2. screen' \in {"gone", "open", "closing"} /\ (screen' = "gone" => screen = "gone")
    BY DEF IInv, TypeOK, Open, PickCore, FetchFails, AnyKey, Quit, vars, shell
  <1>3. stage' \in {"menu", "releases", "working", "done"}
    BY DEF IInv, TypeOK, Open, PickCore, FetchFails, AnyKey, Quit, vars, shell
  <1>4. {slot', marked'} \subseteq Tags
    BY <1>1 DEF IInv, TypeOK, Tags
  <1>5. ScreenInv' /\ MemoryInv'
    BY <1>1, <1>2 DEF IInv, ScreenInv, MemoryInv, Running, Committing, CorePair
  <1> QED
    BY <1>1, <1>2, <1>3, <1>4, <1>5, StillKeeps

\* A load's, or one that the screen has asked for and not yet begun.
LEMMA LoadDownloadKeeps ==
  ASSUME IInv, NEW p \in Loads, LoadDownload(p)
  PROVE  IInv'
  <1>1. /\ p \in Procs /\ p # "screen" /\ op[p].pc = "idle"
        /\ UNCHANGED <<disk, holder, torn>> /\ screen' = screen /\ stage' = stage
        /\ slot' = slot /\ marked' = marked /\ file' = file
    BY InstallAssumption DEF LoadDownload, At, Procs, shell, memory, bounds, disk
  <1>2. PICK v \in 1..MaxTag : op' = [op EXCEPT ![p] = [NoOp EXCEPT !.pc = "lock", !.names = Pair, !.tag = v]]
    BY DEF LoadDownload
  <1> DEFINE e == [NoOp EXCEPT !.pc = "lock", !.names = Pair, !.tag = v]
  <1>3. /\ e \in Ops /\ e.pc = "lock" /\ e.names = Pair /\ e.tag # 0 /\ e.at = 1 /\ e.old = <<>>
    <2>1. e.pc = "lock" /\ e.names = Pair /\ e.tag = v /\ e.at = 1 /\ e.old = <<>>
      BY DEF NoOp
    <2>2. e \in Ops
      <3>1. NoOp \in Ops /\ "lock" \in Stages /\ v \in Tags /\ Pair \in {<<>>, Pair, Core}
        BY NoOpIs DEF Stages, Tags
      <3> QED
        BY ONLY <3>1 DEF Ops
    <2> QED
      BY <2>1, <2>2
  <1> HIDE DEF e
  <1>4. op' = [op EXCEPT ![p] = e]
    BY <1>2 DEF e
  <1>5. op'[p] = e /\ op' = [op EXCEPT ![p] = op'[p]] /\ \A q \in Procs \ {p} : op'[q] = op[q]
    BY <1>1, <1>3, <1>4, OpGoes
  <1>6. ~Committing(p) /\ ~Committing(p)' /\ OpInv(p)'
    BY <1>1, <1>3, <1>5 DEF Committing, OpInv
  <1>7. op'["screen"] = op["screen"]
    BY <1>1, <1>5 DEF Procs
  <1>8. ScreenInv' /\ MemoryInv'
    BY <1>1, <1>7 DEF IInv, ScreenInv, MemoryInv, Running, Committing, CorePair
  <1> QED
    BY <1>1, <1>5, <1>6, <1>8, AskedKeeps DEF IInv, TypeOK, Tags

LEMMA ScreenDownloadKeeps ==
  ASSUME IInv, ScreenDownload
  PROVE  IInv'
  <1>1. /\ "screen" \in Procs /\ op["screen"].pc = "get"
        /\ UNCHANGED <<disk, holder, torn>> /\ screen' = screen /\ stage' = stage
        /\ slot' = slot /\ marked' = marked /\ file' = file
    BY DEF ScreenDownload, At, Procs, shell, memory, bounds, disk
  <1>2. ~Committing("screen") /\ op["screen"] \in Ops /\ OpInv("screen")
    BY <1>1 DEF Committing, IInv, ProcInv, OpInv
  <1>3. /\ op'["screen"].pc \in {"lock", "failed"} /\ op'["screen"].names = op["screen"].names
        /\ op'["screen"].tag = op["screen"].tag /\ op'["screen"].mine = op["screen"].mine
        /\ OpInv("screen")' /\ op' = [op EXCEPT !["screen"] = op'["screen"]]
    <2>1. CASE Goes("screen", "lock")
      <3> DEFINE e == [op["screen"] EXCEPT !.pc = "lock"]
      <3>1. /\ e \in Ops /\ e.pc = "lock" /\ e.names = op["screen"].names /\ e.tag = op["screen"].tag
            /\ e.mine = op["screen"].mine /\ e.at = op["screen"].at /\ e.old = op["screen"].old
        BY <1>2 DEF Ops, Stages
      <3>2. op' = [op EXCEPT !["screen"] = e]
        BY <2>1 DEF Goes
      <3> HIDE DEF e
      <3>3. op'["screen"] = e /\ op' = [op EXCEPT !["screen"] = op'["screen"]]
        BY <1>1, <3>1, <3>2, OpGoes
      <3> QED
        BY <1>1, <1>2, <3>1, <3>3 DEF OpInv
    <2>2. CASE Ends("screen", FALSE)
      BY <1>1, <2>2, EndsAnOp
    <2> QED
      BY <2>1, <2>2 DEF ScreenDownload
  <1>4. ~Committing("screen")'
    BY <1>3 DEF Committing
  <1>5. ScreenInv' /\ MemoryInv'
    BY <1>1, <1>3 DEF IInv, ScreenInv, MemoryInv, Running, Committing, CorePair
  <1> QED
    BY <1>1, <1>2, <1>3, <1>4, <1>5, AskedKeeps DEF IInv, TypeOK, Tags

LEMMA StartOpKeeps ==
  ASSUME IInv, StartOp
  PROVE  IInv'
  <1> DEFINE to == IF MayStart THEN "get" ELSE "failed"
             e == [op["screen"] EXCEPT !.pc = to]
  <1>1. /\ "screen" \in Procs /\ op["screen"].pc = "asked" /\ op' = [op EXCEPT !["screen"] = e]
        /\ UNCHANGED <<disk, holder, torn>> /\ screen' = screen /\ stage' = stage
        /\ slot' = slot /\ marked' = marked /\ file' = file
    BY DEF StartOp, At, Goes, Procs, shell, memory, bounds, disk
  <1>2. ~Committing("screen") /\ op["screen"] \in Ops /\ OpInv("screen")
    BY <1>1 DEF Committing, IInv, ProcInv, OpInv
  <1>3. to \in {"get", "failed"} /\ (to = "get" => screen = "open")
    BY DEF MayStart
  <1> HIDE DEF to
  <1>4. /\ e \in Ops /\ e.pc = to /\ e.names = op["screen"].names /\ e.tag = op["screen"].tag
        /\ e.mine = op["screen"].mine /\ e.at = op["screen"].at /\ e.old = op["screen"].old
    BY <1>2, <1>3 DEF Ops, Stages
  <1> HIDE DEF e
  <1>5. op'["screen"] = e /\ op' = [op EXCEPT !["screen"] = op'["screen"]]
    BY <1>1, <1>4, OpGoes
  <1>6. OpInv("screen")' /\ ~Committing("screen")'
    BY <1>1, <1>2, <1>3, <1>4, <1>5 DEF OpInv, Committing
  <1>7. ScreenInv' /\ MemoryInv'
    BY <1>1, <1>3, <1>4, <1>5 DEF IInv, ScreenInv, MemoryInv, Running, Committing, CorePair
  <1> QED
    BY <1>1, <1>2, <1>5, <1>6, <1>7, AskedKeeps DEF IInv, TypeOK, Tags

\* An install is asked for.
LEMMA AskedForKeeps ==
  ASSUME IInv, op["screen"].pc = "idle", screen = "open", screen' = screen,
         stage' \in {"menu", "releases", "working", "done"},
         UNCHANGED <<disk, holder, torn, marked>>, slot' \in Tags,
         NEW names \in {Pair, Core}, NEW v \in 1..MaxTag,
         op' = [op EXCEPT !["screen"] = Asked(names, v)],
         names = Pair => slot' = v /\ marked < v, names = Core => slot' = slot
  PROVE  IInv'
  <1> DEFINE e == Asked(names, v)
  <1>1. "screen" \in Procs /\ file' = file /\ marked' = marked
    BY DEF Procs, disk
  <1>2. /\ e \in Ops /\ e.pc = "asked" /\ e.names = names /\ e.tag = v /\ e.mine = TRUE
        /\ e.at = 1 /\ e.old = <<>>
    <2>1. /\ e.pc = "asked" /\ e.names = names /\ e.tag = v /\ e.mine = TRUE /\ e.at = 1 /\ e.old = <<>>
      BY DEF NoOp, Asked
    <2>2. e \in Ops
      <3>1. NoOp \in Ops /\ "asked" \in Stages /\ v \in Tags /\ names \in {<<>>, Pair, Core}
        BY NoOpIs DEF Stages, Tags
      <3>2. [NoOp EXCEPT !.pc = "asked", !.names = names, !.tag = v, !.mine = TRUE] \in Ops
        BY ONLY <3>1 DEF Ops
      <3> QED
        BY <3>2 DEF Asked
    <2> QED
      BY <2>1, <2>2
  <1> HIDE DEF e
  <1>3. op'["screen"] = e /\ op' = [op EXCEPT !["screen"] = op'["screen"]]
    BY <1>1, <1>2, OpGoes DEF e
  <1>4. OpInv("screen")' /\ ~Committing("screen") /\ ~Committing("screen")'
    BY <1>2, <1>3 DEF OpInv, Committing
  <1>5. ScreenInv'
    BY DEF ScreenInv
  <1>6. MemoryInv'
    <2>1. marked \in Nat /\ slot \in Nat /\ MemoryInv /\ v \in Nat
      BY DEF IInv, TypeOK
    <2>2. op'["screen"].pc = "asked" /\ op'["screen"].names = names /\ op'["screen"].tag = v
      BY <1>2, <1>3
    <2>3. CASE names = Pair
      BY <1>1, <2>1, <2>2, <2>3 DEF MemoryInv
    <2>4. CASE names = Core
      BY <1>1, <2>1, <2>2, <2>4, PairIs DEF MemoryInv, CorePair
    <2> QED
      BY <2>3, <2>4
  <1>7. {slot', marked'} \subseteq Tags /\ screen' \in {"gone", "open", "closing"}
    BY <1>1 DEF IInv, TypeOK, Tags
  <1> QED
    BY <1>1, <1>3, <1>4, <1>5, <1>6, <1>7, AskedKeeps

LEMMA PickReleaseKeeps ==
  ASSUME IInv, PickRelease
  PROVE  IInv'
  <1>1. /\ screen = "open" /\ screen' = screen /\ op["screen"].pc = "idle"
        /\ UNCHANGED <<disk, holder, torn>> /\ slot' = slot /\ marked' = marked /\ file' = file
        /\ stage' \in {"menu", "releases", "working", "done"}
    BY DEF PickRelease, At, memory, bounds, disk
  <1>2. slot' \in Tags /\ marked' \in Tags
    BY <1>1 DEF IInv, TypeOK, Tags
  <1>3. CASE UNCHANGED op
    <2>1. ScreenInv' /\ MemoryInv'
      BY <1>1, <1>3 DEF IInv, ScreenInv, MemoryInv, CorePair
    <2> QED
      BY <1>1, <1>2, <1>3, <2>1, StillKeeps
  <1>4. ASSUME NEW v \in 1..MaxTag, op' = [op EXCEPT !["screen"] = Asked(<<"xray">>, v)] PROVE IInv'
    <2>1. op' = [op EXCEPT !["screen"] = Asked(Core, v)]
      BY <1>4 DEF Core
    <2> QED
      BY <1>1, <1>2, <2>1, PairIs, AskedForKeeps
  <1> QED
    BY <1>3, <1>4 DEF PickRelease

LEMMA PickGeoKeeps ==
  ASSUME IInv, PickGeo
  PROVE  IInv'
  <1>1. /\ screen = "open" /\ screen' = screen /\ op["screen"].pc = "idle"
        /\ UNCHANGED <<disk, holder, torn>> /\ marked' = marked /\ file' = file
        /\ stage' \in {"menu", "releases", "working", "done"}
    BY DEF PickGeo, At, bounds, disk
  <1>2. PICK v \in 1..MaxTag :
          /\ v >= slot /\ slot' = v
          /\ \/ v = marked /\ UNCHANGED op
             \/ v # marked /\ op' = [op EXCEPT !["screen"] = Asked(Pair, v)]
    BY DEF PickGeo
  <1>3. /\ slot' \in Tags /\ marked' \in Tags /\ MemoryInv
        /\ marked \in Nat /\ slot \in Nat /\ marked <= slot
    BY <1>1, <1>2 DEF IInv, TypeOK, Tags, MemoryInv
  <1>4. CASE v = marked /\ UNCHANGED op
    <2>1. slot' = slot
      BY <1>2, <1>3, <1>4
    <2>2. ScreenInv' /\ MemoryInv'
      BY <1>1, <1>4, <2>1 DEF IInv, ScreenInv, MemoryInv, CorePair
    <2> QED
      BY <1>1, <1>3, <1>4, <2>2, StillKeeps
  <1>5. CASE v # marked /\ op' = [op EXCEPT !["screen"] = Asked(Pair, v)]
    <2>1. slot' = v /\ marked < v
      BY <1>2, <1>3, <1>5
    <2> QED
      BY <1>1, <1>3, <1>5, <2>1, PairIs, AskedForKeeps
  <1> QED
    BY <1>2, <1>4, <1>5

LEMMA InstalledKeeps ==
  ASSUME IInv, Installed
  PROVE  IInv'
  <1>1. /\ "screen" \in Procs /\ op["screen"].pc \in {"installed", "failed"}
        /\ op' = [op EXCEPT !["screen"] = NoOp] /\ UNCHANGED <<disk, holder, torn>>
        /\ screen' = screen /\ slot' = slot /\ file' = file
    BY DEF Installed, Over, Procs, bounds, disk
  <1>2. op'["screen"] = NoOp /\ op' = [op EXCEPT !["screen"] = op'["screen"]]
    BY <1>1, NoOpIs, OpGoes
  <1>3. OpInv("screen")' /\ ~Committing("screen") /\ ~Committing("screen")'
    BY <1>1, <1>2, NoOpIs DEF OpInv, Committing
  <1>4. ScreenInv'
    BY <1>2, NoOpIs DEF ScreenInv, Running, Committing
  <1>5. stage' \in {"menu", "releases", "working", "done"}
    BY DEF Installed, IInv, TypeOK
  <1>6. \/ marked' = marked
        \/ op["screen"].pc = "installed" /\ op["screen"].names = Pair /\ marked' = op["screen"].tag
    <2>1. op["screen"].names \in {Pair, Core}
      BY <1>1 DEF IInv, ProcInv, OpInv
    <2> QED
      BY <2>1 DEF Installed, At, Remembered, OneFile, Core
  <1>7. MemoryInv /\ marked \in Tags /\ slot \in Tags
    BY DEF IInv, TypeOK, Tags
  <1>8. MemoryInv' /\ marked' \in Tags
    <2>1. CASE marked' = marked
      BY <1>1, <1>2, <1>7, <2>1, NoOpIs DEF MemoryInv, CorePair
    <2>2. CASE op["screen"].pc = "installed" /\ op["screen"].names = Pair /\ marked' = op["screen"].tag
      <3>1. marked' = slot /\ CorePair(op["screen"].tag)
        BY <1>7, <2>2 DEF MemoryInv
      <3>2. file'["core"]["geoip"] = marked' /\ file'["core"]["geosite"] = marked'
        BY <1>1, <2>2, <3>1 DEF CorePair
      <3>3. marked' <= slot'
        BY <1>1, <1>7, <3>1 DEF Tags
      <3> QED
        BY <1>1, <1>2, <1>7, <3>1, <3>2, <3>3, NoOpIs DEF MemoryInv, CorePair
    <2> QED
      BY <1>6, <2>1, <2>2
  <1>9. {slot', marked'} \subseteq Tags /\ screen' \in {"gone", "open", "closing"}
    BY <1>1, <1>7, <1>8 DEF IInv, TypeOK
  <1> QED
    BY <1>1, <1>2, <1>3, <1>4, <1>5, <1>8, <1>9, AskedKeeps

LEMMA ReturnKeeps ==
  ASSUME IInv, Return
  PROVE  IInv'
  <1> DEFINE e == [op["screen"] EXCEPT !.mine = FALSE]
  <1>1. /\ "screen" \in Procs /\ ~Running("screen") /\ op' = [op EXCEPT !["screen"] = e]
        /\ UNCHANGED <<disk, holder, torn>> /\ screen' = "gone" /\ stage' = stage
        /\ slot' = slot /\ marked' = marked /\ file' = file
    BY DEF Return, Waited, Procs, memory, bounds, disk
  <1>2. op["screen"] \in Ops /\ OpInv("screen")
    BY <1>1 DEF IInv, ProcInv, OpInv
  <1>3. /\ e \in Ops /\ e.pc = op["screen"].pc /\ e.names = op["screen"].names
        /\ e.tag = op["screen"].tag /\ e.at = op["screen"].at /\ e.old = op["screen"].old
        /\ e.mine = FALSE
    BY <1>2 DEF Ops
  <1> HIDE DEF e
  <1>4. op'["screen"] = e /\ op' = [op EXCEPT !["screen"] = op'["screen"]]
    BY <1>1, <1>3, OpGoes
  <1>5. ~Committing("screen") /\ ~Committing("screen")'
    BY <1>1, <1>3, <1>4 DEF Committing, Running
  <1>6. OpInv("screen")'
    BY <1>2, <1>3, <1>4 DEF OpInv
  <1>7. ScreenInv'
    BY <1>1, <1>3, <1>4 DEF ScreenInv, Running, Committing
  <1>8. MemoryInv'
    BY <1>1, <1>3, <1>4 DEF IInv, MemoryInv, CorePair
  <1> QED
    BY <1>1, <1>4, <1>5, <1>6, <1>7, <1>8, AskedKeeps DEF IInv, TypeOK, Tags

LEMMA CrashKeeps ==
  ASSUME IInv, Crash
  PROVE  IInv'
  <1>1. /\ op' = [p \in Procs |-> NoOp] /\ holder' = "nobody" /\ screen' = "gone" /\ stage' = "menu"
        /\ slot' = 0 /\ marked' = 0 /\ file' = file /\ aside' = aside
    BY DEF Crash, disk
  <1>2. torn' = (torn \/ \E p \in Procs : Committing(p))
    BY DEF Crash
  <1>3. torn' \in BOOLEAN
    BY <1>2
  <1>4. TypeOK'
    BY <1>1, NoOpIs DEF IInv, TypeOK, Tags
  <1>5. \A p \in Procs : op'[p] = NoOp /\ ~Committing(p)' /\ ProcInv(p)'
    BY <1>1, NoOpIs DEF ProcInv, OpInv, Committing
  <1>6. LockInv'
    BY <1>1, <1>5, InstallAssumption DEF LockInv, Procs
  <1>7. \A d \in Dirs : DirInv(d)'
    <2>1. CASE torn \/ \E p \in Procs : Committing(p)
      BY <1>2, <2>1 DEF DirInv
    <2>2. CASE ~torn /\ \A p \in Procs : ~Committing(p)
      BY <1>1, <2>2 DEF IInv, DirInv, Fit
    <2> QED
      BY <2>1, <2>2
  <1>8. op'["screen"] = NoOp /\ ~Committing("screen")'
    BY <1>5 DEF Procs
  <1>9. ScreenInv' /\ MemoryInv'
    BY <1>1, <1>8, NoOpIs DEF ScreenInv, MemoryInv, Running
  <1> QED
    BY <1>1, <1>3, <1>4, <1>5, <1>6, <1>7, <1>9 DEF IInv

LEMMA InstallInit == Init => IInv
  <1> SUFFICES ASSUME Init PROVE IInv
    OBVIOUS
  <1>1. PICK v \in {0, 1} : file = [d \in Dirs |-> [n \in Names |-> IF n = "xray" THEN 1 ELSE v]]
    BY DEF Init
  <1>2. /\ aside = [d \in Dirs |-> [n \in Names |-> {}]] /\ op = [p \in Procs |-> NoOp]
        /\ holder = "nobody" /\ screen = "gone" /\ stage = "menu" /\ slot = 0 /\ marked = 0
        /\ torn \in BOOLEAN
    BY DEF Init
  <1>3. TypeOK
    BY <1>1, <1>2, InstallAssumption DEF TypeOK
  <1>4. \A p \in Procs : op[p] = NoOp /\ ~Committing(p) /\ ProcInv(p)
    BY <1>2, NoOpIs DEF ProcInv, OpInv, Committing
  <1>5. \A d \in Dirs : DirInv(d)
    BY <1>1 DEF DirInv, Fit, Names
  <1>6. LockInv
    BY <1>2, <1>4, InstallAssumption DEF LockInv, Procs
  <1>7. op["screen"] = NoOp /\ ~Committing("screen")
    BY <1>4 DEF Procs
  <1>8. ScreenInv /\ MemoryInv
    BY <1>2, <1>7, NoOpIs DEF ScreenInv, MemoryInv, Running
  <1> QED
    BY <1>2, <1>3, <1>4, <1>5, <1>6, <1>8 DEF IInv

LEMMA InstallNext ==
  ASSUME IInv, [Next]_vars
  PROVE  IInv'
  <1>1. ASSUME NEW p \in Procs, Step(p) PROVE IInv'
    BY <1>1, LockKeeps, MoveAsideKeeps, PutInKeeps, UnputKeeps, RollbackKeeps, CleanKeeps, UnlockKeeps
       DEF Step
  <1>2. ASSUME NEW p \in Loads, LoadDownload(p) PROVE IInv'
    BY <1>2, LoadDownloadKeeps
  <1>3. CASE ScreenNext
    BY <1>3, MenuKeeps, PickReleaseKeeps, PickGeoKeeps, StartOpKeeps, ScreenDownloadKeeps,
       InstalledKeeps, ReturnKeeps DEF ScreenNext
  <1>4. CASE Crash
    BY <1>4, CrashKeeps
  <1>5. CASE UNCHANGED vars
    BY <1>5, MenuKeeps
  <1> QED
    BY <1>1, <1>2, <1>3, <1>4, <1>5 DEF Next

-----------------------------------------------------------------------------
(* The theorems. *)

\* What is known of every install at each stage, of what it has moved aside, of
\* the pair a rollback would bring back and of what the program remembers stays
\* so, through any number of loads, refused renames and kills.
THEOREM InstallInvariance == Spec => []IInv
  <1>1. Init => IInv
    BY InstallInit
  <1>2. IInv /\ [Next]_vars => IInv'
    BY InstallNext
  <1> QED
    BY <1>1, <1>2, PTL DEF Spec

\* No directory is left with the databases of two installs, however many
\* renames are refused and whoever installs at once (commitAll, rollback).
THEOREM PairsAreOfOneInstall == Spec => []PairIsOfOneInstall
  <1>1. IInv => PairIsOfOneInstall
    BY DEF IInv, DirInv, PairIsOfOneInstall, Fit, Names
  <1> QED
    BY <1>1, InstallInvariance, PTL

\* A screen that has returned has nothing at work (opGuard, closeAndWait).
THEOREM ScreenReturnsQuiet == Spec => []ReturnsQuiet
  <1>1. IInv => ReturnsQuiet
    BY DEF IInv, ScreenInv, ReturnsQuiet
  <1> QED
    BY <1>1, InstallInvariance, PTL

\* A file that was there is under its name or next to it, through every refused
\* rename and every kill (moveAside, commit, rollback).
THEOREM NoFileIsLost == Spec => NothingIsLost
  <1> DEFINE Safe == \A d \in Dirs : \A n \in Names :
               Present(d, n) => Present(d, n)' \/ \E p \in Procs : UndoesFirst(p, d, n)
  <1>1. IInv /\ [Next]_vars => [Safe]_vars
    <2> SUFFICES ASSUME IInv, Next, NEW d \in Dirs, NEW n \in Names, Present(d, n)
                 PROVE  Present(d, n)' \/ \E p \in Procs : UndoesFirst(p, d, n)
      OBVIOUS
    <2>1. file \in [Dirs -> [Names -> Tags]] /\ aside \in [Dirs -> [Names -> SUBSET (1..MaxTag)]]
      BY DEF IInv, TypeOK, Tags
    <2>2. CASE UNCHANGED disk
      BY <2>2 DEF Present, disk
    <2>3. ASSUME NEW p \in Procs, Step(p)
          PROVE  Present(d, n)' \/ UndoesFirst(p, d, n)
      <3>1. OpInv(p)
        BY DEF IInv, ProcInv
      <3>2. CASE Lock(p) \/ Unlock(p)
        BY <2>2, <3>2 DEF Lock, Unlock, Present, disk
      <3>3. CASE MoveAside(p)
        <4>1. DirOf(p) \in Dirs /\ Name(p) \in Names /\ Here(p) \in Tags
          <5>1. op[p].names = Pair /\ op[p].at \in {1, 2}
            BY <3>1, <3>3 DEF OpInv, MoveAside, At
          <5>2. Name(p) \in Names
            BY <5>1, PairIs DEF Name, Names
          <5> QED
            BY <2>1, <5>2, DirIs DEF Here
        <4>2. CASE Keep(p, Name(p), Here(p)) /\ Put(p, Name(p), 0)
          <5>1. CASE DirOf(p) = d /\ Name(p) = n
            BY <2>1, <4>1, <4>2, <5>1 DEF Keep, Present
          <5>2. CASE ~(DirOf(p) = d /\ Name(p) = n)
            <6>1. file'[d][n] = file[d][n]
              BY <2>1, <4>1, <4>2, <5>2 DEF Put
            <6>2. aside'[d][n] = aside[d][n]
              BY <2>1, <4>1, <4>2, <5>2 DEF Keep
            <6> QED
              BY <6>1, <6>2 DEF Present
          <5> QED
            BY <5>1, <5>2
        <4> QED
          BY <2>2, <3>3, <4>2 DEF MoveAside, Present, disk
      <3>4. CASE PutIn(p)
        <4>1. op[p].tag # 0
          BY <3>1, <3>4 DEF OpInv, PutIn, At
        <4>2. CASE Put(p, Name(p), op[p].tag) /\ aside' = aside
          <5>1. file'[d][n] \in {file[d][n], op[p].tag}
            BY <2>1, <4>2 DEF Put
          <5> QED
            BY <4>1, <4>2, <5>1 DEF Present
        <4>3. (Put(p, Name(p), op[p].tag) /\ aside' = aside) \/ UNCHANGED disk
          BY <3>4 DEF PutIn
        <4> QED
          BY <2>2, <4>2, <4>3 DEF Present, disk
      <3>5. ASSUME PutBack(p, Old(p)), Old(p) # 0 PROVE Present(d, n)'
        <4>1. CASE Put(p, Name(p), Old(p)) /\ Unkeep(p, Name(p), Old(p))
          <5>1. CASE DirOf(p) = d /\ Name(p) = n
            BY <2>1, <3>5, <4>1, <5>1 DEF Put, Present
          <5>2. CASE ~(DirOf(p) = d /\ Name(p) = n)
            BY <2>1, <4>1, <5>2 DEF Put, Unkeep, Present
          <5> QED
            BY <5>1, <5>2
        <4>2. (Put(p, Name(p), Old(p)) /\ Unkeep(p, Name(p), Old(p))) \/ UNCHANGED disk
          BY <3>5 DEF PutBack, disk
        <4> QED
          BY <2>2, <4>1, <4>2 DEF Present, disk
      <3>6. CASE Unput(p)
        BY <3>5, <3>6 DEF Unput, Present, disk
      <3>7. CASE Rollback(p)
        <4>1. CASE op[p].at = 0
          BY <3>7, <4>1 DEF Rollback, Present, disk
        <4>2. CASE op[p].at # 0 /\ Old(p) # 0
          BY <3>5, <3>7, <4>2 DEF Rollback, Undo
        <4>3. CASE op[p].at # 0 /\ Old(p) = 0
          <5>1. file' = [file EXCEPT ![DirOf(p)][Name(p)] = 0] /\ aside' = aside
            BY <3>7, <4>3 DEF Rollback, Undo, PutBack, Put
          <5>2. CASE DirOf(p) = d /\ Name(p) = n
            BY <3>7, <4>3, <5>2 DEF Rollback, UndoesFirst
          <5>3. CASE ~(DirOf(p) = d /\ Name(p) = n)
            BY <2>1, <5>1, <5>3 DEF Present
          <5> QED
            BY <5>2, <5>3
        <4> QED
          BY <4>1, <4>2, <4>3
      <3>8. CASE Clean(p)
        <4>1. op[p].pc = "clean" /\ file' = file
          BY <3>8 DEF Clean, At
        <4>2. CASE op[p].names = Pair /\ DirOf(p) = d /\ n # "xray"
          <5>1. file[d][n] = op[p].tag /\ op[p].tag # 0
            BY <3>1, <4>1, <4>2, AtCommit DEF OpInv, FilesInv, Committing, Names
          <5> QED
            BY <4>1, <5>1 DEF Present
        <4>3. CASE ~(op[p].names = Pair /\ DirOf(p) = d /\ n # "xray")
          <5>1. aside'[d][n] = aside[d][n]
            <6> DEFINE gone(m) == {op[p].old[i] : i \in {j \in DOMAIN op[p].old : op[p].names[j] = m}}
            <6>1. aside' = [aside EXCEPT ![DirOf(p)] = [m \in Names |-> aside[DirOf(p)][m] \ gone(m)]]
              BY <3>8 DEF Clean
            <6>2. CASE DirOf(p) # d
              BY <2>1, <6>1, <6>2
            <6>3. CASE DirOf(p) = d
              <7>1. gone(n) = {}
                <8>1. CASE op[p].names = Core /\ op[p].old = <<>>
                  BY <8>1
                <8>2. CASE op[p].names = Pair /\ Len(op[p].old) = 2 /\ op[p].old \in Seq(Tags)
                  <9>1. n = "xray" /\ DOMAIN op[p].old = {1, 2}
                    BY <4>3, <6>3, <8>2
                  <9> QED
                    BY <8>2, <9>1, PairIs
                <8> QED
                  BY <3>1, <4>1, <8>1, <8>2 DEF OpInv, Ops
              <7> QED
                BY <2>1, <6>1, <6>3, <7>1
            <6> QED
              BY <6>2, <6>3
          <5> QED
            BY <4>1, <5>1 DEF Present
        <4> QED
          BY <4>2, <4>3
      <3> QED
        BY <2>3, <3>2, <3>3, <3>4, <3>6, <3>7, <3>8 DEF Step
    <2>4. (\E p \in Loads : LoadDownload(p)) \/ ScreenNext \/ Crash => UNCHANGED disk
      BY DEF LoadDownload, ScreenNext, Open, PickCore, PickRelease, PickGeo, FetchFails, StartOp,
             ScreenDownload, Installed, AnyKey, Quit, Return, Crash
    <2> QED
      BY <2>2, <2>3, <2>4 DEF Next
  <1> QED
    BY <1>1, InstallInvariance, PTL DEF Spec, NothingIsLost

\* "Up to date" is said of the databases that are there (GeoInstalled,
\* MarkGeoInstalled, onGeoRelease).
THEOREM UpToDateIsSaidTruly == Spec => UpToDateIsTrue
  <1>1. IInv /\ [Next]_vars =>
          [PickGeo /\ stage' = "done"
             => file["core"]["geoip"] = slot' /\ file["core"]["geosite"] = slot']_vars
    <2> SUFFICES ASSUME IInv, PickGeo, stage' = "done"
                 PROVE  file["core"]["geoip"] = slot' /\ file["core"]["geosite"] = slot'
      OBVIOUS
    <2>1. PICK v \in 1..MaxTag : v >= slot /\ slot' = v /\ v = marked
      BY DEF PickGeo
    <2>2. MemoryInv /\ marked \in Nat /\ slot \in Nat
      BY DEF IInv, TypeOK
    <2>3. marked # 0 /\ marked = slot
      BY <2>1, <2>2 DEF MemoryInv
    <2> QED
      BY <2>1, <2>2, <2>3 DEF MemoryInv, CorePair
  <1> QED
    BY <1>1, InstallInvariance, PTL DEF Spec, UpToDateIsTrue

=============================================================================
