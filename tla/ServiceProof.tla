---------------------------- MODULE ServiceProof ----------------------------
(***************************************************************************)
(* Proofs about Service: every safety property its runs check, for any     *)
(* connections, users and sessions.  IInv of ServiceInv is inductive: one  *)
(* lemma per action, or per family of actions that touch the same state,   *)
(* with a step per part of IInv the action can disturb and one for the     *)
(* parts it cannot.                                                        *)
(***************************************************************************)
EXTENDS ServiceInv, TLAPS

USE ServiceAssumption

\* A handler's steps that touch nothing but the connection itself.
LEMMA HandlerReadsKeeps ==
  ASSUME IInv, NEW c \in Conns,
         Accept(c) \/ Register(c) \/ HelloFails(c) \/ Hello(c) \/ Disconnect(c) \/
         (\E r \in Requests : Request(c, r)) \/ StopNothing(c) \/
         RefreshNothing(c)
  PROVE  IInv'
<1> USE DEF IInv, TypeOK, Accept, svcVars, timeVars, lifeVars, tunVars,
      Register, HelloFails, Hello, Disconnect, Request, StopNothing, Free,
      MayStop, Answer, RefreshNothing, Mine
<1>1. ConnTypeOK'
  <2>1. pc' \in [Conns -> {"new", "accepted", "hello", "idle", "want", "busy", "gone"}]
    BY DEF ConnTypeOK, Requests
  <2>2. req' \in [Conns -> Requests \cup {"none"}]
    BY DEF ConnTypeOK, Requests
  <2>3. alive' \in [Conns -> BOOLEAN]
    BY DEF ConnTypeOK, Requests
  <2>4. timer' \in [Conns -> {"none", "armed", "fired", "over"}]
    BY DEF ConnTypeOK, Requests
  <2>5. timerOf' \in [Conns -> Sessions \cup {NoSession}]
    BY DEF ConnTypeOK, Requests
  <2> QED
    BY <2>1, <2>2, <2>3, <2>4, <2>5 DEF ConnTypeOK
<1>2. OpInv'
  BY DEF OpInv, ServiceTypeOK, ConnTypeOK, SessionTypeOK, Actors, Handler,
    Timer, Serve, Free, Checking, Mine, Requests, TunTypeOK
<1>3. GraceInv'
  BY DEF GraceInv, ServiceTypeOK, ConnTypeOK, SessionTypeOK
<1>4. HolderIsServed'
  BY DEF HolderIsServed, ServiceTypeOK, ConnTypeOK, SessionTypeOK
<1>5. ServiceTypeOK' /\ SessionTypeOK' /\ TunTypeOK' /\ FreshInv' /\ TunInv' /\
     SplitInv' /\ StopInv' /\ ServeInv' /\ ToldInv' /\ OrphanHasTimer' /\ OwnerHolds'
  BY DEF ServiceTypeOK, Actors, Handler, Timer, Serve, Free, SessionTypeOK,
    TunTypeOK, FreshInv, TunInv, SplitInv, StopInv, ServeInv, ToldInv,
    OrphanHasTimer, OwnerHolds
<1> QED
  BY <1>1, <1>2, <1>3, <1>4, <1>5

\* A session handed to the user's next connection.
LEMMA HelloResumeKeeps ==
  ASSUME IInv, NEW c \in Conns, NEW s \in Sessions,
         HelloResume(c, s)
  PROVE  IInv'
<1> USE DEF IInv, TypeOK, HelloResume, CanResume, Handover, StopGrace, svcVars,
      tunVars
<1>1. ConnTypeOK'
  <2>1. pc' \in [Conns -> {"new", "accepted", "hello", "idle", "want", "busy", "gone"}]
    BY DEF ConnTypeOK
  <2>2. alive' \in [Conns -> BOOLEAN]
    BY DEF ConnTypeOK
  <2>3. timer' \in [Conns -> {"none", "armed", "fired", "over"}]
    BY DEF ConnTypeOK
  <2>4. req' = req /\ timerOf' = timerOf
    OBVIOUS
  <2> QED
    BY <2>1, <2>2, <2>3, <2>4 DEF ConnTypeOK
<1>2. SessionTypeOK'
  BY DEF SessionTypeOK
<1>3. FreshInv'
  BY DEF FreshInv, ServiceTypeOK, ConnTypeOK, SessionTypeOK, TunTypeOK
<1>4. OpInv'
  BY DEF OpInv, ServiceTypeOK, ConnTypeOK, SessionTypeOK, Actors, Handler,
    Timer, Serve, Free, Checking, Mine, Requests, TunTypeOK
<1>5. GraceInv'
  BY DEF GraceInv, ServiceTypeOK, ConnTypeOK, SessionTypeOK
<1>6. ToldInv'
  BY DEF ToldInv, ServiceTypeOK, SessionTypeOK, TunTypeOK, TunInv, FreshInv,
    StopInv, SplitInv, OpInv
<1>7. HolderIsServed'
  BY DEF HolderIsServed, ServiceTypeOK, ConnTypeOK, SessionTypeOK
<1>8. OrphanHasTimer'
  BY DEF OrphanHasTimer, ServiceTypeOK, ConnTypeOK, SessionTypeOK
<1>9. OwnerHolds'
  BY DEF OwnerHolds, ServiceTypeOK, ConnTypeOK, SessionTypeOK
<1>10. ServiceTypeOK' /\ TunTypeOK' /\ TunInv' /\ SplitInv' /\ StopInv' /\ ServeInv'
  BY DEF ServiceTypeOK, Actors, Handler, Timer, Serve, Free, TunTypeOK, TunInv,
    SplitInv, StopInv, ServeInv
<1> QED
  BY <1>1, <1>2, <1>3, <1>4, <1>5, <1>6, <1>7, <1>8, <1>9, <1>10

\* The session loses its connection and its grace period begins.
LEMMA DetachKeeps ==
  ASSUME IInv, NEW c \in Conns,
         Detach(c)
  PROVE  IInv'
<1> USE DEF IInv, TypeOK, Detach, Holds, StartGrace, timeVars, svcVars, tunVars
<1>1. ConnTypeOK'
  BY DEF ConnTypeOK, ServiceTypeOK, Requests
<1>2. SessionTypeOK'
  BY DEF SessionTypeOK
<1>3. FreshInv'
  BY DEF FreshInv, ServiceTypeOK, ConnTypeOK, SessionTypeOK, TunTypeOK
<1>4. OpInv'
  BY DEF OpInv, ServiceTypeOK, ConnTypeOK, SessionTypeOK, Actors, Handler,
    Timer, Serve, Free, Checking, Mine, Requests, TunTypeOK
<1>5. GraceInv'
  BY DEF GraceInv, ServiceTypeOK, ConnTypeOK, SessionTypeOK
<1>6. ToldInv'
  BY DEF ToldInv, ServiceTypeOK, SessionTypeOK, TunTypeOK
<1>7. HolderIsServed'
  BY DEF HolderIsServed, ServiceTypeOK, ConnTypeOK, SessionTypeOK
<1>8. OrphanHasTimer'
  BY DEF OrphanHasTimer, ServiceTypeOK, ConnTypeOK, SessionTypeOK
<1>9. OwnerHolds'
  BY DEF OwnerHolds, ServiceTypeOK, ConnTypeOK, SessionTypeOK
<1>10. ServiceTypeOK' /\ TunTypeOK' /\ TunInv' /\ SplitInv' /\ StopInv' /\ ServeInv'
  BY DEF ServiceTypeOK, Actors, Handler, Timer, Serve, Free, TunTypeOK, TunInv,
    SplitInv, StopInv, ServeInv
<1> QED
  BY <1>1, <1>2, <1>3, <1>4, <1>5, <1>6, <1>7, <1>8, <1>9, <1>10

\* A TUN session is claimed.
LEMMA StartTunKeeps ==
  ASSUME IInv, NEW c \in Conns, NEW s \in Sessions,
         StartTun(c, s)
  PROVE  IInv'
<1> USE DEF IInv, TypeOK, StartTun, Claim, CanClaim, Fresh, opVars, connVars,
      timeVars
<1>1. ServiceTypeOK'
  BY DEF ServiceTypeOK
<1>2. SessionTypeOK'
  BY DEF SessionTypeOK
<1>3. TunTypeOK'
  BY DEF TunTypeOK
<1>4. FreshInv'
  BY DEF FreshInv, ServiceTypeOK, ConnTypeOK, SessionTypeOK, TunTypeOK
<1>5. TunInv'
  BY DEF TunInv, FreshInv, ServiceTypeOK, SessionTypeOK, TunTypeOK, SplitInv,
    OpInv
<1>6. SplitInv'
  BY DEF SplitInv, ServiceTypeOK, SessionTypeOK, TunTypeOK
<1>7. OpInv'
  BY DEF OpInv, ServiceTypeOK, ConnTypeOK, SessionTypeOK, Actors, Handler,
    Timer, Serve, Free, Checking, Mine, Requests, TunTypeOK
<1>8. StopInv'
  BY DEF StopInv, OpInv, ServiceTypeOK, SessionTypeOK, TunTypeOK, FreshInv,
    TunInv, SplitInv, ServeInv, Free
<1>9. ServeInv'
  BY DEF ServeInv, ServiceTypeOK, SessionTypeOK, TunTypeOK
<1>10. ToldInv'
  BY DEF ToldInv, ServiceTypeOK, SessionTypeOK, TunTypeOK
<1>11. HolderIsServed'
  BY DEF HolderIsServed, ServiceTypeOK, ConnTypeOK, SessionTypeOK
<1>12. OrphanHasTimer'
  BY DEF OrphanHasTimer, ServiceTypeOK, ConnTypeOK, SessionTypeOK
<1>13. OwnerHolds'
  BY DEF OwnerHolds, ServiceTypeOK, ConnTypeOK, SessionTypeOK
<1>14. ConnTypeOK' /\ GraceInv'
  BY DEF ConnTypeOK, Requests, GraceInv
<1> QED
  BY <1>1, <1>2, <1>3, <1>4, <1>5, <1>6, <1>7, <1>8, <1>9, <1>10, <1>11, <1>12,
     <1>13, <1>14

\* A stop marks the session and goes on with op held.
LEMMA StopKeeps ==
  ASSUME IInv, NEW c \in Conns,
         Stop(c)
  PROVE  IInv'
<1> USE DEF IInv, TypeOK, Stop, Free, MayStop, Unclaimed, MarkStop, StopGrace,
      TakeOp, Handler, IsDown, Answer, opVars, marked, tunVars
<1>1. ServiceTypeOK'
  BY DEF ServiceTypeOK, ConnTypeOK, Actors, Handler, Timer, Serve, Free
<1>2. ConnTypeOK'
  BY DEF ConnTypeOK
<1>3. SessionTypeOK'
  BY DEF SessionTypeOK
<1>4. FreshInv'
  BY DEF FreshInv, ServiceTypeOK, ConnTypeOK, SessionTypeOK, TunTypeOK
<1>5. OpInv'
  BY DEF OpInv, ServiceTypeOK, ConnTypeOK, SessionTypeOK, Actors, Handler,
    Timer, Serve, Free, Checking, Mine, Requests, TunTypeOK
<1>6. StopInv'
  BY DEF StopInv, ServiceTypeOK, SessionTypeOK, TunTypeOK, Free
<1>7. GraceInv'
  BY DEF GraceInv, ServiceTypeOK, ConnTypeOK, SessionTypeOK
<1>8. ToldInv'
  BY DEF ToldInv, ServiceTypeOK, SessionTypeOK, TunTypeOK
<1>9. HolderIsServed'
  BY DEF HolderIsServed, ServiceTypeOK, ConnTypeOK, SessionTypeOK
<1>10. OrphanHasTimer'
  BY DEF OrphanHasTimer, ServiceTypeOK, ConnTypeOK, SessionTypeOK
<1>11. TunTypeOK' /\ TunInv' /\ SplitInv' /\ ServeInv' /\ OwnerHolds'
  BY DEF TunTypeOK, TunInv, SplitInv, ServeInv, OwnerHolds
<1> QED
  BY <1>1, <1>2, <1>3, <1>4, <1>5, <1>6, <1>7, <1>8, <1>9, <1>10, <1>11

\* A split request takes op.
LEMMA SplitKeeps ==
  ASSUME IInv, NEW c \in Conns,
         Split(c)
  PROVE  IInv'
<1> USE DEF IInv, TypeOK, Split, Mine, Free, TakeOp, Handler, timeVars,
      lifeVars, tunVars
<1>1. ServiceTypeOK'
  BY DEF ServiceTypeOK, ConnTypeOK, Actors, Handler, Timer, Serve, Free
<1>2. ConnTypeOK'
  BY DEF ConnTypeOK
<1>3. FreshInv'
  BY DEF FreshInv, ServiceTypeOK, ConnTypeOK, SessionTypeOK, TunTypeOK
<1>4. OpInv'
  BY DEF OpInv, ServiceTypeOK, ConnTypeOK, SessionTypeOK, Actors, Handler,
    Timer, Serve, Free, Checking, Mine, Requests, TunTypeOK
<1>5. StopInv'
  BY DEF StopInv, OpInv, ServiceTypeOK, SessionTypeOK, TunTypeOK, FreshInv,
    TunInv, SplitInv, ServeInv, Free
<1>6. GraceInv'
  BY DEF GraceInv, ServiceTypeOK, ConnTypeOK, SessionTypeOK
<1>7. HolderIsServed'
  BY DEF HolderIsServed, ServiceTypeOK, ConnTypeOK, SessionTypeOK
<1>8. SessionTypeOK' /\ TunTypeOK' /\ TunInv' /\ SplitInv' /\ ServeInv' /\ ToldInv' /\
     OrphanHasTimer' /\ OwnerHolds'
  BY DEF SessionTypeOK, TunTypeOK, TunInv, SplitInv, ServeInv, ToldInv,
    OrphanHasTimer, OwnerHolds
<1> QED
  BY <1>1, <1>2, <1>3, <1>4, <1>5, <1>6, <1>7, <1>8

\* A refused refresh marks the session.
LEMMA RefreshRefusedKeeps ==
  ASSUME IInv, NEW c \in Conns,
         RefreshRefused(c)
  PROVE  IInv'
<1> USE DEF IInv, TypeOK, RefreshRefused, Checking, Handler, Unclaimed,
      MarkStop, StopGrace, TakeOp, ReleaseOp, Free, marked, tunVars
<1>1. ServiceTypeOK'
  BY DEF ServiceTypeOK, ConnTypeOK, Actors, Handler, Timer, Serve, Free
<1>2. ConnTypeOK'
  BY DEF ConnTypeOK
<1>3. SessionTypeOK'
  BY DEF SessionTypeOK
<1>4. FreshInv'
  BY DEF FreshInv, ServiceTypeOK, ConnTypeOK, SessionTypeOK, TunTypeOK
<1>5. OpInv'
  BY DEF OpInv, ServiceTypeOK, ConnTypeOK, SessionTypeOK, Actors, Handler,
    Timer, Serve, Free, Checking, Mine, Requests, TunTypeOK
<1>6. StopInv'
  BY DEF StopInv, ServiceTypeOK, SessionTypeOK, TunTypeOK, Free
<1>7. GraceInv'
  BY DEF GraceInv, ServiceTypeOK, ConnTypeOK, SessionTypeOK, FreshInv, OpInv,
    HolderIsServed
<1>8. ToldInv'
  BY DEF ToldInv, ServiceTypeOK, SessionTypeOK, TunTypeOK, TunInv, FreshInv,
    StopInv, SplitInv, OpInv
<1>9. HolderIsServed'
  BY DEF HolderIsServed, ServiceTypeOK, ConnTypeOK, SessionTypeOK
<1>10. OrphanHasTimer'
  BY DEF OrphanHasTimer, ServeInv, ServiceTypeOK, ConnTypeOK, SessionTypeOK,
    GraceInv, FreshInv, TunInv, SplitInv, OpInv, StopInv
<1>11. TunTypeOK' /\ TunInv' /\ SplitInv' /\ ServeInv' /\ OwnerHolds'
  BY DEF TunTypeOK, TunInv, SplitInv, ServeInv, OwnerHolds
<1> QED
  BY <1>1, <1>2, <1>3, <1>4, <1>5, <1>6, <1>7, <1>8, <1>9, <1>10, <1>11

\* Steps that do no more than let go of op.
LEMMA OpReleasesKeeps ==
  ASSUME IInv, NEW c \in Conns,
         RefreshSplit(c) \/ EnableRefused(c)
  PROVE  IInv'
<1> USE DEF IInv, TypeOK, RefreshSplit, Checking, Handler, ReleaseOp, TakeOp,
      Free, timeVars, lifeVars, tunVars, EnableRefused
<1>1. ServiceTypeOK'
  BY DEF ServiceTypeOK, ConnTypeOK, Actors, Handler, Timer, Serve, Free
<1>2. ConnTypeOK'
  BY DEF ConnTypeOK
<1>3. FreshInv'
  BY DEF FreshInv, ServiceTypeOK, ConnTypeOK, SessionTypeOK, TunTypeOK
<1>4. OpInv'
  BY DEF OpInv, ServiceTypeOK, ConnTypeOK, SessionTypeOK, Actors, Handler,
    Timer, Serve, Free, Checking, Mine, Requests, TunTypeOK
<1>5. StopInv'
  BY DEF StopInv, OpInv, ServiceTypeOK, SessionTypeOK, TunTypeOK, FreshInv,
    TunInv, SplitInv, ServeInv, Free
<1>6. GraceInv'
  BY DEF GraceInv, ServiceTypeOK, ConnTypeOK, SessionTypeOK, FreshInv, OpInv,
    HolderIsServed
<1>7. HolderIsServed'
  BY DEF HolderIsServed, ServiceTypeOK, ConnTypeOK, SessionTypeOK
<1>8. SessionTypeOK' /\ TunTypeOK' /\ TunInv' /\ SplitInv' /\ ServeInv' /\ ToldInv' /\
     OrphanHasTimer' /\ OwnerHolds'
  BY DEF SessionTypeOK, TunTypeOK, TunInv, SplitInv, ServeInv, ToldInv,
    OrphanHasTimer, OwnerHolds
<1> QED
  BY <1>1, <1>2, <1>3, <1>4, <1>5, <1>6, <1>7, <1>8

\* A split session is claimed.
LEMMA EnableClaimsKeeps ==
  ASSUME IInv, NEW c \in Conns, NEW s \in Sessions,
         EnableClaims(c, s)
  PROVE  IInv'
<1> USE DEF IInv, TypeOK, EnableClaims, Checking, Handler, Claim, CanClaim,
      Fresh, TakeOp, connVars, timeVars, tunVars
<1>1. ServiceTypeOK'
  BY DEF ServiceTypeOK
<1>2. SessionTypeOK'
  BY DEF SessionTypeOK
<1>3. FreshInv'
  BY DEF FreshInv, ServiceTypeOK, ConnTypeOK, SessionTypeOK, TunTypeOK
<1>4. TunInv'
  BY DEF TunInv, ServiceTypeOK, SessionTypeOK, TunTypeOK
<1>5. SplitInv'
  BY DEF SplitInv, TunInv, FreshInv, ServiceTypeOK, SessionTypeOK, TunTypeOK,
    OpInv, StopInv
<1>6. OpInv'
  BY DEF OpInv, GraceInv, ServiceTypeOK, ConnTypeOK, SessionTypeOK, Actors,
    Handler, Timer, Serve, Free, Checking, Mine, Requests, FreshInv, TunInv,
    TunTypeOK, SplitInv, StopInv, ServeInv
<1>7. StopInv'
  BY DEF StopInv, OpInv, ServiceTypeOK, SessionTypeOK, TunTypeOK, FreshInv,
    TunInv, SplitInv, ServeInv, Free
<1>8. ServeInv'
  BY DEF ServeInv, ServiceTypeOK, SessionTypeOK, TunTypeOK
<1>9. ToldInv'
  BY DEF ToldInv, ServiceTypeOK, SessionTypeOK, TunTypeOK, TunInv, FreshInv,
    StopInv, SplitInv, OpInv
<1>10. HolderIsServed'
  BY DEF HolderIsServed, ServiceTypeOK, ConnTypeOK, SessionTypeOK, FreshInv,
    OpInv, SplitInv
<1>11. OrphanHasTimer'
  BY DEF OrphanHasTimer, ServiceTypeOK, ConnTypeOK, SessionTypeOK
<1>12. OwnerHolds'
  BY DEF OwnerHolds, ServiceTypeOK, ConnTypeOK, SessionTypeOK
<1>13. ConnTypeOK' /\ TunTypeOK' /\ GraceInv'
  BY DEF ConnTypeOK, Requests, TunTypeOK, GraceInv
<1> QED
  BY <1>1, <1>2, <1>3, <1>4, <1>5, <1>6, <1>7, <1>8, <1>9, <1>10, <1>11, <1>12,
     <1>13

\* The split that is up is enabled again.
LEMMA EnableAgainKeeps ==
  ASSUME IInv, NEW c \in Conns,
         EnableAgain(c)
  PROVE  IInv'
<1> USE DEF IInv, TypeOK, EnableAgain, Checking, Handler, TakeOp, connVars,
      timeVars, lifeVars, tunVars
<1>1. ServiceTypeOK'
  BY DEF ServiceTypeOK
<1>2. FreshInv'
  BY DEF FreshInv, ServiceTypeOK, ConnTypeOK, SessionTypeOK, TunTypeOK
<1>3. OpInv'
  BY DEF OpInv, ServiceTypeOK, ConnTypeOK, SessionTypeOK, Actors, Handler,
    Timer, Serve, Free, Checking, Mine, Requests, TunTypeOK
<1>4. StopInv'
  BY DEF StopInv, ServiceTypeOK, SessionTypeOK, TunTypeOK, Free
<1>5. ConnTypeOK' /\ SessionTypeOK' /\ TunTypeOK' /\ TunInv' /\ SplitInv' /\ ServeInv' /\
     GraceInv' /\ ToldInv' /\ HolderIsServed' /\ OrphanHasTimer' /\ OwnerHolds'
  BY DEF ConnTypeOK, Requests, SessionTypeOK, TunTypeOK, TunInv, SplitInv,
    ServeInv, GraceInv, ToldInv, HolderIsServed, OrphanHasTimer, OwnerHolds
<1> QED
  BY <1>1, <1>2, <1>3, <1>4, <1>5

\* The rules are up.
LEMMA EnableSplitKeeps ==
  ASSUME IInv, NEW c \in Conns,
         EnableSplit(c)
  PROVE  IInv'
<1> USE DEF IInv, TypeOK, EnableSplit, Handler, ReleaseOp, TakeOp, Free,
      timeVars, lifeVars, tunVars
<1>1. ServiceTypeOK'
  BY DEF ServiceTypeOK, ConnTypeOK, Actors, Handler, Timer, Serve, Free
<1>2. ConnTypeOK'
  BY DEF ConnTypeOK
<1>3. SessionTypeOK'
  BY DEF SessionTypeOK
<1>4. TunTypeOK'
  BY DEF TunTypeOK
<1>5. FreshInv'
  BY DEF FreshInv, ServiceTypeOK, ConnTypeOK, SessionTypeOK, TunTypeOK
<1>6. TunInv'
  BY DEF TunInv, FreshInv, ServiceTypeOK, SessionTypeOK, TunTypeOK, SplitInv,
    OpInv
<1>7. SplitInv'
  BY DEF SplitInv, TunInv, FreshInv, ServiceTypeOK, SessionTypeOK, TunTypeOK,
    OpInv, StopInv
<1>8. OpInv'
  BY DEF OpInv, ServiceTypeOK, ConnTypeOK, SessionTypeOK, Actors, Handler,
    Timer, Serve, Free, Checking, Mine, Requests, TunTypeOK
<1>9. StopInv'
  BY DEF StopInv, ServiceTypeOK, SessionTypeOK, TunTypeOK, Free
<1>10. GraceInv'
  BY DEF GraceInv, ServiceTypeOK, ConnTypeOK, SessionTypeOK, FreshInv, OpInv,
    HolderIsServed
<1>11. HolderIsServed'
  BY DEF HolderIsServed, ServiceTypeOK, ConnTypeOK, SessionTypeOK
<1>12. ServeInv' /\ ToldInv' /\ OrphanHasTimer' /\ OwnerHolds'
  BY DEF ServeInv, ToldInv, OrphanHasTimer, OwnerHolds
<1> QED
  BY <1>1, <1>2, <1>3, <1>4, <1>5, <1>6, <1>7, <1>8, <1>9, <1>10, <1>11, <1>12

\* The rules are not up and the session is dropped.
LEMMA EnableFailsKeeps ==
  ASSUME IInv, NEW c \in Conns,
         EnableFails(c)
  PROVE  IInv'
<1> USE DEF IInv, TypeOK, EnableFails, Handler, Unclaimed, MarkStop, StopGrace,
      ForgetSession, marked, ReleaseOp, TakeOp, Free, tunVars, SplitTakenDown
<1>1. ServiceTypeOK'
  BY DEF ServiceTypeOK, ConnTypeOK, Actors, Handler, Timer, Serve, Free
<1>2. ConnTypeOK'
  BY DEF ConnTypeOK
<1>3. SessionTypeOK'
  <2>0. opSess \in Sessions
    BY DEF OpInv, ServiceTypeOK
  <2>1. kind' \in [Sessions -> {"none", "tun", "split"}]
    BY <2>0 DEF SessionTypeOK
  <2>2. owner' \in [Sessions -> Users \cup {"nobody"}]
    BY <2>0 DEF SessionTypeOK
  <2>3. holder' \in [Sessions -> Conns \cup {NoConn}]
    BY <2>0 DEF SessionTypeOK
  <2>4. grace' \in [Sessions -> Conns \cup {NoConn}]
    BY <2>0 DEF SessionTypeOK
  <2>5. stopping' \in [Sessions -> BOOLEAN]
    BY <2>0 DEF SessionTypeOK
  <2>6. stoppedBy' \in [Sessions -> Conns \cup {NoConn}]
    BY <2>0 DEF SessionTypeOK
  <2>7. done' \in [Sessions -> Nat]
    BY <2>0 DEF SessionTypeOK
  <2>8. host' \in [Sessions -> {"off", "up", "left"}]
    BY <2>0 DEF SessionTypeOK
  <2> QED
    BY <2>1, <2>2, <2>3, <2>4, <2>5, <2>6, <2>7, <2>8 DEF SessionTypeOK
<1>4. FreshInv'
  BY DEF FreshInv, ServiceTypeOK, ConnTypeOK, SessionTypeOK, TunTypeOK
<1>5. TunInv'
  BY DEF TunInv, FreshInv, ServiceTypeOK, SessionTypeOK, TunTypeOK, SplitInv,
    OpInv
<1>6. SplitInv'
  BY DEF SplitInv, TunInv, FreshInv, ServiceTypeOK, SessionTypeOK, TunTypeOK,
    OpInv, StopInv
<1>7. OpInv'
  BY DEF OpInv, ServiceTypeOK, ConnTypeOK, SessionTypeOK, Actors, Handler,
    Timer, Serve, Free, Checking, Mine, Requests, TunTypeOK
<1>8. StopInv'
  BY DEF StopInv, ServiceTypeOK, SessionTypeOK, TunTypeOK, Free
<1>9. ServeInv'
  BY DEF ServeInv, ServiceTypeOK, SessionTypeOK, TunTypeOK
<1>10. GraceInv'
  BY DEF GraceInv, ServiceTypeOK, ConnTypeOK, SessionTypeOK, FreshInv, OpInv,
    HolderIsServed
<1>11. ToldInv'
  BY DEF ToldInv, ServiceTypeOK, SessionTypeOK, TunTypeOK, TunInv, FreshInv,
    StopInv, SplitInv, OpInv
<1>12. HolderIsServed'
  BY DEF HolderIsServed, ServiceTypeOK, ConnTypeOK, SessionTypeOK
<1>13. OrphanHasTimer'
  BY DEF OrphanHasTimer, ServeInv, ServiceTypeOK, ConnTypeOK, SessionTypeOK,
    GraceInv, FreshInv, TunInv, SplitInv, OpInv, StopInv
<1>14. TunTypeOK' /\ OwnerHolds'
  BY DEF TunTypeOK, OwnerHolds
<1> QED
  BY <1>1, <1>2, <1>3, <1>4, <1>5, <1>6, <1>7, <1>8, <1>9, <1>10, <1>11, <1>12,
     <1>13, <1>14

\* A timer that fires, and a callback that returns.
LEMMA TimerMovesKeeps ==
  ASSUME IInv, NEW c \in Conns,
         TimerFires(c) \/ TimerIdle(c)
  PROVE  IInv'
<1> USE DEF IInv, TypeOK, TimerFires, svcVars, connVars, lifeVars, tunVars,
      TimerIdle, Free, Orphan, Unclaimed
<1>1. ConnTypeOK'
  BY DEF ConnTypeOK
<1>2. GraceInv'
  BY DEF GraceInv, ServiceTypeOK, ConnTypeOK, SessionTypeOK
<1>3. OrphanHasTimer'
  BY DEF OrphanHasTimer, ServiceTypeOK, ConnTypeOK, SessionTypeOK
<1>4. ServiceTypeOK' /\ SessionTypeOK' /\ TunTypeOK' /\ FreshInv' /\ TunInv' /\
     SplitInv' /\ OpInv' /\ StopInv' /\ ServeInv' /\ ToldInv' /\ HolderIsServed' /\
     OwnerHolds'
  BY DEF ServiceTypeOK, Actors, Handler, Timer, Serve, Free, SessionTypeOK,
    TunTypeOK, FreshInv, TunInv, SplitInv, OpInv, Checking, Mine, Requests,
    StopInv, ServeInv, ToldInv, HolderIsServed, OwnerHolds
<1> QED
  BY <1>1, <1>2, <1>3, <1>4

\* A grace timer marks the session.
LEMMA TimerStopsKeeps ==
  ASSUME IInv, NEW c \in Conns,
         TimerStops(c)
  PROVE  IInv'
<1> USE DEF IInv, TypeOK, TimerStops, Free, Orphan, Unclaimed, MarkStop,
      StopGrace, TakeOp, Timer, connVars, tunVars
<1>1. ServiceTypeOK'
  BY DEF ServiceTypeOK, ConnTypeOK, Actors, Handler, Timer, Serve, Free
<1>2. ConnTypeOK'
  BY DEF ConnTypeOK
<1>3. SessionTypeOK'
  BY DEF SessionTypeOK
<1>4. FreshInv'
  BY DEF FreshInv, ServiceTypeOK, ConnTypeOK, SessionTypeOK, TunTypeOK
<1>5. OpInv'
  BY DEF OpInv, GraceInv, ServiceTypeOK, ConnTypeOK, SessionTypeOK, Actors,
    Handler, Timer, Serve, Free, Checking, Mine, Requests, FreshInv, TunInv,
    TunTypeOK, SplitInv, StopInv, ServeInv
<1>6. StopInv'
  BY DEF StopInv, ServiceTypeOK, SessionTypeOK, TunTypeOK, Free
<1>7. GraceInv'
  BY DEF GraceInv, ServiceTypeOK, ConnTypeOK, SessionTypeOK
<1>8. ToldInv'
  BY DEF ToldInv, ServiceTypeOK, SessionTypeOK, TunTypeOK
<1>9. OrphanHasTimer'
  BY DEF OrphanHasTimer, ServiceTypeOK, ConnTypeOK, SessionTypeOK
<1>10. TunTypeOK' /\ TunInv' /\ SplitInv' /\ ServeInv' /\ HolderIsServed' /\ OwnerHolds'
  BY DEF TunTypeOK, TunInv, SplitInv, ServeInv, HolderIsServed, OwnerHolds
<1> QED
  BY <1>1, <1>2, <1>3, <1>4, <1>5, <1>6, <1>7, <1>8, <1>9, <1>10

\* A TUN session is down and op is free.
LEMMA FinishTunKeeps ==
  ASSUME IInv,
         FinishTun
  PROVE  IInv'
<1> USE DEF IInv, TypeOK, FinishTun, IsDown, ReleaseOp, TakeOp, Free, Handler,
      timeVars, lifeVars, tunVars
<1>1. ServiceTypeOK'
  BY DEF ServiceTypeOK, ConnTypeOK, Actors, Handler, Timer, Serve, Free
<1>2. ConnTypeOK'
  BY DEF ConnTypeOK
<1>3. FreshInv'
  BY DEF FreshInv, ServiceTypeOK, ConnTypeOK, SessionTypeOK, TunTypeOK
<1>4. OpInv'
  BY DEF OpInv, ServiceTypeOK, ConnTypeOK, SessionTypeOK, Actors, Handler,
    Timer, Serve, Free, Checking, Mine, Requests, TunTypeOK
<1>5. StopInv'
  BY DEF StopInv, OpInv, ServiceTypeOK, SessionTypeOK, TunTypeOK, FreshInv,
    TunInv, SplitInv, ServeInv, Free
<1>6. GraceInv'
  BY DEF GraceInv, ServiceTypeOK, ConnTypeOK, SessionTypeOK, FreshInv, OpInv,
    HolderIsServed
<1>7. HolderIsServed'
  BY DEF HolderIsServed, ServiceTypeOK, ConnTypeOK, SessionTypeOK
<1>8. SessionTypeOK' /\ TunTypeOK' /\ TunInv' /\ SplitInv' /\ ServeInv' /\ ToldInv' /\
     OrphanHasTimer' /\ OwnerHolds'
  BY DEF SessionTypeOK, TunTypeOK, TunInv, SplitInv, ServeInv, ToldInv,
    OrphanHasTimer, OwnerHolds
<1> QED
  BY <1>1, <1>2, <1>3, <1>4, <1>5, <1>6, <1>7, <1>8

\* The rules come down.
LEMMA DisableSplitKeeps ==
  ASSUME IInv,
         DisableSplit
  PROVE  IInv'
<1> USE DEF IInv, TypeOK, DisableSplit, TakeOp, connVars, timeVars, lifeVars,
      tunVars, SplitTakenDown
<1>1. ServiceTypeOK'
  BY DEF ServiceTypeOK
<1>2. SessionTypeOK'
  BY DEF SessionTypeOK
<1>3. FreshInv'
  BY DEF FreshInv, ServiceTypeOK, ConnTypeOK, SessionTypeOK, TunTypeOK
<1>4. TunInv'
  BY DEF TunInv, ServiceTypeOK, SessionTypeOK, TunTypeOK
<1>5. SplitInv'
  BY DEF SplitInv, ServiceTypeOK, SessionTypeOK, TunTypeOK
<1>6. OpInv'
  BY DEF OpInv, ServiceTypeOK, ConnTypeOK, SessionTypeOK, Actors, Handler,
    Timer, Serve, Free, Checking, Mine, Requests, TunTypeOK
<1>7. StopInv'
  BY DEF StopInv, ServiceTypeOK, SessionTypeOK, TunTypeOK, Free
<1>8. ConnTypeOK' /\ TunTypeOK' /\ ServeInv' /\ GraceInv' /\ ToldInv' /\ HolderIsServed' /\
     OrphanHasTimer' /\ OwnerHolds'
  BY DEF ConnTypeOK, Requests, TunTypeOK, ServeInv, GraceInv, ToldInv,
    HolderIsServed, OrphanHasTimer, OwnerHolds
<1> QED
  BY <1>1, <1>2, <1>3, <1>4, <1>5, <1>6, <1>7, <1>8

\* A split session is over.
LEMMA DropSplitKeeps ==
  ASSUME IInv,
         DropSplit
  PROVE  IInv'
<1> USE DEF IInv, TypeOK, DropSplit, ForgetSession, ReleaseOp, TakeOp, Free,
      Handler, timeVars, tunVars
<1>1. ServiceTypeOK'
  BY DEF ServiceTypeOK, ConnTypeOK, Actors, Handler, Timer, Serve, Free
<1>2. ConnTypeOK'
  BY DEF ConnTypeOK
<1>3. SessionTypeOK'
  BY DEF SessionTypeOK, ServiceTypeOK, ConnTypeOK, OpInv, ServeInv, FreshInv
<1>4. FreshInv'
  BY DEF FreshInv, ServiceTypeOK, ConnTypeOK, SessionTypeOK, TunTypeOK
<1>5. TunInv'
  BY DEF TunInv, FreshInv, ServiceTypeOK, SessionTypeOK, TunTypeOK, SplitInv,
    OpInv
<1>6. SplitInv'
  BY DEF SplitInv, TunInv, FreshInv, ServiceTypeOK, SessionTypeOK, TunTypeOK,
    OpInv, StopInv
<1>7. OpInv'
  BY DEF OpInv, ServiceTypeOK, ConnTypeOK, SessionTypeOK, Actors, Handler,
    Timer, Serve, Free, Checking, Mine, Requests, TunTypeOK
<1>8. StopInv'
  BY DEF StopInv, OpInv, ServiceTypeOK, SessionTypeOK, TunTypeOK, FreshInv,
    TunInv, SplitInv, ServeInv, Free
<1>9. ServeInv'
  BY DEF ServeInv, ServiceTypeOK, SessionTypeOK, TunTypeOK
<1>10. GraceInv'
  BY DEF GraceInv, ServiceTypeOK, ConnTypeOK, SessionTypeOK, FreshInv, OpInv,
    HolderIsServed
<1>11. HolderIsServed'
  BY DEF HolderIsServed, ServiceTypeOK, ConnTypeOK, SessionTypeOK
<1>12. OrphanHasTimer'
  BY DEF OrphanHasTimer, ServiceTypeOK, ConnTypeOK, SessionTypeOK
<1>13. TunTypeOK' /\ ToldInv' /\ OwnerHolds'
  BY DEF TunTypeOK, ToldInv, OwnerHolds
<1> QED
  BY <1>1, <1>2, <1>3, <1>4, <1>5, <1>6, <1>7, <1>8, <1>9, <1>10, <1>11, <1>12,
     <1>13

\* ServeTun at work on the machine.
LEMMA TunRunsKeeps ==
  ASSUME IInv, NEW s \in Sessions,
         TunRaise(s) \/ TunReady(s) \/ TunReturn(s)
  PROVE  IInv'
<1> USE DEF IInv, TypeOK, TunRaise, svcVars, connVars, timeVars, lifeVars,
      TunReady, TunReturn
<1>1. SessionTypeOK'
  BY DEF SessionTypeOK
<1>2. TunTypeOK'
  BY DEF TunTypeOK
<1>3. FreshInv'
  BY DEF FreshInv, ServiceTypeOK, ConnTypeOK, SessionTypeOK, TunTypeOK
<1>4. TunInv'
  BY DEF TunInv, ServiceTypeOK, SessionTypeOK, TunTypeOK
<1>5. SplitInv'
  BY DEF SplitInv, TunInv, FreshInv, ServiceTypeOK, SessionTypeOK, TunTypeOK,
    OpInv, StopInv
<1>6. OpInv'
  BY DEF OpInv, GraceInv, ServiceTypeOK, ConnTypeOK, SessionTypeOK, Actors,
    Handler, Timer, Serve, Free, Checking, Mine, Requests, FreshInv, TunInv,
    TunTypeOK, SplitInv, StopInv, ServeInv
<1>7. ToldInv'
  BY DEF ToldInv, ServiceTypeOK, SessionTypeOK, TunTypeOK
<1>8. ServiceTypeOK' /\ ConnTypeOK' /\ StopInv' /\ ServeInv' /\ GraceInv' /\
     HolderIsServed' /\ OrphanHasTimer' /\ OwnerHolds'
  BY DEF ServiceTypeOK, Actors, Handler, Timer, Serve, Free, ConnTypeOK,
    Requests, StopInv, ServeInv, GraceInv, HolderIsServed, OrphanHasTimer,
    OwnerHolds
<1> QED
  BY <1>1, <1>2, <1>3, <1>4, <1>5, <1>6, <1>7, <1>8

\* A TUN session is no longer the service's.
LEMMA TunUnhookKeeps ==
  ASSUME IInv, NEW s \in Sessions,
         TunUnhook(s)
  PROVE  IInv'
<1> USE DEF IInv, TypeOK, TunUnhook, TunReturned, StopGrace, ToTell, opVars,
      connVars, lifeVars
<1>1. ServiceTypeOK'
  BY DEF ServiceTypeOK
<1>2. ConnTypeOK'
  BY DEF ConnTypeOK
<1>3. TunTypeOK'
  BY DEF TunTypeOK, ServiceTypeOK, SessionTypeOK
<1>4. FreshInv'
  BY DEF FreshInv, ServiceTypeOK, ConnTypeOK, SessionTypeOK, TunTypeOK
<1>5. TunInv'
  BY DEF TunInv, ServiceTypeOK, SessionTypeOK, TunTypeOK
<1>6. SplitInv'
  BY DEF SplitInv, TunInv, FreshInv, ServiceTypeOK, SessionTypeOK, TunTypeOK,
    OpInv, StopInv
<1>7. OpInv'
  BY DEF OpInv, GraceInv, ServiceTypeOK, ConnTypeOK, SessionTypeOK, Actors,
    Handler, Timer, Serve, Free, Checking, Mine, Requests, FreshInv, TunInv,
    TunTypeOK, SplitInv, StopInv, ServeInv
<1>8. StopInv'
  BY DEF StopInv, ServiceTypeOK, SessionTypeOK, TunTypeOK, Free
<1>9. ServeInv'
  BY DEF ServeInv, ServiceTypeOK, SessionTypeOK, TunTypeOK
<1>10. GraceInv'
  BY DEF GraceInv, ServiceTypeOK, ConnTypeOK, SessionTypeOK
<1>11. ToldInv'
  BY DEF ToldInv, ServiceTypeOK, SessionTypeOK, TunTypeOK
<1>12. HolderIsServed'
  BY DEF HolderIsServed, ServiceTypeOK, ConnTypeOK, SessionTypeOK
<1>13. OrphanHasTimer'
  BY DEF OrphanHasTimer, ServeInv, ServiceTypeOK, ConnTypeOK, SessionTypeOK,
    GraceInv, FreshInv, TunInv, SplitInv, OpInv, StopInv
<1>14. SessionTypeOK' /\ OwnerHolds'
  BY DEF SessionTypeOK, OwnerHolds
<1> QED
  BY <1>1, <1>2, <1>3, <1>4, <1>5, <1>6, <1>7, <1>8, <1>9, <1>10, <1>11, <1>12,
     <1>13, <1>14

\* done of a TUN session is closed.
LEMMA TunDoneKeeps ==
  ASSUME IInv, NEW s \in Sessions,
         TunDone(s)
  PROVE  IInv'
<1> USE DEF IInv, TypeOK, TunDone, svcVars, connVars, timeVars
<1>1. SessionTypeOK'
  BY DEF SessionTypeOK
<1>2. TunTypeOK'
  BY DEF TunTypeOK
<1>3. FreshInv'
  BY DEF FreshInv, ServiceTypeOK, ConnTypeOK, SessionTypeOK, TunTypeOK
<1>4. TunInv'
  BY DEF TunInv, ServiceTypeOK, SessionTypeOK, TunTypeOK
<1>5. SplitInv'
  BY DEF SplitInv, TunInv, FreshInv, ServiceTypeOK, SessionTypeOK, TunTypeOK,
    OpInv, StopInv
<1>6. StopInv'
  BY DEF StopInv, OpInv, ServiceTypeOK, SessionTypeOK, TunTypeOK, FreshInv,
    TunInv, SplitInv, ServeInv, Free
<1>7. ToldInv'
  BY DEF ToldInv, ServiceTypeOK, SessionTypeOK, TunTypeOK
<1>8. ServiceTypeOK' /\ ConnTypeOK' /\ OpInv' /\ ServeInv' /\ GraceInv' /\
     HolderIsServed' /\ OrphanHasTimer' /\ OwnerHolds'
  BY DEF ServiceTypeOK, Actors, Handler, Timer, Serve, Free, ConnTypeOK,
    Requests, OpInv, Checking, Mine, ServeInv, GraceInv, HolderIsServed,
    OrphanHasTimer, OwnerHolds
<1> QED
  BY <1>1, <1>2, <1>3, <1>4, <1>5, <1>6, <1>7, <1>8

\* The pump speaks.
LEMMA PumpKeeps ==
  ASSUME IInv, NEW s \in Sessions,
         PumpReply(s) \/ PumpEnds(s)
  PROVE  IInv'
<1> USE DEF IInv, TypeOK, PumpReply, IsDown, svcVars, connVars, timeVars,
      lifeVars, PumpEnds
<1>1. TunTypeOK'
  BY DEF TunTypeOK
<1>2. FreshInv'
  BY DEF FreshInv, ServiceTypeOK, ConnTypeOK, SessionTypeOK, TunTypeOK
<1>3. TunInv'
  BY DEF TunInv, ServiceTypeOK, SessionTypeOK, TunTypeOK
<1>4. ToldInv'
  BY DEF ToldInv, ServiceTypeOK, SessionTypeOK, TunTypeOK, TunInv, FreshInv,
    StopInv, SplitInv, OpInv
<1>5. ServiceTypeOK' /\ ConnTypeOK' /\ SessionTypeOK' /\ SplitInv' /\ OpInv' /\ StopInv' /\
     ServeInv' /\ GraceInv' /\ HolderIsServed' /\ OrphanHasTimer' /\ OwnerHolds'
  BY DEF ServiceTypeOK, Actors, Handler, Timer, Serve, Free, ConnTypeOK,
    Requests, SessionTypeOK, SplitInv, OpInv, Checking, Mine, StopInv,
    ServeInv, GraceInv, HolderIsServed, OrphanHasTimer, OwnerHolds
<1> QED
  BY <1>1, <1>2, <1>3, <1>4, <1>5

\* The service begins to close.
LEMMA ShutdownKeeps ==
  ASSUME IInv,
         Shutdown
  PROVE  IInv'
<1> USE DEF IInv, TypeOK, Shutdown, opVars, connVars, timeVars, lifeVars,
      tunVars
<1>1. ServiceTypeOK'
  BY DEF ServiceTypeOK
<1>2. FreshInv'
  BY DEF FreshInv, ServiceTypeOK, ConnTypeOK, SessionTypeOK, TunTypeOK
<1>3. ServeInv'
  BY DEF ServeInv, ServiceTypeOK, SessionTypeOK, TunTypeOK
<1>4. ConnTypeOK' /\ SessionTypeOK' /\ TunTypeOK' /\ TunInv' /\ SplitInv' /\ OpInv' /\
     StopInv' /\ GraceInv' /\ ToldInv' /\ HolderIsServed' /\ OrphanHasTimer' /\
     OwnerHolds'
  BY DEF ConnTypeOK, Requests, SessionTypeOK, TunTypeOK, TunInv, SplitInv,
    OpInv, Actors, Handler, Timer, Serve, Free, Checking, Mine, StopInv,
    GraceInv, ToldInv, HolderIsServed, OrphanHasTimer, OwnerHolds
<1> QED
  BY <1>1, <1>2, <1>3, <1>4

\* Serve marks the session.
LEMMA TeardownKeeps ==
  ASSUME IInv,
         Teardown
  PROVE  IInv'
<1> USE DEF IInv, TypeOK, Teardown, Free, Unclaimed, MarkStop, StopGrace,
      TakeOp, Serve, opVars, marked, connVars, tunVars
<1>1. ServiceTypeOK'
  BY DEF ServiceTypeOK, ConnTypeOK, Actors, Handler, Timer, Serve, Free
<1>2. ConnTypeOK'
  BY DEF ConnTypeOK
<1>3. SessionTypeOK'
  BY DEF SessionTypeOK
<1>4. FreshInv'
  BY DEF FreshInv, ServiceTypeOK, ConnTypeOK, SessionTypeOK, TunTypeOK
<1>5. OpInv'
  BY DEF OpInv, GraceInv, ServiceTypeOK, ConnTypeOK, SessionTypeOK, Actors,
    Handler, Timer, Serve, Free, Checking, Mine, Requests, FreshInv, TunInv,
    TunTypeOK, SplitInv, StopInv, ServeInv
<1>6. StopInv'
  BY DEF StopInv, OpInv, ServiceTypeOK, SessionTypeOK, TunTypeOK, FreshInv,
    TunInv, SplitInv, ServeInv, Free
<1>7. ServeInv'
  BY DEF ServeInv, ServiceTypeOK, SessionTypeOK, TunTypeOK
<1>8. GraceInv'
  BY DEF GraceInv, ServiceTypeOK, ConnTypeOK, SessionTypeOK
<1>9. ToldInv'
  BY DEF ToldInv, ServiceTypeOK, SessionTypeOK, TunTypeOK, TunInv, FreshInv,
    StopInv, SplitInv, OpInv
<1>10. OrphanHasTimer'
  BY DEF OrphanHasTimer, ServeInv, ServiceTypeOK, ConnTypeOK, SessionTypeOK,
    GraceInv, FreshInv, TunInv, SplitInv, OpInv, StopInv
<1>11. TunTypeOK' /\ TunInv' /\ SplitInv' /\ HolderIsServed' /\ OwnerHolds'
  BY DEF TunTypeOK, TunInv, SplitInv, HolderIsServed, OwnerHolds
<1> QED
  BY <1>1, <1>2, <1>3, <1>4, <1>5, <1>6, <1>7, <1>8, <1>9, <1>10, <1>11

\* The rest of Serve's way out.
LEMMA ServeEndsKeeps ==
  ASSUME IInv,
         AwaitDown \/ CloseConnections \/ ServeReturns
  PROVE  IInv'
<1> USE DEF IInv, TypeOK, AwaitDown, Serve, IsDown, opVars, connVars, timeVars,
      lifeVars, tunVars, CloseConnections, Registered, ServeReturns
<1>1. ServiceTypeOK'
  BY DEF ServiceTypeOK
<1>2. ConnTypeOK'
  BY DEF ConnTypeOK
<1>3. ServeInv'
  BY DEF ServeInv, ServiceTypeOK, SessionTypeOK, TunTypeOK, TunInv, SplitInv,
    OpInv, FreshInv
<1>4. SessionTypeOK' /\ TunTypeOK' /\ FreshInv' /\ TunInv' /\ SplitInv' /\ OpInv' /\
     StopInv' /\ GraceInv' /\ ToldInv' /\ HolderIsServed' /\ OrphanHasTimer' /\
     OwnerHolds'
  BY DEF SessionTypeOK, TunTypeOK, FreshInv, TunInv, SplitInv, OpInv, Actors,
    Handler, Timer, Serve, Free, Checking, Mine, Requests, StopInv, GraceInv,
    ToldInv, HolderIsServed, OrphanHasTimer, OwnerHolds
<1> QED
  BY <1>1, <1>2, <1>3, <1>4

-----------------------------------------------------------------------------
\* The service starts in the invariant.
LEMMA InitInv == Init => IInv
<1> SUFFICES ASSUME Init PROVE IInv
  OBVIOUS
<1> USE DEF Init
<1>1. ServiceTypeOK
  BY DEF ServiceTypeOK, Actors, Free
<1>2. ConnTypeOK
  BY DEF ConnTypeOK, Requests
<1>3. SessionTypeOK
  BY DEF SessionTypeOK
<1>4. TunTypeOK
  BY DEF TunTypeOK
<1>5. FreshInv /\ TunInv /\ SplitInv
  BY DEF FreshInv, TunInv, SplitInv
<1>6. OpInv
  BY DEF OpInv, Free, Handler, Checking
<1>7. StopInv /\ ServeInv /\ GraceInv /\ ToldInv
  BY DEF StopInv, ServeInv, GraceInv, ToldInv
<1>8. HolderIsServed /\ OrphanHasTimer /\ OwnerHolds
  BY DEF HolderIsServed, OrphanHasTimer, OwnerHolds
<1> QED
  BY <1>1, <1>2, <1>3, <1>4, <1>5, <1>6, <1>7, <1>8 DEF IInv, TypeOK

\* A step of nobody keeps it.
LEMMA StutterKeeps == ASSUME IInv, UNCHANGED vars PROVE IInv'
<1> USE DEF IInv, TypeOK, vars, svcVars, connVars, timeVars, lifeVars, tunVars
<1>1. TypeOK'
  BY DEF ServiceTypeOK, ConnTypeOK, SessionTypeOK, TunTypeOK, Actors
<1>2. FreshInv' /\ TunInv' /\ SplitInv' /\ StopInv'
  BY DEF FreshInv, TunInv, SplitInv, StopInv
<1>3. OpInv'
  BY DEF OpInv, Checking
<1>4. ServeInv' /\ GraceInv' /\ ToldInv'
  BY DEF ServeInv, GraceInv, ToldInv
<1>5. HolderIsServed' /\ OrphanHasTimer' /\ OwnerHolds'
  BY DEF HolderIsServed, OrphanHasTimer, OwnerHolds
<1> QED
  BY <1>1, <1>2, <1>3, <1>4, <1>5

\* Every step of the service keeps the invariant.
LEMMA NextInv == IInv /\ [Next]_vars => IInv'
<1> SUFFICES ASSUME IInv, [Next]_vars PROVE IInv'
  OBVIOUS
<1>1. ASSUME NEW c \in Conns, HandlerNext(c) PROVE IInv'
  <2>1. CASE Accept(c) \/ Register(c) \/ HelloFails(c) \/ Hello(c) \/ Disconnect(c)
             \/ (\E r \in Requests : Request(c, r)) \/ StopNothing(c) \/ RefreshNothing(c)
    BY <2>1, HandlerReadsKeeps
  <2>2. CASE \E s \in Sessions : HelloResume(c, s)
    BY <2>2, HelloResumeKeeps
  <2>3. CASE Detach(c)
    BY <2>3, DetachKeeps
  <2>4. CASE \E s \in Sessions : StartTun(c, s)
    BY <2>4, StartTunKeeps
  <2>5. CASE Stop(c) \/ Split(c)
    BY <2>5, StopKeeps, SplitKeeps
  <2>6. CASE RefreshRefused(c) \/ RefreshSplit(c) \/ EnableRefused(c)
    BY <2>6, RefreshRefusedKeeps, OpReleasesKeeps
  <2>7. CASE \E s \in Sessions : EnableClaims(c, s)
    BY <2>7, EnableClaimsKeeps
  <2>8. CASE EnableAgain(c) \/ EnableSplit(c) \/ EnableFails(c)
    BY <2>8, EnableAgainKeeps, EnableSplitKeeps, EnableFailsKeeps
  <2> QED
    BY <1>1, <2>1, <2>2, <2>3, <2>4, <2>5, <2>6, <2>7, <2>8 DEF HandlerNext
<1>2. ASSUME NEW c \in Conns, TimerNext(c) PROVE IInv'
  BY <1>2, TimerMovesKeeps, TimerStopsKeeps DEF TimerNext
<1>3. CASE FinishNext
  BY <1>3, FinishTunKeeps, DisableSplitKeeps, DropSplitKeeps DEF FinishNext
<1>4. ASSUME NEW s \in Sessions, TunNext(s) PROVE IInv'
  BY <1>4, TunRunsKeeps, TunUnhookKeeps, TunDoneKeeps, PumpKeeps DEF TunNext
<1>5. CASE ServeNext
  BY <1>5, ShutdownKeeps, TeardownKeeps, ServeEndsKeeps, StutterKeeps DEF ServeNext, Over
<1>6. CASE UNCHANGED vars
  BY <1>6, StutterKeeps
<1> QED
  BY <1>1, <1>2, <1>3, <1>4, <1>5, <1>6 DEF Next

\* The invariant holds of the service from its start on.
THEOREM Invariance == Spec => []IInv
  BY InitInv, NextInv, PTL DEF Spec

-----------------------------------------------------------------------------
(* What the runs check on small instances, for every instance. *)

\* Every variable of the service keeps to its type.
THEOREM TypeCorrectness == Spec => []TypeOK
  BY Invariance, PTL DEF IInv

\* The service is never free, nor with its next session, while the last one's
\* changes are in force.
THEOREM HostIsHeldAlways == Spec => []HostIsHeld
<1>1. IInv => HostIsHeld
  BY DEF IInv, TypeOK, SessionTypeOK, FreshInv, TunInv, SplitInv, HostIsHeld
<1> QED
  BY <1>1, Invariance, PTL

\* done of a session is closed at most once, whoever takes it down.
THEOREM DoneOnceAlways == Spec => []DoneOnce
<1>1. IInv => DoneOnce
  BY DEF IInv, TypeOK, SessionTypeOK, FreshInv, TunInv, SplitInv, DoneOnce
<1> QED
  BY <1>1, Invariance, PTL

\* Whoever takes op finds no session on its way down.
THEOREM StoppingHoldsOpAlways == Spec => []StoppingHoldsOp
<1>1. IInv => StoppingHoldsOp
  BY DEF IInv, TypeOK, ServiceTypeOK, OpInv, StopInv, StoppingHoldsOp
<1> QED
  BY <1>1, Invariance, PTL

\* The connection holding the session has a handler that will detach it, and
\* a session without one has its grace timer running: none is left for ever.
THEOREM NoSessionIsLost == Spec => [](HolderIsServed /\ OrphanHasTimer)
  BY Invariance, PTL DEF IInv

\* A session stays in the hands of the user who started it.
THEOREM OwnerHoldsAlways == Spec => []OwnerHolds
  BY Invariance, PTL DEF IInv

\* Nobody is left holding a TUN session that ended without a word.
THEOREM LastHolderIsToldAlways == Spec => []LastHolderIsTold
<1>1. IInv => LastHolderIsTold
  BY DEF IInv, TypeOK, SessionTypeOK, TunTypeOK, ToldInv, LastHolderIsTold
<1> QED
  BY <1>1, Invariance, PTL

\* Once Serve is past the teardown no session is left that has not been taken
\* down, and none is put up again.
THEOREM ShutdownIsFinalAlways == Spec => []ShutdownIsFinal
<1>1. IInv => HostIsHeld
  BY DEF IInv, TypeOK, SessionTypeOK, FreshInv, TunInv, SplitInv, HostIsHeld
<1>2. IInv /\ HostIsHeld => ShutdownIsFinal
  BY DEF IInv, ServeInv, HostIsHeld, ShutdownIsFinal
<1> QED
  BY <1>1, <1>2, Invariance, PTL

-----------------------------------------------------------------------------
(***************************************************************************)
(* Service implements SessionLease.  A step of the service is a step of    *)
(* the lease by one of six lemmas, named for what the lease does; each     *)
(* action is then one of those cases.                                      *)
(***************************************************************************)

\* What the invariant says of the machine: HostIsHeld follows from it.
LEMMA IInvHeld == IInv => HostIsHeld
  BY DEF IInv, TypeOK, SessionTypeOK, FreshInv, TunInv, SplitInv, HostIsHeld

\* What the failing and the clean takedown of a split have in common: of the
\* sessions with changes left there is at most the one op is held for to add.
LEMMA TakedownLeaves ==
  ASSUME IInv, opSess \in Sessions,
         SplitTakenDown \/ UNCHANGED host
  PROVE  {s \in Sessions : host'[s] = "left"} \subseteq
           {s \in Sessions : host[s] = "left"} \cup {opSess}
  BY DEF IInv, TypeOK, SessionTypeOK, SplitTakenDown

\* What the lease is made of is left alone, or there is none before and after.
LEMMA LeaseStutters ==
  ASSUME \/ UNCHANGED <<sess, kind, owner, holder, stopping, host>>
         \/ sess = NoSession /\ UNCHANGED <<sess, kind, host>>
  PROVE  UNCHANGED Lease!lvars
  BY DEF Lease!lvars

\* claim is a grant.
LEMMA LeaseGrants ==
  ASSUME IInv, NEW c \in Conns, NEW s \in Sessions, NEW k \in {"tun", "split"},
         Claim(c, s, k), UNCHANGED <<stopping, host>>
  PROVE  Lease!Grant(s, c)
<1> USE DEF IInv, TypeOK, SessionTypeOK
<1>1. sess = NoSession /\ kind[s] = "none" /\ ~stopping[s] /\ s # NoSession
  BY DEF Claim, CanClaim, Fresh, FreshInv
<1>2. sess' = s /\ owner'[s] = Owner[c] /\ holder'[s] = c /\ ~stopping'[s]
  BY <1>1 DEF Claim
<1>3. kind' = [kind EXCEPT ![s] = k] /\ k # "none"
  BY DEF Claim
<1>4. {x \in Sessions : kind'[x] # "none"} = {x \in Sessions : kind[x] # "none"} \cup {s}
  BY <1>3
<1>5. s \notin {x \in Sessions : kind[x] # "none"}
  BY <1>1
<1>6. {x \in Sessions : host'[x] = "up"} = {x \in Sessions : host[x] = "up"}
  OBVIOUS
<1>7. sess' # NoSession /\ (sess' # NoSession /\ stopping'[sess']) = FALSE
  BY <1>1, <1>2
<1>8. (sess # NoSession /\ stopping[sess]) = FALSE
  BY <1>1
<1>9. {x \in Sessions : host'[x] = "left"} = {x \in Sessions : host[x] = "left"}
  OBVIOUS
<1> QED
  BY <1>1, <1>2, <1>4, <1>5, <1>6, <1>7, <1>8, <1>9 DEF Lease!Grant

\* Work on the machine for the session that has it.
LEMMA LeaseTouches ==
  ASSUME IInv', sess # NoSession, UNCHANGED <<sess, kind, owner, holder, stopping>>,
         {s \in Sessions : host'[s] = "left"} \subseteq
           {s \in Sessions : host[s] = "left"} \cup {sess}
  PROVE  Lease!Touch
<1>1. {s \in Sessions : host'[s] = "up"} \in {{}, {sess}}
  <2>1. HostIsHeld'
    BY IInvHeld, PTL
  <2> QED
    BY <2>1 DEF HostIsHeld
<1> QED
  BY <1>1 DEF Lease!Touch

\* The mark that begins a session's end.
LEMMA LeaseRevokes ==
  ASSUME sess # NoSession, ~stopping[sess], stopping'[sess],
         UNCHANGED <<sess, kind, owner, holder, host>>
  PROVE  Lease!Revoke
  BY DEF Lease!Revoke

\* The current session is forgotten, its changes taken down.
LEMMA LeaseReturns ==
  ASSUME IInv', sess # NoSession, sess' = NoSession, UNCHANGED kind,
         {s \in Sessions : host'[s] = "left"} \subseteq
           {s \in Sessions : host[s] = "left"} \cup {sess}
  PROVE  Lease!Return
<1>1. {s \in Sessions : host'[s] = "up"} = {}
  <2>1. HostIsHeld'
    BY IInvHeld, PTL
  <2> QED
    BY <2>1, ServiceAssumption DEF HostIsHeld
<1>2. (sess' # NoSession /\ stopping'[sess']) = FALSE
  OBVIOUS
<1>3. {s \in Sessions : kind'[s] # "none"} = {s \in Sessions : kind[s] # "none"}
  OBVIOUS
<1> QED
  BY <1>1, <1>2, <1>3 DEF Lease!Return

\* Whoever marks the current session revokes the lease.
LEMMA MarkRevokes ==
  ASSUME IInv, NEW by \in Conns \cup {NoConn}, sess # NoSession, Unclaimed(sess),
         MarkStop(sess, by), UNCHANGED <<sess, kind, owner, holder, host>>
  PROVE  Lease!Revoke
<1>1. ~stopping[sess] /\ stopping'[sess]
  BY DEF IInv, TypeOK, ServiceTypeOK, SessionTypeOK, Unclaimed, MarkStop
<1> QED
  BY <1>1, LeaseRevokes

-----------------------------------------------------------------------------
\* Each step of a handler is one of those.
LEMMA HandlerLeases ==
  ASSUME IInv, IInv', NEW c \in Conns, HandlerNext(c)
  PROVE  [Lease!Next]_(Lease!lvars)
<1> USE DEF Lease!Next
<1>1. CASE \/ Accept(c) \/ Register(c) \/ HelloFails(c) \/ Hello(c) \/ Disconnect(c)
           \/ (\E r \in Requests : Request(c, r)) \/ StopNothing(c) \/ RefreshNothing(c)
           \/ Split(c) \/ RefreshSplit(c) \/ EnableRefused(c) \/ EnableAgain(c)
  BY <1>1, LeaseStutters
     DEF Accept, Register, HelloFails, Hello, Disconnect, Request, StopNothing,
         RefreshNothing, Split, RefreshSplit, EnableRefused, EnableAgain, svcVars, lifeVars
<1>2. ASSUME NEW s \in Sessions, HelloResume(c, s)
      PROVE  [Lease!Next]_(Lease!lvars)
  <2> USE <1>2 DEF HelloResume, svcVars
  <2>1. CASE CanResume(c, s)
    <3>1. sess = s /\ s # NoSession /\ ~stopping[s] /\ owner[s] = Owner[c]
      BY <2>1 DEF CanResume
    <3>2. sess' = s /\ holder'[s] = c /\ UNCHANGED <<kind, owner, stopping, host>>
      BY <2>1, <3>1 DEF Handover, IInv, TypeOK, SessionTypeOK
    <3>3. Lease!Take(c)
      BY <3>1, <3>2 DEF Lease!Take
    <3> QED
      BY <3>3
  <2>2. CASE ~CanResume(c, s)
    BY <2>2, LeaseStutters
  <2> QED
    BY <2>1, <2>2
<1>3. CASE Detach(c)
  <2> USE <1>3 DEF Detach, svcVars
  <2>1. CASE Holds(c)
    <3>1. sess # NoSession /\ holder[sess] = c /\ holder'[sess] = NoConn
      BY <2>1 DEF Holds, IInv, TypeOK, ServiceTypeOK, SessionTypeOK
    <3>2. UNCHANGED <<sess, kind, owner, stopping, host>>
      OBVIOUS
    <3>3. Lease!Lose
      BY <3>1, <3>2 DEF Lease!Lose
    <3> QED
      BY <3>3
  <2>2. CASE ~Holds(c)
    BY <2>2, LeaseStutters
  <2> QED
    BY <2>1, <2>2
<1>4. ASSUME NEW s \in Sessions, StartTun(c, s) \/ EnableClaims(c, s)
      PROVE  [Lease!Next]_(Lease!lvars)
  <2>1. UNCHANGED <<stopping, host>>
    BY <1>4 DEF StartTun, EnableClaims
  <2>2. Claim(c, s, "tun") \/ Claim(c, s, "split")
    BY <1>4 DEF StartTun, EnableClaims
  <2>3. Lease!Grant(s, c)
    BY <2>1, <2>2, LeaseGrants
  <2> QED
    BY <2>3
<1>5. CASE Stop(c)
  <2> USE <1>5 DEF Stop, MayStop
  <2>1. CASE Unclaimed(sess)
    BY <2>1, MarkRevokes
  <2>2. CASE ~Unclaimed(sess)
    BY <2>2, LeaseStutters DEF marked
  <2> QED
    BY <2>1, <2>2
<1>6. CASE RefreshRefused(c)
  <2> USE <1>6 DEF RefreshRefused
  <2>1. opSess = sess /\ sess # NoSession
    BY DEF IInv, OpInv, Checking
  <2>2. CASE Unclaimed(opSess)
    BY <2>1, <2>2, MarkRevokes
  <2>3. CASE ~Unclaimed(opSess)
    BY <2>3, LeaseStutters DEF marked
  <2> QED
    BY <2>2, <2>3
<1>7. CASE EnableSplit(c)
  <2>1. sess # NoSession /\ UNCHANGED <<sess, kind, owner, holder, stopping>>
    BY <1>7 DEF EnableSplit, lifeVars, IInv, OpInv
  <2>2. {s \in Sessions : host'[s] = "left"} \subseteq {s \in Sessions : host[s] = "left"}
    BY <1>7 DEF EnableSplit, IInv, TypeOK, SessionTypeOK
  <2> QED
    BY <2>1, <2>2, LeaseTouches
<1>8. CASE EnableFails(c)
  <2>1. sess # NoSession /\ opSess = sess /\ Unclaimed(opSess) /\ UNCHANGED kind
    BY <1>8 DEF EnableFails, IInv, OpInv, Unclaimed
  <2>2. sess' = NoSession
    BY <1>8, <2>1 DEF EnableFails, ForgetSession
  <2>3. opSess \in Sessions
    BY <2>1 DEF IInv, TypeOK, ServiceTypeOK
  <2>4. {s \in Sessions : host'[s] = "left"} \subseteq
             {s \in Sessions : host[s] = "left"} \cup {sess}
    BY <1>8, <2>1, <2>3, TakedownLeaves DEF EnableFails
  <2> QED
    BY <2>1, <2>2, <2>4, LeaseReturns
<1> QED
  BY <1>1, <1>2, <1>3, <1>4, <1>5, <1>6, <1>7, <1>8 DEF HandlerNext

\* So is each step of a timer, of a teardown, of a TUN session and of Serve.
LEMMA OthersLease ==
  ASSUME IInv, IInv',
         \/ \E c \in Conns : TimerNext(c)
         \/ FinishNext \/ ServeNext
         \/ \E s \in Sessions : TunNext(s)
  PROVE  [Lease!Next]_(Lease!lvars)
<1> USE DEF Lease!Next
<1>1. ASSUME NEW c \in Conns, TimerFires(c) \/ TimerIdle(c)
      PROVE  [Lease!Next]_(Lease!lvars)
  BY <1>1, LeaseStutters DEF TimerFires, TimerIdle, svcVars, lifeVars
<1>2. ASSUME NEW c \in Conns, TimerStops(c)
      PROVE  [Lease!Next]_(Lease!lvars)
  <2>1. timerOf[c] = sess /\ Unclaimed(sess)
    BY <1>2 DEF TimerStops, Orphan
  <2>2. sess # NoSession
    BY <1>2, <2>1 DEF TimerStops, IInv, GraceInv
  <2> QED
    BY <1>2, <2>1, <2>2, MarkRevokes DEF TimerStops
<1>3. CASE FinishTun \/ AwaitDown \/ CloseConnections \/ ServeReturns \/ Shutdown \/ Over
  BY <1>3, LeaseStutters
     DEF FinishTun, AwaitDown, CloseConnections, ServeReturns, Shutdown, Over,
         vars, svcVars, lifeVars
<1>4. CASE DisableSplit
  <2>1. sess # NoSession /\ opSess = sess /\ UNCHANGED <<sess, kind, owner, holder, stopping>>
    BY <1>4 DEF DisableSplit, lifeVars, IInv, OpInv
  <2>2. opSess \in Sessions
    BY <2>1 DEF IInv, TypeOK, ServiceTypeOK
  <2>3. {s \in Sessions : host'[s] = "left"} \subseteq
             {s \in Sessions : host[s] = "left"} \cup {sess}
    BY <1>4, <2>1, <2>2, TakedownLeaves DEF DisableSplit
  <2> QED
    BY <2>1, <2>3, LeaseTouches
<1>5. CASE DropSplit
  <2>1. sess # NoSession /\ opSess = sess /\ UNCHANGED <<kind, host>>
    BY <1>5 DEF DropSplit, IInv, OpInv
  <2>2. sess' = NoSession
    BY <1>5, <2>1 DEF DropSplit, ForgetSession
  <2> QED
    BY <2>1, <2>2, LeaseReturns
<1>6. ASSUME NEW s \in Sessions, TunRaise(s) \/ TunReturn(s)
      PROVE  [Lease!Next]_(Lease!lvars)
  <2>1. sess = s /\ sess # NoSession /\ UNCHANGED <<sess, kind, owner, holder, stopping>>
    BY <1>6 DEF TunRaise, TunReturn, svcVars, lifeVars, IInv, TunInv
  <2>2. {x \in Sessions : host'[x] = "left"} \subseteq
          {x \in Sessions : host[x] = "left"} \cup {s}
    BY <1>6 DEF TunRaise, TunReturn, IInv, TypeOK, SessionTypeOK
  <2> QED
    BY <2>1, <2>2, LeaseTouches
<1>7. ASSUME NEW s \in Sessions, TunReady(s) \/ TunDone(s) \/ PumpReply(s) \/ PumpEnds(s)
      PROVE  [Lease!Next]_(Lease!lvars)
  BY <1>7, LeaseStutters DEF TunReady, TunDone, PumpReply, PumpEnds, svcVars, lifeVars
<1>8. ASSUME NEW s \in Sessions, TunUnhook(s)
      PROVE  [Lease!Next]_(Lease!lvars)
  <2>1. sess # NoSession /\ sess' = NoSession /\ UNCHANGED <<kind, host>>
    BY <1>8 DEF TunUnhook, TunReturned, lifeVars, IInv, TunInv
  <2> QED
    BY <2>1, LeaseReturns
<1>9. CASE Teardown
  <2> USE <1>9 DEF Teardown
  <2>1. sess \in {NoSession, down}
    BY DEF IInv, ServeInv
  <2>2. CASE sess = NoSession
    BY <2>2, LeaseStutters
  <2>3. CASE sess # NoSession /\ Unclaimed(down)
    BY <2>1, <2>3, MarkRevokes
  <2>4. CASE sess # NoSession /\ ~Unclaimed(down)
    BY <2>4, LeaseStutters DEF marked
  <2> QED
    BY <2>2, <2>3, <2>4
<1> QED
  BY <1>1, <1>2, <1>3, <1>4, <1>5, <1>6, <1>7, <1>8, <1>9
     DEF TimerNext, FinishNext, ServeNext, TunNext

\* The service is a lease of the machine: one session at a time, in one user's
\* hands, never handed on once its end has begun, gone only when its changes have
\* been taken down, as far as they came down.
THEOREM ServiceIsLease == Spec => IsLease
<1>1. Init => Lease!Init
  BY DEF Init, Lease!Init
<1>2. IInv /\ IInv' /\ [Next]_vars => [Lease!Next]_(Lease!lvars)
  <2> SUFFICES ASSUME IInv, IInv', [Next]_vars PROVE [Lease!Next]_(Lease!lvars)
    OBVIOUS
  <2>1. CASE UNCHANGED vars
    BY <2>1, LeaseStutters DEF vars, svcVars, lifeVars
  <2>2. CASE Next
    BY <2>2, HandlerLeases, OthersLease DEF Next
  <2> QED
    BY <2>1, <2>2
<1> QED
  BY <1>1, <1>2, Invariance, PTL DEF Spec, IsLease, Lease!Spec

=============================================================================
