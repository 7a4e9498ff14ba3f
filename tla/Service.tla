------------------------------- MODULE Service -------------------------------
(***************************************************************************)
(* The privileged service (internal/service): one session at a time on the *)
(* machine, held by one connection, handed back to the same user's next    *)
(* connection, taken down after a grace period, a stop, a failure or the   *)
(* service's own shutdown.                                                 *)
(*                                                                         *)
(* Actors: a handler goroutine per connection, a grace timer per detach    *)
(* (a connection is detached at most once, so the timer has its name), the *)
(* goroutine and the pump of a TUN session, and Serve.  mu protects only   *)
(* short sections that never block: each is one atomic step.  op is held   *)
(* across the slow ones and is a variable.  Taking a free op and the mu    *)
(* section that follows are one step, as are leaving the last section and  *)
(* releasing op: nothing another actor does in between needs op.           *)
(***************************************************************************)
EXTENDS Naturals, FiniteSets

CONSTANTS
  Conns,      \* connections; each one is accepted once
  Users,
  Owner,      \* the user at the other end of a connection (ipc.Peer.Key)
  Sessions,   \* identities of sessions, each used once: the bound on them
  MaxLeft,    \* the bound on sessions with changes that would not come off
  NoConn, NoSession

ASSUME ServiceAssumption ==
  /\ Owner \in [Conns -> Users]
  /\ MaxLeft \in Nat
  /\ NoConn \notin Conns
  /\ NoSession \notin Sessions

VARIABLES
  \* the service
  sess,       \* the current session, s.sess
  closing,    \* s.closing
  op,         \* who holds s.op
  opStep,     \* what its holder does next
  opSess,     \* and to which session
  serve,      \* where Serve is
  down,       \* the session Serve snapshot to take down
  \* connections
  pc,         \* where the handler of a connection is
  req,        \* the request it handles
  alive,      \* the stream works: neither end has closed it
  timer,      \* the grace timer its detach armed
  timerOf,    \* and the session that timer is for
  \* sessions
  kind, owner, holder, grace, stopping, stoppedBy,
  done,       \* how often done was closed: twice is a panic
  host,       \* the session's changes: "off", "up" (in force), or "left":
              \* they were taken off, not all came off, and it was only logged
  tun,        \* where the goroutine of a TUN session is
  ready,      \* the channel between it and the pump
  pump,       \* where the pump is
  endedTo,    \* whom the pump is to tell that the session ended
  told,       \* whom it told
  known       \* the client has the session's token

svcVars  == <<sess, closing, op, opStep, opSess, serve, down>>
opVars   == <<op, opStep, opSess>>
connVars == <<pc, req, alive>>
timeVars == <<timer, timerOf, grace>>
lifeVars == <<kind, owner, holder, stopping, stoppedBy, done>>
marked   == <<timer, grace, stopping, stoppedBy>>
tunVars  == <<tun, ready, pump, endedTo, told>>
vars     == <<svcVars, connVars, timeVars, lifeVars, host, tunVars, known>>

\* The actors that may hold op.
Handler(c) == <<"handler", c>>
Timer(c)   == <<"timer", c>>
Serve      == <<"serve", NoConn>>
Free       == <<"free", NoConn>>

Requests == {"stop", "disable_split", "enable_split", "refresh_split"}

Registered(c) == pc[c] \in {"hello", "idle", "want", "busy"}
Fresh(s)      == kind[s] = "none"

Init ==
  /\ sess = NoSession
  /\ closing = FALSE
  /\ op = Free
  /\ opStep = "none"
  /\ opSess = NoSession
  /\ serve = "accepting"
  /\ down = NoSession
  /\ pc = [c \in Conns |-> "new"]
  /\ req = [c \in Conns |-> "none"]
  /\ alive = [c \in Conns |-> TRUE]
  /\ timer = [c \in Conns |-> "none"]
  /\ timerOf = [c \in Conns |-> NoSession]
  /\ kind = [s \in Sessions |-> "none"]
  /\ owner = [s \in Sessions |-> "nobody"]
  /\ holder = [s \in Sessions |-> NoConn]
  /\ grace = [s \in Sessions |-> NoConn]
  /\ stopping = [s \in Sessions |-> FALSE]
  /\ stoppedBy = [s \in Sessions |-> NoConn]
  /\ done = [s \in Sessions |-> 0]
  /\ host = [s \in Sessions |-> "off"]
  /\ tun = [s \in Sessions |-> "none"]
  /\ ready = [s \in Sessions |-> "none"]
  /\ pump = [s \in Sessions |-> "none"]
  /\ endedTo = [s \in Sessions |-> NoConn]
  /\ told = [s \in Sessions |-> NoConn]
  /\ known = [s \in Sessions |-> FALSE]

-----------------------------------------------------------------------------
(* Helpers the handlers share. *)

\* timer with the pending one of session s stopped; Stop does not reach a
\* callback that has begun.
StopGrace(s) ==
  [c \in Conns |-> IF c = grace[s] /\ timer[c] = "armed" THEN "over" ELSE timer[c]]

\* Mutants of CanClaim: the busy check, or the closing check, forgotten.
CanClaim_NotBusy == ~closing
CanClaim_NotClosing == sess = NoSession

\* claim: the new session s of kind k is c's.
CanClaim == ~closing /\ sess = NoSession

Claim(c, s, k) ==
  /\ CanClaim
  /\ Fresh(s)
  /\ kind' = [kind EXCEPT ![s] = k]
  /\ owner' = [owner EXCEPT ![s] = Owner[c]]
  /\ holder' = [holder EXCEPT ![s] = c]
  /\ sess' = s

\* Mutants: markStop does not ask whether somebody has the session already, or
\* refuses it during the shutdown.
Unclaimed_Always(s) == TRUE
Unclaimed_NotClosing(s) == ~stopping[s] /\ ~closing

\* done is closed, and nobody has claimed the session's teardown.
IsDown(s)    == done[s] > 0
Unclaimed(s) == ~stopping[s]

\* markStop by connection by, for the session nobody has marked.
MarkStop(s, by) ==
  /\ stopping' = [stopping EXCEPT ![s] = TRUE]
  /\ stoppedBy' = [stoppedBy EXCEPT ![s] = by]
  /\ timer' = StopGrace(s)
  /\ grace' = [grace EXCEPT ![s] = NoConn]

TakeOp(actor, step, s) ==
  /\ op' = actor
  /\ opStep' = step
  /\ opSess' = s

\* The request c waited with is answered; the handler reads on.
Answer(c) ==
  /\ pc' = [pc EXCEPT ![c] = "idle"]
  /\ req' = [req EXCEPT ![c] = "none"]

\* op is released; a handler that held it replies and reads on.
ReleaseOp ==
  /\ TakeOp(Free, "none", NoSession)
  /\ pc' = [c \in Conns |-> IF op = Handler(c) THEN "idle" ELSE pc[c]]
  /\ req' = [c \in Conns |-> IF op = Handler(c) THEN "none" ELSE req[c]]

\* Mutant: drop leaves s.sess as it is.
ForgetSession_Kept(s) ==
  /\ sess' = sess
  /\ done' = [done EXCEPT ![s] = @ + 1]

\* drop: the split session s is forgotten and its done closed.
ForgetSession(s) ==
  /\ sess' = IF sess = s THEN NoSession ELSE sess
  /\ done' = [done EXCEPT ![s] = @ + 1]

\* A takedown may fall short, for as many sessions as the bound allows.
MayStay == Cardinality({s \in Sessions : host[s] = "left"}) < MaxLeft

\* DisableSplit of package system for the split op is held for.  All of it
\* comes off, and with it whatever earlier splits left, for there is one
\* cgroup and one pair of chains; or the chains, a process in the cgroup or the
\* cgroup itself would not go.
SplitTakenDown ==
  \/ host' = [s \in Sessions |-> IF kind[s] = "split" THEN "off" ELSE host[s]]
  \/ MayStay /\ host' = [host EXCEPT ![opSess] = "left"]

-----------------------------------------------------------------------------
(* A connection's handler. *)

\* Serve's accept loop hands a connection to a goroutine of its own.
Accept(c) ==
  /\ serve = "accepting"
  /\ pc[c] = "new"
  /\ pc' = [pc EXCEPT ![c] = "accepted"]
  /\ UNCHANGED <<svcVars, req, alive, timeVars, lifeVars, host, tunVars, known>>

\* handle puts the connection where Serve can close it, then reads the hello.
Register(c) ==
  /\ pc[c] = "accepted"
  /\ pc' = [pc EXCEPT ![c] = "hello"]
  /\ UNCHANGED <<svcVars, req, alive, timeVars, lifeVars, host, tunVars, known>>

\* The hello does not come, or is not one: the connection is closed unheard.
HelloFails(c) ==
  /\ pc[c] = "hello"
  /\ pc' = [pc EXCEPT ![c] = "gone"]
  /\ alive' = [alive EXCEPT ![c] = FALSE]
  /\ UNCHANGED <<svcVars, req, timeVars, lifeVars, host, tunVars, known>>

\* A hello without a token.
Hello(c) ==
  /\ pc[c] = "hello"
  /\ alive[c]
  /\ pc' = [pc EXCEPT ![c] = "idle"]
  /\ UNCHANGED <<svcVars, req, alive, timeVars, lifeVars, host, tunVars, known>>

\* Mutants of CanResume: any user's session, or one on its way down.
CanResume_AnyUser(c, s) == sess = s /\ ~stopping[s] /\ ~closing
CanResume_Stopping(c, s) == sess = s /\ ~closing /\ owner[s] = Owner[c]

CanResume(c, s) ==
  /\ sess = s
  /\ ~stopping[s]
  /\ ~closing
  /\ owner[s] = Owner[c]

\* Mutant: resume stops the timer but does not record the new connection.
Handover_NoHolder(c, s) ==
  /\ timer' = StopGrace(s)
  /\ grace' = [grace EXCEPT ![s] = NoConn]
  /\ UNCHANGED <<alive, holder>>

\* resume: the grace period is over, the old connection closed, the session c's.
Handover(c, s) ==
  /\ timer' = StopGrace(s)
  /\ grace' = [grace EXCEPT ![s] = NoConn]
  /\ alive' = [d \in Conns |-> alive[d] /\ d # holder[s]]
  /\ holder' = [holder EXCEPT ![s] = c]

\* A hello with the token of session s: resume.
HelloResume(c, s) ==
  /\ pc[c] = "hello"
  /\ alive[c]
  /\ known[s]
  /\ pc' = [pc EXCEPT ![c] = "idle"]
  /\ IF CanResume(c, s)
     THEN Handover(c, s)
     ELSE UNCHANGED <<timer, grace, alive, holder>>
  /\ UNCHANGED <<svcVars, req, timerOf, kind, owner, stopping, stoppedBy,
                 done, host, tunVars, known>>

\* The client closes the connection, or it breaks.
Disconnect(c) ==
  /\ pc[c] \in {"accepted", "hello", "idle", "want", "busy"}
  /\ alive[c]
  /\ alive' = [alive EXCEPT ![c] = FALSE]
  /\ UNCHANGED <<svcVars, pc, req, timeVars, lifeVars, host, tunVars, known>>

\* Mutants: detach returns early during the shutdown; it starts no timer.
Holds_NotClosing(c) == sess # NoSession /\ holder[sess] = c /\ ~closing
StartGrace_None(c) == UNCHANGED timeVars

\* c's handler finds the session in its hands.
Holds(c) == sess # NoSession /\ holder[sess] = c

\* The grace period of the current session, started by c's detach.
StartGrace(c) ==
  /\ timer' = [timer EXCEPT ![c] = "armed"]
  /\ timerOf' = [timerOf EXCEPT ![c] = sess]
  /\ grace' = [grace EXCEPT ![sess] = c]

\* handle's loop ends on a connection that no longer reads: detach, then the
\* connection is forgotten.
Detach(c) ==
  /\ pc[c] = "idle"
  /\ ~alive[c]
  /\ pc' = [pc EXCEPT ![c] = "gone"]
  /\ IF Holds(c)
     THEN /\ holder' = [holder EXCEPT ![sess] = NoConn]
          /\ StartGrace(c)
     ELSE UNCHANGED <<holder, timeVars>>
  /\ UNCHANGED <<svcVars, req, alive, kind, owner, stopping, stoppedBy, done,
                 host, tunVars, known>>

\* start_tun: claimed without op, answered by the pump.
StartTun(c, s) ==
  /\ pc[c] = "idle"
  /\ alive[c]
  /\ Claim(c, s, "tun")
  /\ tun' = [tun EXCEPT ![s] = "starting"]
  /\ pump' = [pump EXCEPT ![s] = "waiting"]
  /\ UNCHANGED <<closing, opVars, serve, down, connVars, timeVars, stopping,
                 stoppedBy, done, host, ready, endedTo, told, known>>

\* A request that needs op: its handler waits for the lock.
Request(c, r) ==
  /\ pc[c] = "idle"
  /\ alive[c]
  /\ pc' = [pc EXCEPT ![c] = "want"]
  /\ req' = [req EXCEPT ![c] = r]
  /\ UNCHANGED <<svcVars, alive, timeVars, lifeVars, host, tunVars, known>>

\* There is a session, of the kind the request names, and it is this
\* connection's to stop.
MayStop(c) ==
  /\ sess # NoSession
  /\ req[c] = "disable_split" => kind[sess] = "split"
  /\ holder[sess] = c

\* stop with nothing to stop, or a session that is not this connection's.
StopNothing(c) ==
  /\ pc[c] = "want"
  /\ req[c] \in {"stop", "disable_split"}
  /\ op = Free
  /\ ~MayStop(c)
  /\ Answer(c)
  /\ UNCHANGED <<svcVars, alive, timeVars, lifeVars, host, tunVars, known>>

\* stop of the connection's own session: its teardown is claimed and begins,
\* or, when somebody has claimed it, is waited for.
Stop(c) ==
  /\ pc[c] = "want"
  /\ req[c] \in {"stop", "disable_split"}
  /\ op = Free
  /\ MayStop(c)
  /\ IF Unclaimed(sess)
     THEN /\ MarkStop(sess, c)
          /\ TakeOp(Handler(c), "finish", sess)
          /\ pc' = [pc EXCEPT ![c] = "busy"]
          /\ UNCHANGED req
     ELSE /\ IsDown(sess)
          /\ Answer(c)
          /\ UNCHANGED <<opVars, marked>>
  /\ UNCHANGED <<sess, closing, serve, down, alive, timerOf, kind, owner,
                 holder, done, host, tunVars, known>>

\* The session is c's live split: what split takes for its own.
Mine(c) ==
  /\ sess # NoSession
  /\ kind[sess] = "split"
  /\ holder[sess] = c
  /\ ~stopping[sess]

\* refresh_split without a split of one's own answers at once.
RefreshNothing(c) ==
  /\ pc[c] = "want"
  /\ req[c] = "refresh_split"
  /\ op = Free
  /\ ~Mine(c)
  /\ Answer(c)
  /\ UNCHANGED <<svcVars, alive, timeVars, lifeVars, host, tunVars, known>>

\* split takes op, looks whose session it is and goes to check whose the
\* redirect ports are.
Split(c) ==
  /\ pc[c] = "want"
  /\ \/ req[c] = "enable_split"
     \/ req[c] = "refresh_split" /\ Mine(c)
  /\ op = Free
  /\ TakeOp(Handler(c), "check", IF Mine(c) THEN sess ELSE NoSession)
  /\ pc' = [pc EXCEPT ![c] = "busy"]
  /\ UNCHANGED <<sess, closing, serve, down, req, alive, timeVars, lifeVars,
                 host, tunVars, known>>

Checking(c, r) ==
  /\ op = Handler(c)
  /\ opStep = "check"
  /\ req[c] = r

\* redirectOwnedBy refuses a refresh: the split comes down.
RefreshRefused(c) ==
  /\ Checking(c, "refresh_split")
  /\ IF Unclaimed(opSess)
     THEN /\ MarkStop(opSess, c)
          /\ TakeOp(op, "finish", opSess)
          /\ UNCHANGED <<pc, req>>
     ELSE /\ ReleaseOp
          /\ UNCHANGED marked
  /\ UNCHANGED <<sess, closing, serve, down, alive, timerOf, kind, owner,
                 holder, done, host, tunVars, known>>

\* The ports are the user's own and the rules are brought up to date, or
\* RefreshSplit fails: the session goes on either way.
RefreshSplit(c) ==
  /\ Checking(c, "refresh_split")
  /\ ReleaseOp
  /\ UNCHANGED <<sess, closing, serve, down, alive, timeVars, lifeVars,
                 host, tunVars, known>>

\* enable_split refused: by redirectOwnedBy, or by claim.
EnableRefused(c) ==
  /\ Checking(c, "enable_split")
  /\ ReleaseOp
  /\ UNCHANGED <<sess, closing, serve, down, alive, timeVars, lifeVars,
                 host, tunVars, known>>

\* enable_split allowed, for a session it claims now.
EnableClaims(c, s) ==
  /\ Checking(c, "enable_split")
  /\ opSess = NoSession
  /\ Claim(c, s, "split")
  /\ TakeOp(op, "enable", s)
  /\ UNCHANGED <<closing, serve, down, connVars, timeVars, stopping, stoppedBy,
                 done, host, tunVars, known>>

\* enable_split allowed, for the split that is c's already.
EnableAgain(c) ==
  /\ Checking(c, "enable_split")
  /\ opSess # NoSession
  /\ TakeOp(op, "enable", opSess)
  /\ UNCHANGED <<sess, closing, serve, down, connVars, timeVars, lifeVars, host,
                 tunVars, known>>

\* EnableSplit put the rules up; the reply carries the token.
EnableSplit(c) ==
  /\ op = Handler(c)
  /\ opStep = "enable"
  /\ host' = [host EXCEPT ![opSess] = "up"]
  /\ known' = [known EXCEPT ![opSess] = TRUE]
  /\ ReleaseOp
  /\ UNCHANGED <<sess, closing, serve, down, alive, timeVars, lifeVars, tunVars>>

\* EnableSplit failed: it could not make the cgroup and returned at once, or it
\* took down what there was, as far as that went.  The session is marked and
\* dropped either way.
EnableFails(c) ==
  /\ op = Handler(c)
  /\ opStep = "enable"
  /\ \/ SplitTakenDown
     \/ host[opSess] = "off" /\ UNCHANGED host
  /\ IF Unclaimed(opSess)
     THEN /\ MarkStop(opSess, c)
          /\ ForgetSession(opSess)
     ELSE UNCHANGED <<sess, done, marked>>
  /\ ReleaseOp
  /\ UNCHANGED <<closing, serve, down, alive, timerOf, kind, owner, holder,
                 tunVars, known>>

-----------------------------------------------------------------------------
(* finish, run by whoever marked the session and holds op. *)

\* A TUN session: cancelled, then waited for with op held.
FinishTun ==
  /\ opStep = "finish"
  /\ kind[opSess] = "tun"
  /\ IsDown(opSess)
  /\ ReleaseOp
  /\ UNCHANGED <<sess, closing, serve, down, alive, timeVars, lifeVars,
                 host, tunVars, known>>

\* A split: DisableSplit.  Its error is logged, and the session dropped all the
\* same.
DisableSplit ==
  /\ opStep = "finish"
  /\ kind[opSess] = "split"
  /\ SplitTakenDown
  /\ TakeOp(op, "drop", opSess)
  /\ UNCHANGED <<sess, closing, serve, down, connVars, timeVars, lifeVars,
                 tunVars, known>>

DropSplit ==
  /\ opStep = "drop"
  /\ ForgetSession(opSess)
  /\ ReleaseOp
  /\ UNCHANGED <<closing, serve, down, alive, timeVars, kind, owner, holder,
                 stopping, stoppedBy, host, tunVars, known>>

-----------------------------------------------------------------------------
(* The grace timers detach arms. *)

TimerFires(c) ==
  /\ timer[c] = "armed"
  /\ timer' = [timer EXCEPT ![c] = "fired"]
  /\ UNCHANGED <<svcVars, connVars, timerOf, grace, lifeVars, host, tunVars, known>>

Orphan(s) ==
  /\ sess = s
  /\ holder[s] = NoConn
  /\ Unclaimed(s)

\* The callback gets op and finds its session without a connection.
TimerStops(c) ==
  /\ timer[c] = "fired"
  /\ op = Free
  /\ Orphan(timerOf[c])
  /\ MarkStop(timerOf[c], NoConn)
  /\ TakeOp(Timer(c), "finish", timerOf[c])
  /\ UNCHANGED <<sess, closing, serve, down, connVars, timerOf, kind, owner,
                 holder, done, host, tunVars, known>>

\* The callback returns: it got op too late, the session taken back or gone, or
\* it has taken the session down.
TimerIdle(c) ==
  /\ timer[c] = "fired"
  /\ op = Free
  /\ ~Orphan(timerOf[c])
  /\ timer' = [timer EXCEPT ![c] = "over"]
  /\ UNCHANGED <<svcVars, connVars, timerOf, grace, lifeVars, host, tunVars, known>>

-----------------------------------------------------------------------------
(* The goroutine of a TUN session and its pump. *)

\* ServeTun begins to change the machine.
TunRaise(s) ==
  /\ tun[s] = "starting"
  /\ tun' = [tun EXCEPT ![s] = "raised"]
  /\ host' = [host EXCEPT ![s] = "up"]
  /\ UNCHANGED <<svcVars, connVars, timeVars, lifeVars, ready, pump, endedTo, told, known>>

\* The first core is set up: signal(nil).
TunReady(s) ==
  /\ tun[s] = "raised"
  /\ ready[s] = "none"
  /\ ready' = [ready EXCEPT ![s] = "ok"]
  /\ UNCHANGED <<svcVars, connVars, timeVars, lifeVars, host, tun, pump, endedTo, told, known>>

\* ServeTun returns, cancelled or on its own; it has signalled by then.  Its
\* teardown has taken its changes off, or logged what would not come off.
TunReturn(s) ==
  /\ tun[s] \in {"starting", "raised"}
  /\ tun' = [tun EXCEPT ![s] = "returned"]
  /\ ready' = [ready EXCEPT ![s] = IF @ = "none" THEN "err" ELSE @]
  /\ \/ host' = [host EXCEPT ![s] = "off"]
     \/ tun[s] = "raised" /\ MayStay /\ host' = [host EXCEPT ![s] = "left"]
  /\ UNCHANGED <<svcVars, connVars, timeVars, lifeVars, pump, endedTo, told, known>>

\* Mutants: only a session that ended on its own is announced; the event is
\* addressed to the user and not to the connection; the goroutine takes op
\* before it says that the session is over.
ToTell_Owner(s) == IF holder[s] # stoppedBy[s] THEN owner[s] ELSE NoConn
ToTell_OwnEnd(s) == IF ~stopping[s] THEN holder[s] ELSE NoConn
TunReturned_UnderOp(s) == tun[s] = "returned" /\ op = Free

\* Whoever holds the session, unless it asked for its end.
ToTell(s) == IF holder[s] # stoppedBy[s] THEN holder[s] ELSE NoConn

TunReturned(s) == tun[s] = "returned"

\* Under mu: the service is free, the grace timer stopped, and whoever holds
\* the session without having asked for its end is to be told.
TunUnhook(s) ==
  /\ TunReturned(s)
  /\ tun' = [tun EXCEPT ![s] = "unhooked"]
  /\ sess' = IF sess = s THEN NoSession ELSE sess
  /\ timer' = StopGrace(s)
  /\ endedTo' = [endedTo EXCEPT ![s] = ToTell(s)]
  /\ UNCHANGED <<closing, opVars, serve, down, connVars, timerOf, grace, lifeVars,
                 host, ready, pump, told, known>>

TunDone(s) ==
  /\ tun[s] = "unhooked"
  /\ tun' = [tun EXCEPT ![s] = "over"]
  /\ done' = [done EXCEPT ![s] = @ + 1]
  /\ UNCHANGED <<svcVars, connVars, timeVars, kind, owner, holder, stopping,
                 stoppedBy, host, ready, pump, endedTo, told, known>>

\* The pump answers start_tun with what the goroutine signalled, or with an
\* error when done closed and nothing was.
PumpReply(s) ==
  /\ pump[s] = "waiting"
  /\ ready[s] # "none" \/ IsDown(s)
  /\ pump' = [pump EXCEPT ![s] = IF ready[s] = "ok" THEN "started" ELSE "refused"]
  /\ known' = [known EXCEPT ![s] = ready[s] = "ok"]
  /\ UNCHANGED <<svcVars, connVars, timeVars, lifeVars, host, tun, ready, endedTo, told>>

\* done is closed: the ended event, to whom it is due, unless start_tun was
\* refused.
PumpEnds(s) ==
  /\ pump[s] \in {"started", "refused"}
  /\ IsDown(s)
  /\ pump' = [pump EXCEPT ![s] = IF @ = "started" THEN "pumped" ELSE "silent"]
  /\ told' = [told EXCEPT ![s] = IF pump[s] = "started" THEN endedTo[s] ELSE @]
  /\ UNCHANGED <<svcVars, connVars, timeVars, lifeVars, host, tun, ready, endedTo, known>>

-----------------------------------------------------------------------------
(* Serve's way out. *)

\* ctx ended and the listener is closed: no session from here on.
Shutdown ==
  /\ serve = "accepting"
  /\ closing' = TRUE
  /\ down' = sess
  /\ serve' = IF sess = NoSession THEN "close" ELSE "teardown"
  /\ UNCHANGED <<sess, opVars, connVars, timeVars, lifeVars, host, tunVars, known>>

\* teardown claims the end of the session Serve saw, unless someone has.
Teardown ==
  /\ serve = "teardown"
  /\ op = Free
  /\ serve' = "awaiting"
  /\ IF Unclaimed(down)
     THEN /\ MarkStop(down, NoConn)
          /\ TakeOp(Serve, "finish", down)
     ELSE UNCHANGED <<opVars, marked>>
  /\ UNCHANGED <<sess, closing, down, connVars, timerOf, kind, owner, holder,
                 done, host, tunVars, known>>

\* The session is down; the wait for its pump is bounded and may be over.
AwaitDown ==
  /\ serve = "awaiting"
  /\ op # Serve
  /\ IsDown(down)
  /\ serve' = "close"
  /\ UNCHANGED <<sess, closing, opVars, down, connVars, timeVars, lifeVars, host,
                 tunVars, known>>

\* Every connection that has registered is closed.
CloseConnections ==
  /\ serve = "close"
  /\ serve' = "waiting"
  /\ alive' = [c \in Conns |-> alive[c] /\ ~Registered(c)]
  /\ UNCHANGED <<sess, closing, opVars, down, pc, req, timeVars, lifeVars, host,
                 tunVars, known>>

\* wg.Wait: every handler has returned.
ServeReturns ==
  /\ serve = "waiting"
  /\ \A c \in Conns : pc[c] \in {"new", "gone"}
  /\ serve' = "returned"
  /\ UNCHANGED <<sess, closing, opVars, down, connVars, timeVars, lifeVars, host,
                 tunVars, known>>

\* The program is over; whatever is left of its goroutines may go on.
Over == serve = "returned" /\ UNCHANGED vars

-----------------------------------------------------------------------------
HandlerNext(c) ==
  \/ Accept(c) \/ Register(c) \/ HelloFails(c) \/ Hello(c)
  \/ \E s \in Sessions : HelloResume(c, s)
  \/ Disconnect(c) \/ Detach(c)
  \/ \E s \in Sessions : StartTun(c, s)
  \/ \E r \in Requests : Request(c, r)
  \/ StopNothing(c) \/ Stop(c)
  \/ RefreshNothing(c) \/ Split(c)
  \/ RefreshRefused(c) \/ RefreshSplit(c)
  \/ EnableRefused(c) \/ \E s \in Sessions : EnableClaims(c, s)
  \/ EnableAgain(c) \/ EnableSplit(c) \/ EnableFails(c)

FinishNext == FinishTun \/ DisableSplit \/ DropSplit

TimerNext(c) == TimerFires(c) \/ TimerStops(c) \/ TimerIdle(c)

TunNext(s) ==
  \/ TunRaise(s) \/ TunReady(s) \/ TunReturn(s) \/ TunUnhook(s) \/ TunDone(s)
  \/ PumpReply(s) \/ PumpEnds(s)

ServeNext ==
  Shutdown \/ Teardown \/ AwaitDown \/ CloseConnections \/ ServeReturns \/ Over

Next ==
  \/ \E c \in Conns : HandlerNext(c) \/ TimerNext(c)
  \/ FinishNext
  \/ \E s \in Sessions : TunNext(s)
  \/ ServeNext

Spec == Init /\ [][Next]_vars

-----------------------------------------------------------------------------
(* Fairness.  The service's own steps are taken; a client owes nothing, a  *)
(* core may run for ever, but a cancelled one returns.  The hello has a    *)
(* deadline.  op is a sync.Mutex, which lets no waiter starve.             *)

Fairness ==
  /\ \A c \in Conns :
       /\ WF_vars(Register(c))
       /\ WF_vars(HelloFails(c))
       /\ WF_vars(Detach(c))
       /\ WF_vars(RefreshRefused(c) \/ RefreshSplit(c))
       /\ WF_vars(EnableRefused(c) \/ EnableAgain(c) \/ \E s \in Sessions : EnableClaims(c, s))
       /\ WF_vars(EnableSplit(c) \/ EnableFails(c))
       /\ SF_vars(StopNothing(c) \/ Stop(c) \/ RefreshNothing(c) \/ Split(c))
       /\ WF_vars(TimerFires(c))
       /\ SF_vars(TimerStops(c) \/ TimerIdle(c))
  /\ WF_vars(FinishNext)
  /\ \A s \in Sessions :
       /\ WF_vars(stopping[s] /\ TunReturn(s))
       /\ WF_vars(TunUnhook(s))
       /\ WF_vars(TunDone(s))
       /\ WF_vars(PumpReply(s))
       /\ WF_vars(PumpEnds(s))
  /\ SF_vars(Teardown)
  /\ WF_vars(AwaitDown)
  /\ WF_vars(CloseConnections)
  /\ WF_vars(ServeReturns)

FairSpec == Spec /\ Fairness

-----------------------------------------------------------------------------
Actors == {Serve, Free} \cup {Handler(c) : c \in Conns} \cup {Timer(c) : c \in Conns}

\* The values the variables take.
ServiceTypeOK ==
  /\ sess \in Sessions \cup {NoSession}
  /\ closing \in BOOLEAN
  /\ op \in Actors
  /\ opStep \in {"none", "check", "enable", "finish", "drop"}
  /\ opSess \in Sessions \cup {NoSession}
  /\ serve \in {"accepting", "teardown", "awaiting", "close", "waiting", "returned"}
  /\ down \in Sessions \cup {NoSession}

ConnTypeOK ==
  /\ pc \in [Conns -> {"new", "accepted", "hello", "idle", "want", "busy", "gone"}]
  /\ req \in [Conns -> Requests \cup {"none"}]
  /\ alive \in [Conns -> BOOLEAN]
  /\ timer \in [Conns -> {"none", "armed", "fired", "over"}]
  /\ timerOf \in [Conns -> Sessions \cup {NoSession}]

SessionTypeOK ==
  /\ kind \in [Sessions -> {"none", "tun", "split"}]
  /\ owner \in [Sessions -> Users \cup {"nobody"}]
  /\ holder \in [Sessions -> Conns \cup {NoConn}]
  /\ grace \in [Sessions -> Conns \cup {NoConn}]
  /\ stopping \in [Sessions -> BOOLEAN]
  /\ stoppedBy \in [Sessions -> Conns \cup {NoConn}]
  /\ done \in [Sessions -> Nat]
  /\ host \in [Sessions -> {"off", "up", "left"}]

TunTypeOK ==
  /\ tun \in [Sessions -> {"none", "starting", "raised", "returned", "unhooked", "over"}]
  /\ ready \in [Sessions -> {"none", "ok", "err"}]
  /\ pump \in [Sessions -> {"none", "waiting", "started", "refused", "pumped", "silent"}]
  /\ endedTo \in [Sessions -> Conns \cup {NoConn}]
  /\ told \in [Sessions -> Conns \cup {NoConn}]
  /\ known \in [Sessions -> BOOLEAN]

TypeOK == ServiceTypeOK /\ ConnTypeOK /\ SessionTypeOK /\ TunTypeOK

-----------------------------------------------------------------------------
(* Safety. *)

\* Only the current session's changes are in force: the service never calls
\* itself free, or takes the next session, before the changes of the last one
\* have been taken down, as far as they came down (claim, drop and the end of
\* startTun against each other).
HostIsHeld == \A s \in Sessions : host[s] = "up" => sess = s

\* No session's done is closed twice, which would be a panic: a stop, a grace
\* timer, a failed enable, Serve and the session's own end meet on it.
DoneOnce == \A s \in Sessions : done[s] <= 1

\* A session on its way down is the service's only while op is held: whoever
\* takes op next finds it gone or untouched.
StoppingHoldsOp == op = Free /\ sess # NoSession => ~stopping[sess]

\* The connection that holds the session has a handler that will detach it;
\* a session held by a connection that is gone would never end.
HolderIsServed ==
  \A c \in Conns : sess # NoSession /\ holder[sess] = c => pc[c] \in {"idle", "want", "busy"}

\* A session nobody holds or takes down has its own grace timer before it:
\* detach, resume and markStop never leave it without one.
OrphanHasTimer ==
  sess # NoSession /\ holder[sess] = NoConn /\ ~stopping[sess] =>
    \E c \in Conns : /\ grace[sess] = c
                     /\ timerOf[c] = sess
                     /\ timer[c] \in {"armed", "fired"}

\* A session never passes to another user's connection.
OwnerHolds ==
  \A s \in Sessions : holder[s] # NoConn => owner[s] = Owner[holder[s]]

\* A TUN session that came up does not end without a word: its last holder got
\* the ended event, or the reply to the stop it had asked for.
LastHolderIsTold ==
  \A s \in Sessions : pump[s] = "pumped" /\ holder[s] # NoConn =>
    holder[s] \in {told[s], stoppedBy[s]}

\* Once Serve is past the teardown no session is left that has not been taken
\* down, and no request still being handled puts up another.
ShutdownIsFinal ==
  serve \in {"close", "waiting", "returned"} =>
    sess = NoSession /\ \A s \in Sessions : host[s] # "up"

\* The service is a lease of the machine: SessionLease under this mapping.
Lease == INSTANCE SessionLease WITH
  NoUser  <- "nobody",
  lease   <- sess,
  user    <- IF sess = NoSession THEN "nobody" ELSE owner[sess],
  conn    <- IF sess = NoSession THEN NoConn ELSE holder[sess],
  ending  <- sess # NoSession /\ stopping[sess],
  used    <- {s \in Sessions : kind[s] # "none"},
  touched <- {s \in Sessions : host[s] = "up"},
  left    <- {s \in Sessions : host[s] = "left"}

\* One session at a time, in one user's hands, never handed on once its end has
\* begun; its changes are taken down before it goes, and what does not come down
\* was its own.
IsLease == Lease!Spec

\* A request takes down only the session its own connection holds.  (The code
\* does not keep to it: see the README.)
StopsOwnSession ==
  [][\A s \in Sessions :
       ~stopping[s] /\ stopping'[s] /\ stoppedBy'[s] # NoConn
       => stoppedBy'[s] = holder[s]]_vars

\* A session is taken down for want of a connection only when the grace period
\* that began with its last connection's end has passed.  (The code does not
\* keep to it: see the README.)
GraceIsWhole ==
  [][\A c \in Conns : op = Free /\ op' = Timer(c) => grace[timerOf[c]] = c]_vars

-----------------------------------------------------------------------------
(* Liveness, under FairSpec. *)

\* A session without a connection is taken back or taken down.
OrphansEnd ==
  \A s \in Sessions : sess = s /\ holder[s] = NoConn ~> sess # s \/ holder[s] # NoConn

\* A handler that asked for op gets it and answers: waiting for a session's
\* end with op held stops nobody for ever.
RequestsAreAnswered ==
  \A c \in Conns : pc[c] \in {"want", "busy"} ~> pc[c] = "idle"

\* Serve's way out gets past the session, whatever the clients do.
ShutdownTakesDown == closing ~> serve \in {"waiting", "returned"}

\* Serve returns, whatever the clients do.  (The code does not keep to it: see
\* the README.)
ShutdownReturns == closing ~> serve = "returned"

=============================================================================
