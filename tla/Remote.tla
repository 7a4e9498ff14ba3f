------------------------------- MODULE Remote -------------------------------
(***************************************************************************)
(* The interface's side of the service (internal/app/remote.go): a TUN     *)
(* session, or the split of a proxy session, that the service runs for it; *)
(* the calls and events of a connection (internal/ipc/client.go); and the  *)
(* connection dialled again, with the session asked back, when it is lost. *)
(*                                                                         *)
(* Its goroutines: pc is the session's own, watch is watchRemote or the    *)
(* loop of the split's rescans, and every connection has a reader and a    *)
(* reader of its events.  The service is what Service promises: one        *)
(* session, its holder, the grace of one without.  A stop there is one     *)
(* step.  Time is a choice: a deadline may pass whenever it is waited for, *)
(* but the minute of a stop and the half of a minute of a disable are      *)
(* taken to be enough.                                                     *)
(***************************************************************************)
EXTENDS Naturals, Sequences, FiniteSets

CONSTANTS MaxConns, MaxSessions, MaxRuns, MaxFaults  \* bounds

ASSUME RemoteAssumption ==
  /\ MaxConns \in Nat \ {0} /\ MaxSessions \in Nat
  /\ MaxRuns \in Nat /\ MaxFaults \in Nat

Conns == 1..MaxConns
None  == 0   \* no connection, no session, no token

VARIABLES
  \* App and remoteState
  pc,
  mode,      \* "tun" or "split"
  ctx,       \* sessCtx is not cancelled
  conn,      \* remote.conn
  token,     \* remote.token: the session it names
  listening, \* remote.ended is a channel
  why,       \* what is in it: the session that ended
  splitOn,
  watch,     \* "off", "wait" or "dial"
  asked,     \* the token it dials with
  \* the call under way
  callOn, answer,
  \* a connection
  link,      \* the interface's end: "new", "up" or "lost"
  served,    \* the service's end: its handler has not detached
  toService, toClient, events,
  \* the service
  sess, kind, holder,
  startOf,   \* the start_tun its session has yet to answer
  endedTo,   \* pumps that have yet to say that a session ended
  \* bounds
  runs, opened, made, faults

app     == <<pc, mode, ctx, conn, token, listening, why, splitOn, watch, asked>>
main    == <<pc, mode>>
remote  == <<conn, token, listening, why, splitOn>>
watcher == <<watch, asked>>
call    == <<callOn, answer>>
wire    == <<toService, toClient, events>>
links   == <<link, served, opened>>
service == <<sess, kind, holder, startOf, endedTo, made>>
bounds  == <<runs, faults>>
vars    == <<app, call, wire, links, service, bounds>>

\* A call: in which run it is made, and of what.
Request == IF pc \in {"connect", "call"} THEN IF mode = "tun" THEN "start_tun" ELSE "enable_split"
                                         ELSE IF mode = "tun" THEN "stop" ELSE "disable_split"
Call == [run |-> runs, type |-> Request]

\* A message to the interface: the answer to a call, or why a session ended.
Answer(call_, ok, s) == [type |-> "reply", call |-> call_, ok |-> ok, sess |-> s]
Ended(s) == [type |-> "ended", sess |-> s]
NoAnswer == [type |-> "none"]

Init ==
  /\ pc = "menu" /\ mode = "tun" /\ ctx = FALSE
  /\ conn = 1 /\ token = None /\ listening = FALSE /\ why = None
  /\ splitOn = FALSE /\ watch = "off" /\ asked = None
  /\ callOn = None /\ answer = NoAnswer
  /\ link = [k \in Conns |-> IF k = 1 THEN "up" ELSE "new"]
  /\ served = [k \in Conns |-> k = 1]
  /\ toService = [k \in Conns |-> <<>>] /\ toClient = [k \in Conns |-> <<>>]
  /\ events = [k \in Conns |-> <<>>]
  /\ sess = None /\ kind = "tun" /\ holder = None /\ startOf = NoAnswer /\ endedTo = {}
  /\ runs = 0 /\ opened = 1 /\ made = 0 /\ faults = 0

(***************************************************************************)
(* A connection (internal/ipc)                                             *)
(***************************************************************************)
Up(k) == k # None /\ link[k] = "up"

\* Call: what cannot be sent, or has no answer when the connection goes, is
\* over at once.
SendCall ==
  /\ callOn' = conn
  /\ answer' = NoAnswer
  /\ toService' = [toService EXCEPT ![conn] = Append(@, Call)]
  /\ UNCHANGED <<toClient, events>>

Answered == answer.type = "reply"
Broken == ~Answered /\ ~Up(callOn)
Over == callOn' = None /\ answer' = NoAnswer /\ UNCHANGED wire

\* readLoop: an answer goes to the call that waits for it, and to nobody when
\* it has been given up.
ReadLoop(k) ==
  /\ link[k] = "up" /\ toClient[k] # <<>>
  /\ toClient' = [toClient EXCEPT ![k] = Tail(@)]
  /\ LET m == Head(toClient[k])
     IN  IF m.type = "ended"
           THEN events' = [events EXCEPT ![k] = Append(@, m)] /\ UNCHANGED answer
           ELSE /\ answer' = IF callOn = k /\ m.call = Call THEN m ELSE answer
                /\ UNCHANGED events
  /\ UNCHANGED <<app, callOn, links, toService, service, bounds>>

\* serviceEvents: what ended goes to the session that listens, if it holds no
\* other reason yet.
ServiceEvents(k) ==
  /\ events[k] # <<>>
  /\ events' = [events EXCEPT ![k] = Tail(@)]
  /\ why' = IF listening /\ why = None THEN Head(events[k]).sess ELSE why
  /\ UNCHANGED <<main, ctx, conn, token, listening, splitOn, watcher, call,
                 links, toService, toClient, service, bounds>>

\* The connection goes; the service's end of it has yet to see it.
Lose(k) ==
  /\ faults < MaxFaults /\ faults' = faults + 1
  /\ link[k] = "up"
  /\ link' = [link EXCEPT ![k] = "lost"]
  /\ toClient' = [toClient EXCEPT ![k] = <<>>]
  /\ UNCHANGED <<app, call, served, opened, toService, events, service, runs>>

(***************************************************************************)
(* The service, as Service has it                                          *)
(***************************************************************************)
Answers(k, m) == toClient' = [toClient EXCEPT ![k] = IF link[k] = "up" THEN Append(@, m) ELSE @]

\* The session is down; a start of it that was not answered is refused.
TakeDown ==
  /\ sess' = None /\ holder' = None /\ startOf' = NoAnswer
  /\ UNCHANGED <<kind, made>>

Claim(k, type) ==
  /\ made < MaxSessions /\ made' = made + 1
  /\ sess' = made + 1 /\ holder' = k /\ kind' = type
  /\ UNCHANGED endedTo

StartTun(k, c) ==
  \/ /\ sess = None
     /\ Claim(k, "tun")
     /\ startOf' = c
     /\ UNCHANGED toClient
  \/ /\ sess # None
     /\ Answers(k, Answer(c, FALSE, None))
     /\ UNCHANGED service

\* Enabled again over the connection that has it, the split is the one it has.
EnableSplit(k, c) ==
  \/ /\ sess = None
     /\ Claim(k, "split")
     /\ Answers(k, Answer(c, TRUE, made + 1))
     /\ UNCHANGED startOf
  \/ /\ sess # None
     /\ LET mine == kind = "split" /\ holder = k
        IN  Answers(k, Answer(c, mine, IF mine THEN sess ELSE None))
     /\ UNCHANGED service

\* stop of what this connection holds; disable_split of a split only.
Stop(k, c) ==
  IF sess = None \/ (c.type = "disable_split" /\ kind # "split")
    THEN Answers(k, Answer(c, TRUE, None)) /\ UNCHANGED service
    ELSE IF holder # k
    THEN Answers(k, Answer(c, FALSE, None)) /\ UNCHANGED service
    ELSE Answers(k, Answer(c, TRUE, None)) /\ TakeDown /\ UNCHANGED endedTo

Handle(k) ==
  /\ served[k] /\ toService[k] # <<>>
  /\ toService' = [toService EXCEPT ![k] = Tail(@)]
  /\ LET c == Head(toService[k])
     IN  CASE c.type = "start_tun"    -> StartTun(k, c)
           [] c.type = "enable_split" -> EnableSplit(k, c)
           [] OTHER                   -> Stop(k, c)
  /\ UNCHANGED <<app, call, events, links, bounds>>

\* The pump answers the start, to the connection that asked for it.
TunReady ==
  /\ startOf # NoAnswer /\ holder # None
  /\ Answers(holder, Answer(startOf, TRUE, sess))
  /\ startOf' = NoAnswer
  /\ UNCHANGED <<app, call, links, toService, events, sess, kind, holder, endedTo, made, bounds>>

\* A session that cannot be brought up is refused; one that was up and ends by
\* itself is left to the pump to tell of.
TunEnds ==
  /\ sess # None /\ kind = "tun"
  /\ IF startOf # NoAnswer
       THEN /\ IF holder = None THEN UNCHANGED toClient
                                ELSE Answers(holder, Answer(startOf, FALSE, None))
            /\ UNCHANGED endedTo
       ELSE /\ endedTo' = IF holder = None THEN endedTo ELSE endedTo \union {<<holder, sess>>}
            /\ UNCHANGED toClient
  /\ TakeDown
  /\ UNCHANGED <<app, call, links, toService, events, bounds>>

Pump ==
  /\ \E e \in endedTo :
       /\ endedTo' = endedTo \ {e}
       /\ Answers(e[1], Ended(e[2]))
  /\ UNCHANGED <<app, call, links, toService, events, sess, kind, holder, startOf, made, bounds>>

\* Mutant: the session stays with the connection that is gone.
Detach_Keeps(k) ==
  /\ served[k] /\ link[k] = "lost"
  /\ served' = [served EXCEPT ![k] = FALSE]
  /\ toService' = [toService EXCEPT ![k] = <<>>]
  /\ UNCHANGED <<app, call, link, opened, toClient, events, service, bounds>>

\* The handler of a lost connection: its session waits for the client.
Detach(k) ==
  /\ served[k] /\ link[k] = "lost"
  /\ served' = [served EXCEPT ![k] = FALSE]
  /\ toService' = [toService EXCEPT ![k] = <<>>]
  /\ holder' = IF holder = k THEN None ELSE holder
  /\ UNCHANGED <<app, call, link, opened, toClient, events, sess, kind, startOf, endedTo, made, bounds>>

Grace ==
  /\ sess # None /\ holder = None
  /\ TakeDown
  /\ UNCHANGED <<app, call, wire, links, endedTo, bounds>>

\* The service dies with its session, and the next one knows of none.
Crash ==
  /\ faults < MaxFaults /\ faults' = faults + 1
  /\ link' = [k \in Conns |-> IF link[k] = "up" THEN "lost" ELSE link[k]]
  /\ served' = [k \in Conns |-> FALSE]
  /\ toService' = [k \in Conns |-> <<>>] /\ toClient' = [k \in Conns |-> <<>>]
  /\ TakeDown /\ endedTo' = {}
  /\ UNCHANGED <<app, call, opened, events, runs>>
(***************************************************************************)
(* Dialling: Connect, and the hello that may ask for a session             *)
(***************************************************************************)
NewConn == opened + 1
Resumable(t) == t # None /\ t = sess

\* The service sees the new connection, and hands it the session asked for;
\* the interface keeps it, or has given the dial up by then.
Hello(t, kept) ==
  /\ opened < MaxConns /\ opened' = NewConn
  /\ link' = [link EXCEPT ![NewConn] = IF kept THEN "up" ELSE "lost"]
  /\ served' = [served EXCEPT ![NewConn] = TRUE]
  /\ holder' = IF Resumable(t) THEN NewConn ELSE holder
  /\ UNCHANGED <<sess, kind, startOf, endedTo, made>>

(***************************************************************************)
(* A session, from the menu to the menu                                    *)
(***************************************************************************)
Opens(m) ==
  /\ pc' = "connect" /\ mode' = m /\ ctx' = TRUE
  /\ listening' = (m = "tun") /\ why' = None
  /\ watch' = IF m = "tun" THEN "wait" ELSE "off"

\* redialService first: a connection that went while nothing ran is replaced.
Begin(m) ==
  /\ pc = "menu" /\ conn # None
  /\ runs < MaxRuns /\ runs' = runs + 1
  /\ Opens(m)
  /\ IF Up(conn) THEN UNCHANGED <<conn, links, service>>
                 ELSE Hello(None, TRUE) /\ conn' = NewConn
  /\ UNCHANGED <<token, splitOn, asked, call, wire, faults>>

\* dropService: there is none to be had, and the interface is on its own.
BeginAlone ==
  /\ pc = "menu" /\ conn # None /\ ~Up(conn)
  /\ conn' = None /\ token' = None
  /\ UNCHANGED <<main, ctx, listening, why, splitOn, watcher, call, wire, links, service, bounds>>

Connect ==
  /\ pc = "connect"
  /\ IF Up(conn)
       THEN SendCall /\ pc' = "call"
       ELSE UNCHANGED <<call, wire>> /\ pc' = IF mode = "tun" THEN "leave" ELSE "up"
  /\ UNCHANGED <<mode, ctx, remote, watcher, links, service, bounds>>

\* The answer is in; its token is stored by the step after.
StartDone ==
  /\ pc = "call" /\ mode = "tun"
  /\ \/ /\ Answered /\ answer.ok
        /\ pc' = "got" /\ callOn' = None /\ UNCHANGED <<answer, wire>>
     \/ /\ (Answered /\ ~answer.ok) \/ Broken \/ ~ctx
        /\ pc' = "leave" /\ Over
  /\ UNCHANGED <<mode, ctx, remote, watcher, links, service, bounds>>

StoreToken ==
  /\ pc = "got"
  /\ token' = answer.sess /\ answer' = NoAnswer
  /\ pc' = IF ctx THEN "up" ELSE "leave"
  /\ UNCHANGED <<mode, ctx, conn, listening, why, splitOn, watcher, callOn, wire, links, service, bounds>>

\* A split that cannot be had is left off, and the session goes on without.
EnableDone ==
  /\ pc = "call" /\ mode = "split"
  /\ Answered \/ Broken
  /\ IF Answered /\ answer.ok
       THEN token' = answer.sess /\ splitOn' = TRUE
       ELSE UNCHANGED <<token, splitOn>>
  /\ watch' = "wait"
  /\ pc' = IF ctx THEN "up" ELSE "leave"
  /\ Over
  /\ UNCHANGED <<mode, ctx, conn, listening, why, asked, links, service, bounds>>

\* Fifteen seconds are over: serviceSplit gives up, the request does not.
EnableTimesOut ==
  /\ pc = "call" /\ mode = "split" /\ ~Answered
  /\ watch' = "wait"
  /\ pc' = IF ctx THEN "up" ELSE "leave"
  /\ Over
  /\ UNCHANGED <<mode, ctx, remote, asked, links, service, bounds>>

UserCancels ==
  /\ pc \in {"connect", "call"} /\ ctx
  /\ ctx' = FALSE
  /\ UNCHANGED <<main, remote, watcher, call, wire, links, service, bounds>>

\* The user leaves, or the session's context ended under the screen.
Leave ==
  /\ pc = "up"
  /\ pc' = "leave"
  /\ UNCHANGED <<mode, ctx, remote, watcher, call, wire, links, service, bounds>>

\* Where a session ends: nothing listens for it any longer.
ToMenu ==
  /\ pc' = "menu" /\ listening' = FALSE /\ why' = None /\ splitOn' = FALSE
  /\ token' = IF mode = "tun" THEN None ELSE token

\* teardown: the context is cancelled and the watch waited for; then stopRemote,
\* or the split's disable if it is on, over the connection there is.
CancelSession ==
  /\ pc = "leave"
  /\ pc' = "join" /\ ctx' = FALSE
  /\ UNCHANGED <<mode, remote, watcher, call, wire, links, service, bounds>>

\* Mutant: nothing is stopped while no start has been answered.
Teardown_Token ==
  /\ pc = "join" /\ watch = "off"
  /\ IF Up(conn) /\ ((mode = "tun" /\ token # None) \/ splitOn)
       THEN SendCall /\ pc' = "stop" /\ UNCHANGED <<listening, why, splitOn, token>>
       ELSE ToMenu /\ UNCHANGED <<call, wire>>
  /\ UNCHANGED <<mode, ctx, conn, watcher, links, service, bounds>>

Teardown ==
  /\ pc = "join" /\ watch = "off"
  /\ IF Up(conn) /\ (mode = "tun" \/ splitOn)
       THEN SendCall /\ pc' = "stop" /\ UNCHANGED <<listening, why, splitOn, token>>
       ELSE ToMenu /\ UNCHANGED <<call, wire>>
  /\ UNCHANGED <<mode, ctx, conn, watcher, links, service, bounds>>

Stopped ==
  /\ pc = "stop"
  /\ Answered \/ Broken
  /\ ToMenu /\ Over
  /\ UNCHANGED <<mode, ctx, conn, watcher, links, service, bounds>>

(***************************************************************************)
(* watchRemote, and the loop of the split's rescans                        *)
(***************************************************************************)
WatchEnds(c) == watch' = "off" /\ ctx' = c

\* The session is over, for whatever reason is first.
WatchCanceled ==
  /\ watch = "wait" /\ ~ctx
  /\ WatchEnds(FALSE)
  /\ UNCHANGED <<main, remote, asked, call, wire, links, service, bounds>>

WatchEnded ==
  /\ watch = "wait" /\ why # None
  /\ WatchEnds(FALSE)
  /\ why' = None
  /\ UNCHANGED <<main, conn, token, listening, splitOn, asked, call, wire, links, service, bounds>>

WatchLost ==
  /\ watch = "wait" /\ ~Up(conn)
  /\ mode = "tun" \/ splitOn
  /\ watch' = "dial" /\ asked' = token
  /\ UNCHANGED <<main, ctx, remote, call, wire, links, service, bounds>>

\* Mutant: a split that did not come back is still shown as on.
NotBack_Shown ==
  IF mode = "tun"
    THEN WatchEnds(FALSE) /\ UNCHANGED <<token, splitOn>>
    ELSE watch' = "wait" /\ token' = None /\ UNCHANGED <<splitOn, ctx>>

\* What a redial that brought nothing back means: the end of a TUN session; of
\* a split, that it is shown to be off.
NotBack ==
  IF mode = "tun"
    THEN WatchEnds(FALSE) /\ UNCHANGED <<token, splitOn>>
    ELSE watch' = "wait" /\ token' = None /\ splitOn' = FALSE /\ UNCHANGED ctx

\* Is what the new connection brings what was lost?
Back == Resumable(asked) \/ (mode = "tun" /\ asked = None)

Redial ==
  /\ watch = "dial"
  /\ Hello(asked, TRUE) /\ conn' = NewConn
  /\ IF ctx /\ ~Back THEN NotBack
                     ELSE watch' = "wait" /\ UNCHANGED <<ctx, token, splitOn>>
  /\ UNCHANGED <<main, listening, why, asked, call, wire, bounds>>

\* Mutant: what was dialled too late is not closed.
RedialLate_Open ==
  /\ watch = "dial"
  /\ Hello(asked, TRUE)
  /\ UNCHANGED <<app, call, wire, bounds>>

\* The dial is given up after the service has taken the hello: by its two
\* seconds, or with the session.
RedialLate ==
  /\ watch = "dial"
  /\ Hello(asked, FALSE)
  /\ UNCHANGED <<app, call, wire, bounds>>

RedialFails ==
  /\ watch = "dial"
  /\ IF ~ctx THEN WatchEnds(FALSE) /\ UNCHANGED <<token, splitOn>> ELSE NotBack
  /\ UNCHANGED <<main, conn, listening, why, asked, call, wire, links, service, bounds>>

ConnNext(k) == ReadLoop(k) \/ ServiceEvents(k) \/ Handle(k) \/ Detach(k)
MainNext ==
  \/ \E m \in {"tun", "split"} : Begin(m)
  \/ BeginAlone \/ Connect \/ StartDone \/ StoreToken \/ EnableDone
  \/ UserCancels \/ Leave \/ CancelSession \/ Teardown \/ Stopped
WatchNext ==
  \/ WatchCanceled \/ WatchEnded \/ WatchLost
  \/ Redial \/ RedialLate \/ RedialFails
ServiceNext == TunReady \/ TunEnds \/ Pump \/ Grace
Faults == Crash \/ \E k \in Conns : Lose(k)
Next == (\E k \in Conns : ConnNext(k)) \/ MainNext \/ WatchNext \/ ServiceNext \/ Faults
Spec == Init /\ [][Next]_vars

\* With a service that may be slower than serviceSplit waits for it.
SlowSpec == Init /\ [][Next \/ EnableTimesOut]_vars

\* Goroutines run, the service's timers fire, a dial comes to some end.
Fairness ==
  /\ \A k \in Conns : WF_vars(ConnNext(k))
  /\ WF_vars(Connect) /\ WF_vars(StartDone) /\ WF_vars(StoreToken) /\ WF_vars(EnableDone)
  /\ WF_vars(CancelSession) /\ WF_vars(Teardown) /\ WF_vars(Stopped)
  /\ WF_vars(WatchCanceled) /\ WF_vars(WatchEnded) /\ WF_vars(WatchLost) /\ WF_vars(RedialFails)
  /\ WF_vars(TunReady) /\ WF_vars(Pump) /\ WF_vars(Grace)
LiveSpec == Spec /\ Fairness

(***************************************************************************)
(* Properties                                                              *)
(***************************************************************************)
TypeOK ==
  /\ pc \in {"menu", "connect", "call", "got", "up", "leave", "join", "stop"}
  /\ conn \in 0..opened /\ token \in 0..made /\ sess \in 0..made
  /\ watch \in {"off", "wait", "dial"}
  /\ holder \in 0..opened
  /\ pc = "menu" => watch = "off" /\ ~listening /\ callOn = None

Held == sess # None /\ Up(holder)
Gone(k) == sess = None \/ kind # k

\* At the menu no TUN session is held by a connection that works: nobody would
\* take it down.  Each way out - cancelled while the start was on its way,
\* refused, lost and dialled again - has its session stopped or left to the
\* service's grace.
MenuHoldsNoTun == pc = "menu" /\ Held => kind # "tun"

\* One connection works at a time: one that is replaced is gone, and one dialled
\* too late is closed.
OneConnection == Cardinality({k \in Conns : Up(k)}) <= 1

\* A split shown as on, over a connection that works and holds no session, will
\* be taken for lost: it is asked back, or shown to be off.
SplitLossIsShown ==
  (pc = "up" /\ splitOn /\ ~Held) ~> (~splitOn \/ Held \/ pc # "up")

\* A session the user has left comes to its end, also when the stop had no
\* connection to go over.
LeftSessionEnds == (pc = "menu" /\ ~Gone("tun")) ~> (Gone("tun") \/ pc # "menu")

\* "It always leaves the system as it found it before returning" (runSession):
\* at the menu no connection that works holds a session.
LeavesAsFound == pc = "menu" => ~Held
=============================================================================
