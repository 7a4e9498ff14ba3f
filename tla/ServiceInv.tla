----------------------------- MODULE ServiceInv -----------------------------
(***************************************************************************)
(* The inductive invariant of Service: what its safety properties rest on. *)
(***************************************************************************)
EXTENDS Service

\* A session nobody has claimed has left no trace.
FreshInv ==
  \A s \in Sessions : kind[s] = "none" =>
    /\ sess # s /\ opSess # s /\ down # s
    /\ owner[s] = "nobody" /\ holder[s] = NoConn /\ grace[s] = NoConn
    /\ ~stopping[s] /\ done[s] = 0
    /\ host[s] = "off" /\ tun[s] = "none" /\ pump[s] = "none"
    /\ ~known[s]

\* A TUN session is the service's until its goroutine says that it is over,
\* with the machine as it was; done is closed after that.
TunInv ==
  \A s \in Sessions :
    /\ kind[s] = "tun" <=> tun[s] # "none"
    /\ tun[s] \in {"starting", "raised", "returned"} => sess = s
    /\ tun[s] \in {"unhooked", "over"} => sess # s
    /\ kind[s] = "tun" => done[s] = IF tun[s] = "over" THEN 1 ELSE 0
    /\ kind[s] = "tun" /\ host[s] = "up" => tun[s] = "raised"
    /\ pump[s] # "none" => kind[s] = "tun"

\* A split session is the service's until its done is closed.
SplitInv ==
  \A s \in Sessions : kind[s] = "split" =>
    /\ done[s] \in {0, 1}
    /\ sess = s <=> done[s] = 0
    /\ host[s] = "up" => done[s] = 0

\* What the holder of op is at, and with which session.
OpInv ==
  /\ op = Free <=> opStep = "none"
  /\ opStep = "none" => opSess = NoSession
  /\ \A c \in Conns : pc[c] = "busy" <=> op = Handler(c)
  /\ opStep \in {"check", "enable"} => \E c \in Conns : op = Handler(c)
  /\ \A c \in Conns :
       /\ Checking(c, "refresh_split") => opSess # NoSession
       /\ opStep = "enable" /\ op = Handler(c) => req[c] = "enable_split"
       /\ pc[c] = "busy" /\ req[c] \in {"stop", "disable_split"} => opStep \in {"finish", "drop"}
  /\ opStep = "check" /\ opSess # NoSession =>
       sess = opSess /\ kind[opSess] = "split" /\ ~stopping[opSess]
  /\ opStep = "enable" =>
       opSess # NoSession /\ sess = opSess /\ kind[opSess] = "split" /\ ~stopping[opSess]
  /\ opStep = "finish" =>
       /\ opSess # NoSession /\ stopping[opSess]
       /\ kind[opSess] = "split" => sess = opSess
  /\ opStep = "drop" =>
       /\ opSess # NoSession /\ stopping[opSess]
       /\ kind[opSess] = "split" /\ sess = opSess /\ host[opSess] # "up"

\* The current session is being taken down only by the holder of op.
StopInv ==
  /\ sess # NoSession /\ stopping[sess] => opSess = sess /\ opStep \in {"finish", "drop"}
  /\ \A s \in Sessions : ~stopping[s] => stoppedBy[s] = NoConn
  /\ \A s \in Sessions : kind[s] = "split" /\ done[s] = 1 => stopping[s]

\* Once Serve is closing the only session there can be is the one it saw.
ServeInv ==
  /\ closing <=> serve # "accepting"
  /\ closing => sess \in {NoSession, down}
  /\ serve \in {"teardown", "awaiting"} => down # NoSession
  /\ serve \in {"close", "waiting", "returned"} => sess = NoSession

\* The grace timer of a session was armed for it, by a handler that is gone.
GraceInv ==
  /\ \A c \in Conns : timer[c] # "none" => pc[c] = "gone" /\ timerOf[c] # NoSession
  /\ \A s \in Sessions : grace[s] # NoConn =>
       pc[grace[s]] = "gone" /\ timerOf[grace[s]] = s

\* The end of a TUN session is to be told to its last holder, and is.
ToldInv ==
  \A s \in Sessions :
    /\ tun[s] \in {"unhooked", "over"} /\ holder[s] # NoConn =>
         holder[s] \in {endedTo[s], stoppedBy[s]}
    /\ pump[s] \in {"pumped", "silent"} => tun[s] = "over"
    /\ pump[s] = "pumped" => told[s] = endedTo[s]

IInv ==
  /\ TypeOK
  /\ FreshInv
  /\ TunInv
  /\ SplitInv
  /\ OpInv
  /\ StopInv
  /\ ServeInv
  /\ GraceInv
  /\ ToldInv
  /\ HolderIsServed
  /\ OrphanHasTimer
  /\ OwnerHolds

=============================================================================
