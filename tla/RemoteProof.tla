---------------------------- MODULE RemoteProof ----------------------------
(***************************************************************************)
(* One connection that works, and a menu without a TUN session on it:      *)
(* proofs about Remote, for any number of connections, sessions, runs and  *)
(* losses, with a service that may be slower than serviceSplit waits.      *)
(***************************************************************************)
EXTENDS Remote, FiniteSetTheorems, TLAPS

Requests == {"start_tun", "enable_split", "stop", "disable_split"}
Calls    == [run : Nat, type : Requests]
Replies  == [type : {"reply"}, call : Calls, ok : BOOLEAN, sess : Nat]
Msgs     == Replies \cup [type : {"ended"}, sess : Nat]

AppTypeOK ==
  /\ pc \in {"menu", "connect", "call", "got", "up", "leave", "join", "stop"}
  /\ mode \in {"tun", "split"} /\ conn \in 0..opened /\ token \in 0..made
  /\ watch \in {"off", "wait", "dial"} /\ asked \in 0..made
  /\ callOn \in 0..opened /\ answer \in Replies \cup {NoAnswer}
  /\ runs \in Nat
WireTypeOK ==
  /\ opened \in Conns
  /\ link \in [Conns -> {"new", "up", "lost"}]
  /\ toService \in [Conns -> Seq(Calls)] /\ toClient \in [Conns -> Seq(Msgs)]
ServiceTypeOK ==
  /\ made \in Nat /\ sess \in 0..made /\ kind \in {"tun", "split"} /\ holder \in 0..opened
  /\ startOf \in {NoAnswer} \cup {c \in Calls : c.type = "start_tun"}
  /\ endedTo \subseteq Conns \X (0..made)

\* The one connection that may work is the interface's; one to come is blank.
LinkInv ==
  /\ \A k \in Conns : Up(k) => k = conn
  /\ \A k \in Conns : k > opened => link[k] = "new" /\ toService[k] = <<>>

\* It is dialled again when it is lost, and not once a stop goes over it.
WatchInv ==
  /\ watch = "dial" => ~Up(conn)
  /\ pc \in {"menu", "stop"} => watch = "off"
CallInv ==
  /\ callOn # None => pc \in {"call", "stop"}
  /\ pc = "stop" => callOn = conn
  /\ Answered => pc = "got" \/ (pc \in {"call", "stop"} /\ answer.call = Call)
  /\ pc = "got" => Answered /\ mode = "tun"

In(s) == {s[i] : i \in 1..Len(s)}

\* A session asked back for a split is a split: the token of a TUN session does
\* not outlive it.
ASplit(s) == s # None /\ s = sess => kind = "split"
TokenInv ==
  /\ pc = "menu" \/ mode = "split" => ASplit(token)
  /\ mode = "split" /\ watch = "dial" => ASplit(asked)

\* What is on its way: of this run or an earlier one, and no stop of this run
\* before it is sent.
RunStop == [run |-> runs, type |-> "stop"]
Unsent(c) == pc \notin {"menu", "stop"} => c # RunStop
CallOK(c) == c.run <= runs /\ Unsent(c)
MsgOK(m) == m.type = "reply" =>
  /\ m.sess <= made /\ (m.call.type = "enable_split" => ASplit(m.sess))
  /\ CallOK(m.call)
MsgInv ==
  /\ \A k \in Conns : \A c \in In(toService[k]) : CallOK(c)
  /\ \A k \in Conns : \A m \in In(toClient[k]) : MsgOK(m)
  /\ startOf # NoAnswer => startOf.run <= runs
  /\ Answered => answer.sess <= made /\ (answer.call.type = "enable_split" => ASplit(answer.sess))

\* No TUN session is held over a connection, and none is asked for.
TunFree(k) ==
  /\ \A c \in In(toService[k]) : c.type # "start_tun"
  /\ sess # None /\ holder = k => kind = "split"

\* The stop is the last of what is on its way, and not answered.
NoReply(k) == \A m \in In(toClient[k]) : m.type = "reply" => m.call # RunStop
Pending(k) ==
  /\ toService[k] # <<>>
  /\ \A i \in 1..Len(toService[k]) : toService[k][i] = RunStop <=> i = Len(toService[k])
  /\ NoReply(k) /\ ~Answered

TunInv == Up(conn) =>
  /\ pc = "menu" \/ mode = "split" => TunFree(conn)
  /\ pc = "stop" /\ mode = "tun" => TunFree(conn) \/ Pending(conn)

RInv ==
  /\ AppTypeOK /\ WireTypeOK /\ ServiceTypeOK
  /\ LinkInv /\ WatchInv /\ CallInv /\ TokenInv /\ MsgInv /\ TunInv

-----------------------------------------------------------------------------
(* What is on its way, as a set. *)

LEMMA InSeq ==
  ASSUME NEW S, NEW s \in Seq(S)
  PROVE  /\ In(s) \subseteq S
         /\ \A e \in S : Append(s, e) \in Seq(S) /\ In(Append(s, e)) = In(s) \cup {e}
         /\ s # <<>> => /\ Head(s) \in In(s) /\ Tail(s) \in Seq(S) /\ In(Tail(s)) \subseteq In(s)
                        /\ Head(s) \in S
  <1>1. In(s) \subseteq S
    BY DEF In
  <1>2. ASSUME NEW e \in S
        PROVE  Append(s, e) \in Seq(S) /\ In(Append(s, e)) = In(s) \cup {e}
    <2>1. /\ Append(s, e) \in Seq(S) /\ Len(Append(s, e)) = Len(s) + 1
          /\ \A i \in 1..Len(s) : Append(s, e)[i] = s[i]
          /\ Append(s, e)[Len(s) + 1] = e
      OBVIOUS
    <2>2. In(Append(s, e)) \subseteq In(s) \cup {e}
      BY <2>1 DEF In
    <2>3. In(s) \subseteq In(Append(s, e)) /\ e \in In(Append(s, e))
      BY <2>1 DEF In
    <2> QED
      BY <2>1, <2>2, <2>3
  <1>3. ASSUME s # <<>>
        PROVE  Head(s) \in In(s) /\ Tail(s) \in Seq(S) /\ In(Tail(s)) \subseteq In(s) /\ Head(s) \in S
    <2>1. /\ Len(s) \in Nat /\ Len(s) > 0 /\ Head(s) = s[1] /\ Tail(s) \in Seq(S)
          /\ Len(Tail(s)) = Len(s) - 1 /\ \A i \in 1..Len(Tail(s)) : Tail(s)[i] = s[i + 1]
      BY <1>3
    <2> QED
      BY <2>1 DEF In
  <1> QED
    BY <1>1, <1>2, <1>3

LEMMA TailIs ==
  ASSUME NEW S, NEW s \in Seq(S), s # <<>>
  PROVE  /\ Len(s) \in Nat /\ Len(s) > 0 /\ Head(s) = s[1] /\ Len(Tail(s)) = Len(s) - 1
         /\ \A i \in 1..Len(Tail(s)) : Tail(s)[i] = s[i + 1]
         /\ Len(s) # 1 => Tail(s) # <<>>
  <1>1. /\ Len(s) \in Nat /\ Len(s) > 0 /\ Head(s) = s[1] /\ Tail(s) \in Seq(S)
        /\ Len(Tail(s)) = Len(s) - 1 /\ \A i \in 1..Len(Tail(s)) : Tail(s)[i] = s[i + 1]
    OBVIOUS
  <1>2. Len(<<>>) = 0
    OBVIOUS
  <1>3. Len(Tail(s)) # 0 => Tail(s) # <<>>
    BY <1>2, Zenon
  <1>4. Len(s) # 1 => Len(Tail(s)) # 0
    BY <1>1
  <1> QED
    BY <1>1, <1>3, <1>4

LEMMA InNone == In(<<>>) = {} /\ \A S : <<>> \in Seq(S)
  BY DEF In

LEMMA WireIs ==
  ASSUME RInv, NEW k \in Conns
  PROVE  /\ toService[k] \in Seq(Calls) /\ In(toService[k]) \subseteq Calls
         /\ toClient[k] \in Seq(Msgs) /\ In(toClient[k]) \subseteq Msgs
         /\ Conns \subseteq Nat \ {0} /\ None \notin Conns
  <1>1. toService[k] \in Seq(Calls) /\ toClient[k] \in Seq(Msgs)
    BY DEF RInv, WireTypeOK
  <1> QED
    BY <1>1, InSeq DEF Conns, None

-----------------------------------------------------------------------------
LEMMA RemoteInit == Init => RInv
  <1> SUFFICES ASSUME Init PROVE RInv
    OBVIOUS
  <1>1. 1 \in Conns /\ Conns \subseteq Nat
    BY RemoteAssumption DEF Conns
  <1>2. AppTypeOK /\ WireTypeOK /\ ServiceTypeOK
    BY <1>1, InNone DEF Init, AppTypeOK, WireTypeOK, ServiceTypeOK, None
  <1>3. LinkInv /\ WatchInv /\ CallInv /\ TokenInv
    BY <1>1 DEF Init, LinkInv, WatchInv, CallInv, TokenInv, Up, None, Answered, NoAnswer, ASplit
  <1>4. MsgInv
    BY <1>1, InNone DEF Init, MsgInv, Answered, NoAnswer
  <1>5. TunInv
    BY <1>1, InNone DEF Init, TunInv, TunFree, None
  <1> QED
    BY <1>2, <1>3, <1>4, <1>5 DEF RInv

-----------------------------------------------------------------------------
(* The wire and the service: the interface stands still. *)

\* No session but a new one takes the place of another.
Succeeds == made <= made' /\ \A s \in 0..made : ASplit(s) => ASplit(s)'

LEMMA WireKeeps ==
  ASSUME RInv, UNCHANGED <<app, call, opened, runs>>, WireTypeOK', ServiceTypeOK',
         \A k \in Conns : link'[k] = link[k] \/ (link[k] = "up" /\ link'[k] = "lost"),
         \A k \in Conns : In(toService'[k]) \subseteq In(toService[k]) /\ (k > opened => toService'[k] = <<>>),
         \A k \in Conns : \A m \in In(toClient'[k]) : m \in In(toClient[k]) \/ MsgOK(m)',
         startOf' # NoAnswer => startOf'.run <= runs, Succeeds,
         Up(conn)' => (TunFree(conn) => TunFree(conn)')
                      /\ (Pending(conn) => TunFree(conn)' \/ Pending(conn)')
  PROVE  RInv'
  <1>1. /\ pc' = pc /\ mode' = mode /\ conn' = conn /\ token' = token /\ watch' = watch
        /\ asked' = asked /\ callOn' = callOn /\ answer' = answer /\ runs' = runs /\ opened' = opened
    BY DEF app, call
  <1>2. made' \in Nat /\ made <= made' /\ \A s \in 0..made : ASplit(s) => ASplit(s)'
    BY DEF Succeeds, ServiceTypeOK
  <1>3. AppTypeOK'
    BY <1>1, <1>2 DEF RInv, AppTypeOK, ServiceTypeOK
  <1>4. \A k : Up(k)' /\ k \in Conns => Up(k)
    BY DEF Up
  <1>5. LinkInv'
    BY <1>1, <1>4 DEF RInv, LinkInv
  <1>6. Up(conn)' => Up(conn)
    <2>1. conn # None => conn \in Conns
      BY RemoteAssumption DEF RInv, AppTypeOK, WireTypeOK, Conns, None
    <2> QED
      BY <1>1, <1>4, <2>1 DEF Up
  <1>7. WatchInv' /\ CallInv'
    BY <1>1, <1>6 DEF RInv, WatchInv, CallInv, Answered, Call, Request
  <1>8. TokenInv'
    BY <1>1, <1>2 DEF RInv, TokenInv, AppTypeOK
  <1>9. MsgInv'
    <2>1. \A c : CallOK(c)' <=> CallOK(c)
      BY <1>1 DEF CallOK, Unsent, RunStop
    <2>2. ASSUME NEW m \in Msgs, MsgOK(m) PROVE MsgOK(m)'
      BY <1>1, <1>2, <2>1, <2>2 DEF MsgOK, Msgs, Replies, RInv, ServiceTypeOK
    <2>3. \A k \in Conns : \A c \in In(toService'[k]) : CallOK(c)'
      BY <2>1 DEF RInv, MsgInv
    <2>4. \A k \in Conns : \A m \in In(toClient'[k]) : MsgOK(m)'
      BY <2>2, WireIs DEF RInv, MsgInv
    <2>5. (Answered => answer.sess <= made /\ (answer.call.type = "enable_split" => ASplit(answer.sess)))'
      <3>1. Answered => answer \in Replies
        BY DEF RInv, AppTypeOK, Answered, NoAnswer
      <3>2. Answered => answer.sess \in 0..made /\ (answer.call.type = "enable_split" => ASplit(answer.sess))
        BY <3>1 DEF RInv, MsgInv, Replies, ServiceTypeOK
      <3>3. made \in Nat
        BY DEF RInv, ServiceTypeOK
      <3> QED
        BY <1>1, <1>2, <3>2, <3>3 DEF Answered
    <2> QED
      BY <1>1, <2>3, <2>4, <2>5 DEF MsgInv
  <1>10. TunInv'
    BY <1>1, <1>6 DEF RInv, TunInv
  <1> QED
    BY <1>3, <1>5, <1>7, <1>8, <1>9, <1>10 DEF RInv

LEMMA RunStopIs == RunStop.type = "stop" /\ RunStop.run = runs
  BY DEF RunStop

\* What a start is answered is no answer to a stop.
LEMMA StartAnswer ==
  ASSUME NEW c \in Calls, c.type = "start_tun", c.run <= runs, runs' = runs,
         NEW ok \in BOOLEAN, NEW s \in Nat, s <= made',
         NEW m, m = Answer(c, ok, s)
  PROVE  m \in Msgs /\ m.type = "reply" /\ m.call # RunStop /\ MsgOK(m)'
  <1>1. m \in Msgs /\ m.type = "reply" /\ m.call = c /\ m.sess = s
    BY DEF Answer, Msgs, Replies
  <1>2. m.call # RunStop
    BY <1>1, RunStopIs
  <1>3. c # RunStop'
    BY RunStopIs DEF RunStop
  <1>4. CallOK(c)'
    BY <1>3 DEF CallOK, Unsent
  <1> QED
    BY <1>1, <1>2, <1>4 DEF MsgOK

LEMMA AnswersIs ==
  ASSUME RInv, NEW k \in Conns, NEW m \in Msgs, Answers(k, m)
  PROVE  /\ toClient' \in [Conns -> Seq(Msgs)]
         /\ \A j \in Conns : \A n \in In(toClient'[j]) : n \in In(toClient[j]) \/ (j = k /\ n = m)
  <1>1. toClient \in [Conns -> Seq(Msgs)]
    BY DEF RInv, WireTypeOK
  <1>2. Append(toClient[k], m) \in Seq(Msgs) /\ In(Append(toClient[k], m)) = In(toClient[k]) \cup {m}
    BY <1>1, InSeq
  <1>3. toClient' = [toClient EXCEPT ![k] = IF link[k] = "up" THEN Append(@, m) ELSE @]
    BY DEF Answers
  <1>4. toClient' \in [Conns -> Seq(Msgs)]
    BY <1>1, <1>2, <1>3
  <1>5. \A j \in Conns : j # k => toClient'[j] = toClient[j]
    BY <1>1, <1>3
  <1>6. toClient'[k] = toClient[k] \/ toClient'[k] = Append(toClient[k], m)
    BY <1>1, <1>3
  <1> QED
    BY <1>2, <1>4, <1>5, <1>6

LEMMA AnswerIs ==
  ASSUME RInv, NEW c \in Calls, NEW ok \in BOOLEAN, NEW s \in Nat
  PROVE  /\ Answer(c, ok, s) \in Msgs /\ Answer(c, ok, s).call = c
         /\ Answer(c, ok, s).sess = s /\ Answer(c, ok, s).type = "reply"
  BY DEF Answer, Msgs, Replies

\* The answers of the service, given to a call that is due one.
LEMMA MsgStays ==
  ASSUME RInv, UNCHANGED <<app, call, runs>>, NEW c \in Calls, CallOK(c),
         NEW ok \in BOOLEAN, NEW s \in 0..made', made' \in Nat,
         c.type = "enable_split" => ASplit(s)'
  PROVE  MsgOK(Answer(c, ok, s))'
  <1>1. CallOK(c)'
    BY DEF CallOK, Unsent, RunStop, app, call
  <1> QED
    BY <1>1 DEF MsgOK, Answer

LEMMA LoseKeeps ==
  ASSUME RInv, NEW k \in Conns, Lose(k)
  PROVE  RInv'
  <1>1. UNCHANGED <<app, call, opened, runs, toService, service>> /\ toService' = toService
    BY DEF Lose
  <1>2. sess' = sess /\ kind' = kind /\ holder' = holder /\ startOf' = startOf /\ endedTo' = endedTo /\ made' = made
    BY DEF Lose, service
  <1>3. WireTypeOK' /\ ServiceTypeOK'
    BY <1>1, <1>2, InNone DEF Lose, RInv, WireTypeOK, ServiceTypeOK
  <1>4. \A j \in Conns : link'[j] = link[j] \/ (link[j] = "up" /\ link'[j] = "lost")
    BY DEF Lose, RInv, WireTypeOK
  <1>5. \A j \in Conns : toClient'[j] = toClient[j] \/ toClient'[j] = <<>>
    BY DEF Lose, RInv, WireTypeOK
  <1>6. \A j \in Conns : \A m \in In(toClient'[j]) : m \in In(toClient[j])
    BY <1>5, InNone
  <1>7. Succeeds
    BY <1>2 DEF Succeeds, ASplit, RInv, ServiceTypeOK
  <1>8. conn' = conn /\ answer' = answer /\ runs' = runs
    BY <1>1 DEF app, call
  <1>9. Up(conn)' => conn \in Conns
    BY <1>8, RemoteAssumption DEF Up, RInv, AppTypeOK, WireTypeOK, Conns, None
  <1>10. Up(conn)' => (TunFree(conn) => TunFree(conn)') /\ (Pending(conn) => Pending(conn)')
    BY <1>1, <1>2, <1>6, <1>8, <1>9 DEF TunFree, Pending, NoReply, RunStop, Answered
  <1>11. \A j \in Conns : j > opened => toService'[j] = <<>>
    BY <1>1 DEF RInv, LinkInv
  <1>12. startOf' # NoAnswer => startOf'.run <= runs
    BY <1>2 DEF RInv, MsgInv
  <1> QED
    BY <1>1, <1>3, <1>4, <1>6, <1>7, <1>10, <1>11, <1>12, WireKeeps

\* What the service does with a call of the connection k, but for the wire.
LEMMA HandledIs ==
  ASSUME RInv, NEW k \in Conns, Handle(k),
         NEW c, c = Head(toService[k])
  PROVE  /\ c \in Calls /\ CallOK(c)
         /\ toService' \in [Conns -> Seq(Calls)]
         /\ \A j \in Conns : j # k => toService'[j] = toService[j]
         /\ toService'[k] = Tail(toService[k]) /\ In(toService'[k]) \subseteq In(toService[k])
         /\ c \in In(toService[k]) /\ k <= opened
         /\ UNCHANGED <<app, call, opened, runs, link, answer, conn>>
         /\ made' \in Nat /\ made <= made'
  <1>1. toService \in [Conns -> Seq(Calls)] /\ toService[k] # <<>>
    BY DEF RInv, WireTypeOK, Handle
  <1>2. /\ c \in In(toService[k]) /\ c \in Calls /\ Tail(toService[k]) \in Seq(Calls)
        /\ In(Tail(toService[k])) \subseteq In(toService[k])
    BY <1>1, InSeq
  <1>3. toService' = [toService EXCEPT ![k] = Tail(@)]
    BY DEF Handle
  <1>4. toService' \in [Conns -> Seq(Calls)]
    BY <1>1, <1>2, <1>3
  <1>5. (\A j \in Conns : j # k => toService'[j] = toService[j]) /\ toService'[k] = Tail(toService[k])
    BY <1>1, <1>3
  <1>6. CallOK(c)
    BY <1>2 DEF RInv, MsgInv
  <1>7. UNCHANGED <<app, call, opened, runs, link, answer, conn>>
    BY DEF Handle, app, call, links, bounds
  <1>8. k <= opened
    BY <1>1 DEF RInv, LinkInv, WireTypeOK, Conns
  <1>9. made' \in Nat /\ made <= made'
    <2>1. made \in Nat
      BY DEF RInv, ServiceTypeOK
    <2>2. StartTun(k, c) \/ EnableSplit(k, c) \/ Stop(k, c)
      BY DEF Handle
    <2>3. made' = made \/ made' = made + 1
      BY <2>2 DEF StartTun, EnableSplit, Stop, Claim, TakeDown, service
    <2> QED
      BY <2>1, <2>3
  <1> QED
    BY <1>2, <1>4, <1>5, <1>6, <1>7, <1>8, <1>9

\* The answer to a call, if it is given at once.
LEMMA HandledAnswers ==
  ASSUME RInv, NEW k \in Conns, Handle(k),
         NEW c, c = Head(toService[k])
  PROVE  \/ UNCHANGED toClient
         \/ \E ok \in BOOLEAN, s \in 0..made' :
              Answers(k, Answer(c, ok, s)) /\ (c.type = "enable_split" => ASplit(s)')
  <1>1. made \in Nat /\ sess \in 0..made /\ None \in 0..made /\ None = 0
    BY DEF RInv, ServiceTypeOK, None
  <1>2. CASE c.type = "start_tun"
    <2>1. StartTun(k, c)
      BY <1>2 DEF Handle
    <2> QED
      BY <1>1, <1>2, <2>1 DEF StartTun, service
  <1>3. CASE c.type = "enable_split"
    <2>1. EnableSplit(k, c)
      BY <1>3 DEF Handle
    <2>2. CASE sess = None /\ Claim(k, "split") /\ Answers(k, Answer(c, TRUE, made + 1))
      <3> PICK s : s = made + 1
        OBVIOUS
      <3>1. made' = s /\ kind' = "split"
        BY <2>2 DEF Claim
      <3>2. s \in 0..made' /\ ASplit(s)'
        BY <1>1, <3>1 DEF ASplit
      <3>3. Answers(k, Answer(c, TRUE, s))
        BY <2>2
      <3> QED
        BY <3>2, <3>3
    <2>3. CASE /\ sess # None /\ UNCHANGED service /\ kind = "split"
               /\ Answers(k, Answer(c, TRUE, sess))
      BY <1>1, <2>3 DEF ASplit, service
    <2>4. CASE UNCHANGED service /\ Answers(k, Answer(c, FALSE, None))
      BY <1>1, <2>4 DEF ASplit, service
    <2> QED
      BY <2>1, <2>2, <2>3, <2>4 DEF EnableSplit
  <1>4. CASE c.type \notin {"start_tun", "enable_split"}
    <2>1. Stop(k, c)
      BY <1>4 DEF Handle
    <2>2. UNCHANGED made /\ \E ok \in BOOLEAN : Answers(k, Answer(c, ok, None))
      BY <2>1 DEF Stop, TakeDown, service
    <2> QED
      BY <1>1, <1>4, <2>2
  <1> QED
    BY <1>2, <1>3, <1>4

LEMMA HandledServes ==
  ASSUME RInv, NEW k \in Conns, Handle(k),
         NEW c, c = Head(toService[k])
  PROVE  /\ ServiceTypeOK' /\ Succeeds /\ (startOf' # NoAnswer => startOf'.run <= runs)
         /\ \/ sess' = None
            \/ sess' = sess /\ kind' = kind /\ holder' = holder
            \/ sess' # None /\ holder' = k
               /\ kind' = (IF c.type = "start_tun" THEN "tun" ELSE "split")
               /\ c.type \in {"start_tun", "enable_split"}
         /\ c.type = "stop" => ~(sess' # None /\ holder' = k)
  <1>1. /\ made \in Nat /\ sess \in 0..made /\ None = 0 /\ kind \in {"tun", "split"}
        /\ holder \in 0..opened /\ opened \in Nat /\ k \in 0..opened
        /\ startOf \in {NoAnswer} \cup {d \in Calls : d.type = "start_tun"}
        /\ endedTo \subseteq Conns \X (0..made) /\ opened' = opened
        /\ startOf # NoAnswer => startOf.run <= runs
    BY HandledIs DEF RInv, ServiceTypeOK, WireTypeOK, MsgInv, None, Conns
  <1>2. c \in Calls /\ c.run <= runs
    BY HandledIs DEF CallOK
  <1>3. CASE UNCHANGED service
    <2>1. /\ sess' = sess /\ kind' = kind /\ holder' = holder /\ startOf' = startOf /\ endedTo' = endedTo
          /\ made' = made
      BY <1>3 DEF service
    <2>2. c.type = "stop" => ~(sess # None /\ holder = k)
      <3> SUFFICES ASSUME c.type = "stop", sess # None, holder = k PROVE FALSE
        OBVIOUS
      <3>1. Stop(k, c)
        BY DEF Handle
      <3>2. TakeDown
        BY <3>1 DEF Stop
      <3> QED
        BY <2>1, <3>2 DEF TakeDown
    <2> QED
      BY <1>1, <2>1, <2>2 DEF ServiceTypeOK, Succeeds, ASplit
  <1>4. CASE c.type = "start_tun" /\ sess = None /\ Claim(k, "tun") /\ startOf' = c
    <2>1. endedTo' \subseteq Conns \X (0..made')
      BY <1>1, <1>4 DEF Claim
    <2>2. startOf' \in {NoAnswer} \cup {d \in Calls : d.type = "start_tun"}
      BY <1>2, <1>4
    <2> QED
      BY <1>1, <1>2, <1>4, <2>1, <2>2 DEF Claim, ServiceTypeOK, Succeeds, ASplit
  <1>5. CASE c.type = "enable_split" /\ sess = None /\ Claim(k, "split") /\ UNCHANGED startOf
    <2>1. endedTo' \subseteq Conns \X (0..made')
      BY <1>1, <1>5 DEF Claim
    <2> QED
      BY <1>1, <1>2, <1>5, <2>1 DEF Claim, ServiceTypeOK, Succeeds, ASplit
  <1>6. CASE c.type \notin {"start_tun", "enable_split"} /\ TakeDown /\ UNCHANGED endedTo
    BY <1>1, <1>6 DEF TakeDown, ServiceTypeOK, Succeeds, ASplit
  <1> QED
    BY <1>3, <1>4, <1>5, <1>6 DEF Handle, StartTun, EnableSplit, Stop

LEMMA HandleKeeps ==
  ASSUME RInv, NEW k \in Conns, Handle(k)
  PROVE  RInv'
  <1> PICK c : c = Head(toService[k])
    OBVIOUS
  <1>1. /\ c \in Calls /\ CallOK(c)
        /\ toService' \in [Conns -> Seq(Calls)]
        /\ \A j \in Conns : j # k => toService'[j] = toService[j]
        /\ toService'[k] = Tail(toService[k]) /\ In(toService'[k]) \subseteq In(toService[k])
        /\ c \in In(toService[k]) /\ k <= opened
        /\ UNCHANGED <<app, call, opened, runs, link, answer, conn>>
        /\ made' \in Nat /\ made <= made'
    BY HandledIs
  <1>2. /\ ServiceTypeOK' /\ Succeeds /\ (startOf' # NoAnswer => startOf'.run <= runs)
        /\ \/ sess' = None
           \/ sess' = sess /\ kind' = kind /\ holder' = holder
           \/ sess' # None /\ holder' = k
              /\ kind' = (IF c.type = "start_tun" THEN "tun" ELSE "split")
              /\ c.type \in {"start_tun", "enable_split"}
        /\ c.type = "stop" => ~(sess' # None /\ holder' = k)
    BY HandledServes
  <1>3. /\ toClient' \in [Conns -> Seq(Msgs)]
        /\ \A j \in Conns : \A n \in In(toClient'[j]) :
             n \in In(toClient[j]) \/ (j = k /\ n.call = c /\ MsgOK(n)')
    <2>1. CASE UNCHANGED toClient
      BY <2>1 DEF RInv, WireTypeOK
    <2>2. ASSUME NEW ok \in BOOLEAN, NEW s \in 0..made', Answers(k, Answer(c, ok, s)),
                 c.type = "enable_split" => ASplit(s)'
          PROVE  /\ toClient' \in [Conns -> Seq(Msgs)]
                 /\ \A j \in Conns : \A n \in In(toClient'[j]) :
                      n \in In(toClient[j]) \/ (j = k /\ n.call = c /\ MsgOK(n)')
      <3>1. s \in Nat
        BY <1>1
      <3>2. MsgOK(Answer(c, ok, s))'
        BY <1>1, <2>2, MsgStays
      <3>3. Answer(c, ok, s) \in Msgs /\ Answer(c, ok, s).call = c
        BY <1>1, <3>1, AnswerIs
      <3>m. PICK m : m = Answer(c, ok, s)
        OBVIOUS
      <3>4. m \in Msgs /\ m.call = c /\ MsgOK(m)'
        BY <3>2, <3>3, <3>m
      <3>5. Answers(k, m)
        BY <2>2, <3>m
      <3>6. /\ toClient' \in [Conns -> Seq(Msgs)]
            /\ \A j \in Conns : \A n \in In(toClient'[j]) : n \in In(toClient[j]) \/ (j = k /\ n = m)
        BY <3>4, <3>5, AnswersIs
      <3> QED
        BY <3>4, <3>6
    <2> QED
      BY <2>1, <2>2, HandledAnswers
  <1>4. WireTypeOK'
    BY <1>1, <1>3 DEF RInv, WireTypeOK
  <1>5. \A j \in Conns : In(toService'[j]) \subseteq In(toService[j]) /\ (j > opened => toService'[j] = <<>>)
    <2>1. \A j \in Conns : j > opened => j # k /\ toService[j] = <<>>
      BY <1>1 DEF RInv, WireTypeOK, LinkInv, Conns
    <2> QED
      BY <1>1, <2>1
  <1>6. Up(conn)' => conn \in Conns
    BY <1>1, RemoteAssumption DEF Up, RInv, AppTypeOK, WireTypeOK, Conns, None
  <1>7. ASSUME TunFree(conn), conn \in Conns PROVE TunFree(conn)'
    <2>1. conn = k => c.type # "start_tun"
      BY <1>1, <1>7 DEF TunFree
    <2>2. \A d \in In(toService'[conn]) : d.type # "start_tun"
      BY <1>5, <1>7 DEF TunFree
    <2> QED
      BY <1>1, <1>2, <1>7, <2>1, <2>2 DEF TunFree
  <1>8. ASSUME Pending(conn), conn \in Conns PROVE TunFree(conn)' \/ Pending(conn)'
    <2>1. RunStop' = RunStop /\ ~Answered'
      BY <1>1, <1>8 DEF RunStop, Pending, Answered
    <2>2. CASE conn # k
      <3>1. NoReply(conn)'
        BY <1>1, <1>3, <1>8, <2>1, <2>2 DEF Pending, NoReply
      <3> QED
        BY <1>1, <1>8, <2>1, <2>2, <3>1 DEF Pending
    <2>3. CASE conn = k
      <3>1. /\ Len(toService[k]) \in Nat /\ Len(toService[k]) > 0 /\ c = toService[k][1]
            /\ Len(Tail(toService[k])) = Len(toService[k]) - 1
            /\ \A i \in 1..Len(Tail(toService[k])) : Tail(toService[k])[i] = toService[k][i + 1]
            /\ Len(toService[k]) # 1 => Tail(toService[k]) # <<>>
        BY WireIs, TailIs, <1>8, <2>3 DEF Pending
      <3>2. \A i \in 1..Len(toService[k]) : toService[k][i] = RunStop <=> i = Len(toService[k])
        BY <1>8, <2>3 DEF Pending
      <3>3. CASE Len(toService[k]) = 1
        <4>1. c.type = "stop"
          BY <3>1, <3>2, <3>3 DEF RunStop
        <4>2. In(toService'[conn]) = {}
          <5>0. toService'[conn] = Tail(toService[k])
            BY <1>1, <2>3
          <5>t. Len(Tail(toService[k])) = 0
            BY <3>1, <3>3
          <5>1. Len(toService'[conn]) = 0
            BY <5>0, <5>t
          <5>2. 1..Len(toService'[conn]) = {}
            BY <5>1
          <5> QED
            BY <5>2 DEF In
        <4> QED
          BY <1>1, <1>2, <2>3, <4>1, <4>2 DEF TunFree
      <3>4. CASE Len(toService[k]) # 1
        <4>1. c # RunStop
          <5>1. 1 \in 1..Len(toService[k])
            BY <3>1
          <5> QED
            BY <3>1, <3>2, <3>4, <5>1
        <4>2. NoReply(conn)'
          BY <1>1, <1>3, <1>8, <2>1, <2>3, <4>1 DEF Pending, NoReply
        <4>3. Tail(toService[k]) # <<>>
          BY <3>1, <3>4
        <4>4. \A i \in 1..Len(Tail(toService[k])) :
                Tail(toService[k])[i] = RunStop <=> i = Len(Tail(toService[k]))
          BY <3>1, <3>2
        <4> QED
          BY <1>1, <2>1, <2>3, <4>2, <4>3, <4>4 DEF Pending
      <3> QED
        BY <3>3, <3>4
    <2> QED
      BY <2>2, <2>3
  <1>9. Up(conn)' => (TunFree(conn) => TunFree(conn)') /\ (Pending(conn) => TunFree(conn)' \/ Pending(conn)')
    BY <1>6, <1>7, <1>8
  <1>10. /\ UNCHANGED <<app, call, opened, runs>>
         /\ \A j \in Conns : link'[j] = link[j]
         /\ \A j \in Conns : \A m \in In(toClient'[j]) : m \in In(toClient[j]) \/ MsgOK(m)'
    BY <1>1, <1>3
  <1> QED
    BY <1>2, <1>4, <1>5, <1>9, <1>10, WireKeeps

\* A step of the service's own: no call is taken, no session is claimed, and no
\* stop answered.
LEMMA ServeKeeps ==
  ASSUME RInv, UNCHANGED <<app, call, opened, runs, toService, link>>,
         ServiceTypeOK', made' = made,
         sess' = None \/ (sess' = sess /\ kind' = kind /\ holder' \in {holder, None}),
         startOf' \in {startOf, NoAnswer},
         toClient' \in [Conns -> Seq(Msgs)],
         \A j \in Conns : \A m \in In(toClient'[j]) :
           m \in In(toClient[j]) \/ (MsgOK(m)' /\ (m.type = "reply" => m.call # RunStop))
  PROVE  RInv'
  <1>1. conn' = conn /\ answer' = answer /\ runs' = runs
    BY DEF app, call
  <1>2. WireTypeOK'
    BY DEF RInv, WireTypeOK
  <1>3. Succeeds
    BY DEF Succeeds, ASplit, RInv, ServiceTypeOK
  <1>4. startOf' # NoAnswer => startOf'.run <= runs
    BY DEF RInv, MsgInv
  <1>5. Up(conn)' => conn \in Conns /\ conn # None
    BY <1>1, RemoteAssumption DEF Up, RInv, AppTypeOK, WireTypeOK, Conns, None
  <1>6. ASSUME conn \in Conns, conn # None, TunFree(conn) PROVE TunFree(conn)'
    BY <1>1, <1>6 DEF TunFree
  <1>7. ASSUME conn \in Conns, Pending(conn) PROVE Pending(conn)'
    <2>1. RunStop' = RunStop /\ ~Answered'
      BY <1>1, <1>7 DEF RunStop, Pending, Answered
    <2>2. NoReply(conn)'
      BY <1>1, <1>7, <2>1 DEF Pending, NoReply
    <2> QED
      BY <1>1, <1>7, <2>1, <2>2 DEF Pending
  <1>8. \A j \in Conns : j > opened => toService'[j] = <<>>
    BY DEF RInv, LinkInv
  <1>9. Up(conn)' => (TunFree(conn) => TunFree(conn)') /\ (Pending(conn) => TunFree(conn)' \/ Pending(conn)')
    BY <1>5, <1>6, <1>7
  <1>10. /\ UNCHANGED <<app, call, opened, runs>>
         /\ \A j \in Conns : link'[j] = link[j] /\ toService'[j] = toService[j]
         /\ \A j \in Conns : \A m \in In(toClient'[j]) : m \in In(toClient[j]) \/ MsgOK(m)'
    OBVIOUS
  <1> QED
    BY <1>2, <1>3, <1>4, <1>8, <1>9, <1>10, WireKeeps

LEMMA TunReadyKeeps ==
  ASSUME RInv, TunReady
  PROVE  RInv'
  <1>1. /\ UNCHANGED <<app, call, opened, runs, toService, link>>
        /\ sess' = sess /\ kind' = kind /\ holder' = holder /\ endedTo' = endedTo /\ made' = made
        /\ startOf' = NoAnswer
    BY DEF TunReady, links, bounds
  <1>2. ServiceTypeOK'
    BY <1>1 DEF RInv, ServiceTypeOK
  <1>3. holder \in Conns
    BY RemoteAssumption DEF TunReady, RInv, ServiceTypeOK, WireTypeOK, Conns, None
  <1> PICK c, s, ok, m : c = startOf /\ s = sess /\ ok = TRUE /\ m = Answer(c, ok, s)
    OBVIOUS
  <1>4. c \in Calls /\ c.type = "start_tun" /\ c.run <= runs
    BY DEF TunReady, RInv, ServiceTypeOK, MsgInv
  <1>5. runs' = runs /\ s \in Nat /\ s <= made'
    BY <1>1 DEF RInv, ServiceTypeOK
  <1>6. m \in Msgs /\ (m.type = "reply" => m.call # RunStop) /\ MsgOK(m)'
    BY <1>4, <1>5, StartAnswer
  <1>8. Answers(holder, m)
    BY DEF TunReady
  <1>9. /\ toClient' \in [Conns -> Seq(Msgs)]
        /\ \A j \in Conns : \A n \in In(toClient'[j]) : n \in In(toClient[j]) \/ n = m
    BY <1>3, <1>6, <1>8, AnswersIs
  <1> QED
    BY <1>1, <1>2, <1>6, <1>9, ServeKeeps

LEMMA TunEndsKeeps ==
  ASSUME RInv, TunEnds
  PROVE  RInv'
  <1>1. /\ UNCHANGED <<app, call, opened, runs, toService, link>>
        /\ sess' = None /\ kind' = kind /\ holder' = None /\ made' = made /\ startOf' = NoAnswer
    BY DEF TunEnds, links, bounds, TakeDown
  <1>2. ServiceTypeOK'
    <2>1. endedTo' \subseteq Conns \X (0..made)
      <3>1. sess \in 0..made /\ (holder # None => holder \in Conns)
        BY RemoteAssumption DEF RInv, ServiceTypeOK, WireTypeOK, Conns, None
      <3>2. endedTo \subseteq Conns \X (0..made)
        BY DEF RInv, ServiceTypeOK
      <3>3. endedTo' = endedTo \/ (holder # None /\ endedTo' = endedTo \cup {<<holder, sess>>})
        BY DEF TunEnds
      <3> QED
        BY <3>1, <3>2, <3>3
    <2> QED
      BY <1>1, <2>1 DEF RInv, ServiceTypeOK, WireTypeOK, None, Conns
  <1>3. CASE UNCHANGED toClient
    <2>1. toClient' \in [Conns -> Seq(Msgs)]
      BY <1>3 DEF RInv, WireTypeOK
    <2> QED
      BY <1>1, <1>2, <1>3, <2>1, ServeKeeps
  <1>4. CASE startOf # NoAnswer /\ holder # None /\ Answers(holder, Answer(startOf, FALSE, None))
    <2>1. holder \in Conns
      BY <1>4, RemoteAssumption DEF RInv, ServiceTypeOK, WireTypeOK, Conns, None
    <2> PICK c, s, ok, m : c = startOf /\ s = None /\ ok = FALSE /\ m = Answer(c, ok, s)
      OBVIOUS
    <2>2. c \in Calls /\ c.type = "start_tun" /\ c.run <= runs
      BY <1>4 DEF RInv, ServiceTypeOK, MsgInv
    <2>3. runs' = runs /\ s \in Nat /\ s <= made'
      BY <1>1 DEF RInv, ServiceTypeOK, None
    <2>4. m \in Msgs /\ (m.type = "reply" => m.call # RunStop) /\ MsgOK(m)'
      BY <2>2, <2>3, StartAnswer
    <2>5. Answers(holder, m)
      BY <1>4
    <2>6. /\ toClient' \in [Conns -> Seq(Msgs)]
          /\ \A j \in Conns : \A n \in In(toClient'[j]) : n \in In(toClient[j]) \/ n = m
      BY <2>1, <2>4, <2>5, AnswersIs
    <2> QED
      BY <1>1, <1>2, <2>4, <2>6, ServeKeeps
  <1> QED
    BY <1>3, <1>4 DEF TunEnds

LEMMA PumpKeeps ==
  ASSUME RInv, Pump
  PROVE  RInv'
  <1>0. PICK e \in endedTo : endedTo' = endedTo \ {e} /\ Answers(e[1], Ended(e[2]))
    BY DEF Pump
  <1>1. /\ UNCHANGED <<app, call, opened, runs, toService, link>>
        /\ sess' = sess /\ kind' = kind /\ holder' = holder /\ startOf' = startOf /\ made' = made
    BY DEF Pump, links, bounds
  <1>2. ServiceTypeOK'
    BY <1>0, <1>1 DEF RInv, ServiceTypeOK
  <1>a. PICK k, m : k = e[1] /\ m = Ended(e[2])
    OBVIOUS
  <1>3. e[1] \in Conns /\ e[2] \in Nat
    BY DEF RInv, ServiceTypeOK
  <1>4. m \in Msgs /\ m.type = "ended"
    BY <1>3, <1>a DEF Ended, Msgs
  <1>5. MsgOK(m)'
    BY <1>4 DEF MsgOK
  <1>6. k \in Conns /\ Answers(k, m)
    BY <1>0, <1>3, <1>a
  <1>7. /\ toClient' \in [Conns -> Seq(Msgs)]
        /\ \A j \in Conns : \A n \in In(toClient'[j]) : n \in In(toClient[j]) \/ n = m
    BY <1>4, <1>6, AnswersIs
  <1> QED
    BY <1>1, <1>2, <1>4, <1>5, <1>7, ServeKeeps

LEMMA GraceKeeps ==
  ASSUME RInv, Grace
  PROVE  RInv'
  <1>1. /\ UNCHANGED <<app, call, opened, runs, toService, link, toClient>>
        /\ sess' = None /\ kind' = kind /\ holder' = None /\ made' = made /\ startOf' = NoAnswer
        /\ endedTo' = endedTo
    BY DEF Grace, links, wire, bounds, TakeDown
  <1>2. ServiceTypeOK' /\ toClient' \in [Conns -> Seq(Msgs)]
    BY <1>1 DEF RInv, ServiceTypeOK, WireTypeOK, None, Conns
  <1> QED
    BY <1>1, <1>2, ServeKeeps

LEMMA DetachKeeps ==
  ASSUME RInv, NEW k \in Conns, Detach(k)
  PROVE  RInv'
  <1>1. /\ UNCHANGED <<app, call, opened, runs, link, toClient>>
        /\ sess' = sess /\ kind' = kind /\ startOf' = startOf /\ endedTo' = endedTo /\ made' = made
        /\ holder' \in {holder, None} /\ link[k] = "lost" /\ conn' = conn
    BY DEF Detach, bounds, app
  <1>2. ServiceTypeOK' /\ Succeeds
    BY <1>1 DEF RInv, ServiceTypeOK, WireTypeOK, Succeeds, ASplit, None, Conns
  <1>3. WireTypeOK' /\ \A j \in Conns : toService'[j] = IF j = k THEN <<>> ELSE toService[j]
    BY <1>1, InNone DEF Detach, RInv, WireTypeOK
  <1>4. \A j \in Conns : In(toService'[j]) \subseteq In(toService[j]) /\ (j > opened => toService'[j] = <<>>)
    BY <1>3, InNone DEF RInv, LinkInv
  <1>5. startOf' # NoAnswer => startOf'.run <= runs
    BY <1>1 DEF RInv, MsgInv
  <1>6. ASSUME Up(conn)', conn \in Conns
        PROVE  (TunFree(conn) => TunFree(conn)') /\ (Pending(conn) => TunFree(conn)' \/ Pending(conn)')
    <2>1. conn # k /\ conn # None /\ toService'[conn] = toService[conn]
      BY <1>1, <1>3, <1>6 DEF Up
    <2>2. runs' = runs /\ answer' = answer
      BY <1>1 DEF call
    <2>3. TunFree(conn) => TunFree(conn)'
      BY <1>1, <2>1 DEF TunFree
    <2>4. Pending(conn) => Pending(conn)'
      BY <1>1, <2>1, <2>2 DEF Pending, NoReply, RunStop, Answered
    <2> QED
      BY <2>3, <2>4
  <1>7. Up(conn)' => conn \in Conns
    BY <1>1, RemoteAssumption DEF Up, RInv, AppTypeOK, WireTypeOK, Conns, None
  <1>8. \A j \in Conns : \A m \in In(toClient'[j]) : m \in In(toClient[j])
    BY <1>1
  <1> QED
    BY <1>1, <1>2, <1>3, <1>4, <1>5, <1>6, <1>7, <1>8, WireKeeps

LEMMA CrashKeeps ==
  ASSUME RInv, Crash
  PROVE  RInv'
  <1>1. /\ UNCHANGED <<app, call, opened, runs>>
        /\ sess' = None /\ kind' = kind /\ startOf' = NoAnswer /\ endedTo' = {} /\ made' = made
        /\ holder' = None /\ conn' = conn
    BY DEF Crash, TakeDown, app
  <1>2. ServiceTypeOK' /\ Succeeds
    BY <1>1 DEF RInv, ServiceTypeOK, WireTypeOK, Succeeds, ASplit, None, Conns
  <1>3. /\ link' = [j \in Conns |-> IF link[j] = "up" THEN "lost" ELSE link[j]]
        /\ toService' = [j \in Conns |-> <<>>] /\ toClient' = [j \in Conns |-> <<>>]
    BY DEF Crash
  <1>4. WireTypeOK'
    BY <1>1, <1>3, InNone DEF RInv, WireTypeOK
  <1>5. \A j \in Conns : /\ link'[j] = link[j] \/ (link[j] = "up" /\ link'[j] = "lost")
                         /\ link'[j] # "up" /\ toService'[j] = <<>> /\ toClient'[j] = <<>>
    BY <1>3
  <1>6. \A j \in Conns : In(toService'[j]) = {} /\ In(toClient'[j]) = {}
    BY <1>5, InNone
  <1>7. ~Up(conn)'
    BY <1>1, <1>5, RemoteAssumption DEF Up, RInv, AppTypeOK, WireTypeOK, Conns, None
  <1> QED
    BY <1>1, <1>2, <1>4, <1>5, <1>6, <1>7, WireKeeps

\* An answer that is read: the stop of a TUN session has none while it is on its way.
LEMMA ReadLoopKeeps ==
  ASSUME RInv, NEW k \in Conns, ReadLoop(k)
  PROVE  RInv'
  <1>m. PICK m : m = Head(toClient[k])
    OBVIOUS
  <1>1. /\ UNCHANGED <<app, callOn, links, toService, service, bounds>>
        /\ toClient' = [toClient EXCEPT ![k] = Tail(@)] /\ toClient[k] # <<>>
        /\ answer' = answer \/ (answer' = m /\ m.type # "ended" /\ callOn = k /\ m.call = Call)
    BY <1>m DEF ReadLoop
  <1>2. m \in Msgs /\ m \in In(toClient[k]) /\ Tail(toClient[k]) \in Seq(Msgs)
        /\ In(Tail(toClient[k])) \subseteq In(toClient[k])
    BY <1>m, <1>1, WireIs, InSeq
  <1>3. answer' = m => (m \in Replies /\ m.type = "reply") \/ m.type = "ended"
    BY <1>2 DEF Msgs, Replies
  <1>4. /\ pc' = pc /\ mode' = mode /\ conn' = conn /\ token' = token /\ watch' = watch
        /\ asked' = asked /\ callOn' = callOn /\ runs' = runs /\ opened' = opened /\ link' = link
        /\ toService' = toService /\ sess' = sess /\ kind' = kind /\ holder' = holder
        /\ startOf' = startOf /\ endedTo' = endedTo /\ made' = made
    BY <1>1 DEF app, links, service, bounds
  <1>5. toClient \in [Conns -> Seq(Msgs)]
    BY DEF RInv, WireTypeOK
  <1>6. toClient' \in [Conns -> Seq(Msgs)] /\ \A j \in Conns : In(toClient'[j]) \subseteq In(toClient[j])
    BY <1>1, <1>2, <1>5
  <1>7. AppTypeOK'
    BY <1>1, <1>3, <1>4 DEF RInv, AppTypeOK
  <1>8. WireTypeOK' /\ ServiceTypeOK'
    BY <1>4, <1>6 DEF RInv, WireTypeOK, ServiceTypeOK
  <1>9. LinkInv' /\ WatchInv' /\ TokenInv'
    BY <1>4 DEF RInv, LinkInv, WatchInv, TokenInv, Up, ASplit
  <1>10. CASE answer' = answer
    <2>1. CallInv'
      BY <1>4, <1>10 DEF RInv, CallInv, Answered, Call, Request
    <2>2. MsgInv'
      BY <1>4, <1>6, <1>10 DEF RInv, MsgInv, MsgOK, CallOK, Unsent, RunStop, ASplit, Answered
    <2>3. TunInv'
      <3>1. (Up(conn)' <=> Up(conn)) /\ (Up(conn) => conn \in Conns)
        BY <1>4, RemoteAssumption DEF Up, RInv, AppTypeOK, WireTypeOK, Conns, None
      <3>2. TunFree(conn) => TunFree(conn)'
        BY <1>4 DEF TunFree
      <3>3. conn \in Conns /\ Pending(conn) => Pending(conn)'
        BY <1>4, <1>6, <1>10 DEF Pending, NoReply, RunStop, Answered
      <3> QED
        BY <1>4, <3>1, <3>2, <3>3 DEF RInv, TunInv
    <2> QED
      BY <1>7, <1>8, <1>9, <2>1, <2>2, <2>3 DEF RInv
  <1>11. CASE answer' = m /\ m.type # "ended" /\ callOn = k /\ m.call = Call
    <2>1. m \in Replies /\ m.type = "reply" /\ answer' = m
      BY <1>3, <1>11
    <2>2. pc \in {"call", "stop"} /\ (pc = "stop" => k = conn)
      BY <1>11, WireIs DEF RInv, CallInv
    <2>3. CallInv'
      BY <1>4, <1>11, <2>2 DEF RInv, CallInv, Call, Request
    <2>4. MsgOK(m)
      BY <1>2 DEF RInv, MsgInv
    <2>5. MsgInv'
      <3>1. /\ \A j \in Conns : \A c \in In(toService'[j]) : CallOK(c)'
            /\ \A j \in Conns : \A n \in In(toClient'[j]) : MsgOK(n)'
            /\ startOf' # NoAnswer => startOf'.run <= runs'
        BY <1>4, <1>6 DEF RInv, MsgInv, MsgOK, CallOK, Unsent, RunStop, ASplit
      <3>2. answer'.sess <= made' /\ (answer'.call.type = "enable_split" => ASplit(answer.sess)')
        BY <1>4, <2>1, <2>4 DEF MsgOK, ASplit
      <3> QED
        BY <3>1, <3>2 DEF MsgInv
    <2>6. TunInv'
      <3>1. TunFree(conn) => TunFree(conn)'
        BY <1>4 DEF TunFree
      <3>2. Up(conn)' <=> Up(conn)
        BY <1>4 DEF Up
      <3>3. ASSUME pc = "stop", mode = "tun", Up(conn) PROVE TunFree(conn)
        <4>1. Call = RunStop /\ k = conn
          BY <2>2, <3>3 DEF Call, Request, RunStop
        <4>2. ~Pending(conn)
          BY <1>2, <1>11, <2>1, <4>1 DEF Pending, NoReply
        <4> QED
          BY <3>3, <4>2 DEF RInv, TunInv
      <3> QED
        BY <1>4, <3>1, <3>2, <3>3 DEF RInv, TunInv
    <2> QED
      BY <1>7, <1>8, <1>9, <2>3, <2>5, <2>6 DEF RInv
  <1> QED
    BY <1>1, <1>10, <1>11

-----------------------------------------------------------------------------
(* The interface: the service stands still. *)
LEMMA AppKeeps ==
  ASSUME RInv, UNCHANGED <<opened, link, service, toClient, runs>>,
         AppTypeOK', WatchInv', CallInv', TokenInv', TunInv',
         conn' = conn \/ (conn' = None /\ ~Up(conn)),
         toService' \in [Conns -> Seq(Calls)],
         \A k \in Conns : k > opened => toService'[k] = <<>>,
         \A k \in Conns : \A c \in In(toService'[k]) : c \in In(toService[k]) \/ CallOK(c)',
         pc' \in {"menu", "stop"} \/ pc \notin {"menu", "stop"},
         Answered' => answer' = answer
  PROVE  RInv'
  <1>1. /\ sess' = sess /\ kind' = kind /\ holder' = holder /\ startOf' = startOf
        /\ endedTo' = endedTo /\ made' = made
    BY DEF service
  <1>2. WireTypeOK' /\ ServiceTypeOK'
    BY <1>1 DEF RInv, WireTypeOK, ServiceTypeOK
  <1>3. LinkInv'
    <2>1. \A k \in Conns : Up(k)' <=> Up(k)
      BY DEF Up
    <2> QED
      BY <2>1 DEF RInv, LinkInv
  <1>4. MsgInv'
    <2>1. \A c : CallOK(c) => CallOK(c)'
      BY DEF CallOK, Unsent, RunStop
    <2>2. \A m : MsgOK(m) => MsgOK(m)'
      BY <1>1, <2>1 DEF MsgOK, ASplit
    <2>3. (Answered => answer.sess <= made /\ (answer.call.type = "enable_split" => ASplit(answer.sess)))'
      BY <1>1 DEF RInv, MsgInv, ASplit, Answered
    <2> QED
      BY <1>1, <2>1, <2>2, <2>3 DEF RInv, MsgInv
  <1> QED
    BY <1>2, <1>3, <1>4 DEF RInv

\* A step that sends nothing and answers nothing.
LEMMA QuietKeeps ==
  ASSUME RInv, UNCHANGED <<runs, callOn, answer, link, opened, toService, toClient, service, mode>>,
         pc' = pc \/ (pc \in {"up", "leave"} /\ pc' \in {"leave", "join"}),
         conn' = conn \/ (conn' = None /\ ~Up(conn) /\ pc = "menu"),
         token' \in {token, None},
         watch' \in {"off", "wait", "dial"}, pc \in {"menu", "stop"} => watch' = "off",
         watch' = "dial" => /\ conn' = conn /\ ~Up(conn)
                            /\ asked' = token \/ (watch = "dial" /\ asked' = asked),
         asked' \in {token, asked}
  PROVE  RInv'
  <1>1. /\ sess' = sess /\ kind' = kind /\ holder' = holder /\ startOf' = startOf
        /\ endedTo' = endedTo /\ made' = made
    BY DEF service
  <1>2. AppTypeOK'
    BY <1>1 DEF RInv, AppTypeOK, ServiceTypeOK, WireTypeOK, Conns, None
  <1>3. Up(conn)' => Up(conn) /\ conn' = conn
    BY DEF Up, None
  <1>4. WatchInv'
    BY <1>3 DEF RInv, WatchInv
  <1>5. CallInv'
    BY DEF RInv, CallInv, Answered, Call, Request
  <1>6. TokenInv'
    BY <1>1 DEF RInv, TokenInv, ASplit, None
  <1>7. TunInv'
    BY <1>1, <1>3 DEF RInv, TunInv, TunFree, Pending, NoReply, RunStop, Answered
  <1>8. /\ toService' \in [Conns -> Seq(Calls)] /\ toService' = toService
        /\ \A k \in Conns : k > opened => toService'[k] = <<>>
    BY DEF RInv, WireTypeOK, LinkInv
  <1> QED
    BY <1>2, <1>4, <1>5, <1>6, <1>7, <1>8, AppKeeps

LEMMA QuietStepsKeep ==
  ASSUME RInv,
         \/ \E k \in Conns : ServiceEvents(k)
         \/ UserCancels \/ Leave \/ CancelSession \/ BeginAlone
         \/ WatchCanceled \/ WatchEnded \/ WatchLost \/ RedialFails
  PROVE  RInv'
  <1>0. token \in {token, None} /\ watch \in {"off", "wait", "dial"}
        /\ (pc \in {"menu", "stop"} => watch = "off") /\ (watch = "dial" => ~Up(conn))
    BY DEF RInv, WatchInv, AppTypeOK
  <1>1. ASSUME NEW k \in Conns, ServiceEvents(k) PROVE RInv'
    BY <1>0, <1>1, QuietKeeps DEF ServiceEvents, main, watcher, call, links, bounds
  <1>2. CASE UserCancels
    BY <1>0, <1>2, QuietKeeps DEF UserCancels, main, remote, watcher, call, wire, links, bounds
  <1>3. CASE Leave
    BY <1>0, <1>3, QuietKeeps DEF Leave, remote, watcher, call, wire, links, bounds
  <1>4. CASE CancelSession
    BY <1>0, <1>4, QuietKeeps DEF CancelSession, remote, watcher, call, wire, links, bounds
  <1>5. CASE BeginAlone
    BY <1>0, <1>5, QuietKeeps DEF BeginAlone, main, watcher, call, wire, links, bounds
  <1>6. CASE WatchCanceled
    BY <1>0, <1>6, QuietKeeps DEF WatchCanceled, WatchEnds, main, remote, call, wire, links, bounds
  <1>7. CASE WatchEnded
    BY <1>0, <1>7, QuietKeeps DEF WatchEnded, WatchEnds, main, call, wire, links, bounds
  <1>8. CASE WatchLost
    BY <1>0, <1>8, QuietKeeps DEF WatchLost, main, remote, call, wire, links, bounds
  <1>9. CASE RedialFails
    BY <1>0, <1>9, QuietKeeps DEF RedialFails, WatchEnds, NotBack, main, call, wire, links, bounds
  <1> QED
    BY <1>1, <1>2, <1>3, <1>4, <1>5, <1>6, <1>7, <1>8, <1>9

LEMMA SendCallIs ==
  ASSUME RInv, SendCall, Up(conn), NEW c, c = Call
  PROVE  /\ conn \in Conns /\ conn <= opened /\ conn # None
         /\ c \in Calls /\ c.run = runs /\ c.type = Request
         /\ toService' \in [Conns -> Seq(Calls)]
         /\ toService'[conn] = Append(toService[conn], c)
         /\ In(toService'[conn]) = In(toService[conn]) \cup {c}
         /\ \A k \in Conns : k # conn => toService'[k] = toService[k]
         /\ \A k \in Conns : k > opened => toService'[k] = <<>>
         /\ callOn' = conn /\ answer' = NoAnswer /\ toClient' = toClient
  <1>1. conn \in Conns /\ conn # None
    BY RemoteAssumption DEF Up, RInv, AppTypeOK, WireTypeOK, Conns, None
  <1>2. conn <= opened
    BY <1>1 DEF RInv, LinkInv, Up, WireTypeOK, Conns
  <1>3. c \in Calls /\ c.run = runs /\ c.type = Request
    BY DEF Call, Request, Calls, Requests, RInv, AppTypeOK
  <1>4. toService \in [Conns -> Seq(Calls)] /\ toService' = [toService EXCEPT ![conn] = Append(@, c)]
    BY DEF SendCall, RInv, WireTypeOK
  <1>5. Append(toService[conn], c) \in Seq(Calls) /\ In(Append(toService[conn], c)) = In(toService[conn]) \cup {c}
    BY <1>1, <1>3, <1>4, InSeq
  <1>6. /\ toService' \in [Conns -> Seq(Calls)]
        /\ toService'[conn] = Append(toService[conn], c)
        /\ \A k \in Conns : k # conn => toService'[k] = toService[k]
    BY <1>1, <1>4, <1>5
  <1>7. ASSUME NEW k \in Conns, k > opened PROVE toService'[k] = <<>>
    <2>1. k # conn /\ toService[k] = <<>>
      BY <1>1, <1>2, <1>7 DEF RInv, LinkInv, WireTypeOK, Conns
    <2> QED
      BY <1>6, <2>1
  <1> QED
    BY <1>1, <1>2, <1>3, <1>5, <1>6, <1>7 DEF SendCall

LEMMA ConnectKeeps ==
  ASSUME RInv, Connect
  PROVE  RInv'
  <1>1. /\ pc = "connect" /\ pc' \in {"call", "leave", "up"}
        /\ UNCHANGED <<mode, conn, token, watch, asked, opened, link, service, runs>>
    BY DEF Connect, remote, watcher, links, bounds
  <1>2. /\ sess' = sess /\ kind' = kind /\ holder' = holder /\ startOf' = startOf
        /\ endedTo' = endedTo /\ made' = made
    BY <1>1 DEF service
  <1>3. callOn = None /\ ~Answered
    BY <1>1 DEF RInv, CallInv
  <1>4. (Up(conn)' <=> Up(conn)) /\ WatchInv' /\ TokenInv'
    BY <1>1, <1>2 DEF Up, RInv, WatchInv, TokenInv, ASplit
  <1>5. CASE ~Up(conn)
    <2>1. UNCHANGED <<callOn, answer, toService, toClient>> /\ pc' \in {"leave", "up"}
      BY <1>5 DEF Connect, call, wire
    <2>2. AppTypeOK' /\ CallInv' /\ TunInv'
      BY <1>1, <1>2, <1>3, <1>4, <1>5, <2>1 DEF RInv, AppTypeOK, CallInv, TunInv, Answered
    <2> QED
      BY <1>1, <1>3, <1>4, <2>1, <2>2, AppKeeps DEF RInv, WireTypeOK, LinkInv
  <1>6. CASE Up(conn)
    <2>c. PICK c : c = Call
      OBVIOUS
    <2>0. SendCall /\ pc' = "call"
      BY <1>6 DEF Connect
    <2>1. /\ conn \in Conns /\ conn <= opened /\ conn # None
          /\ c \in Calls /\ c.run = runs /\ c.type = Request
          /\ toService' \in [Conns -> Seq(Calls)]
          /\ In(toService'[conn]) = In(toService[conn]) \cup {c}
          /\ \A k \in Conns : k # conn => toService'[k] = toService[k]
          /\ \A k \in Conns : k > opened => toService'[k] = <<>>
          /\ callOn' = conn /\ answer' = NoAnswer /\ toClient' = toClient
      BY <1>6, <2>c, <2>0, SendCallIs
    <2>2. AppTypeOK'
      BY <1>1, <1>2, <2>0, <2>1 DEF RInv, AppTypeOK, WireTypeOK, Conns
    <2>3. ~Answered' /\ CallInv'
      BY <2>0, <2>1 DEF CallInv, Answered, NoAnswer
    <2>4. c.type # "stop" /\ (mode = "split" => c.type = "enable_split")
      BY <1>1, <2>1 DEF Request, RInv, AppTypeOK
    <2>5. CallOK(c)'
      <3>1. c # RunStop'
        BY <2>4, RunStopIs DEF RunStop
      <3> QED
        BY <1>1, <2>1, <3>1 DEF CallOK, Unsent, RInv, AppTypeOK
    <2>6. TunInv'
      <3>1. ASSUME mode = "split" PROVE TunFree(conn)'
        <4>1. TunFree(conn)
          BY <1>6, <3>1 DEF RInv, TunInv
        <4> QED
          BY <1>1, <1>2, <2>1, <2>4, <3>1, <4>1 DEF TunFree
      <3> QED
        BY <1>1, <2>0, <3>1 DEF TunInv
    <2>7. \A k \in Conns : \A d \in In(toService'[k]) : d \in In(toService[k]) \/ CallOK(d)'
      BY <2>1, <2>5
    <2> QED
      BY <1>1, <1>4, <2>1, <2>2, <2>3, <2>6, <2>7, AppKeeps
  <1> QED
    BY <1>5, <1>6

\* A call that is over, one way or the other.
LEMMA OverKeeps ==
  ASSUME RInv, Over, UNCHANGED <<mode, conn, asked, opened, link, service, runs>>,
         pc \in {"call", "stop"}, pc' \in {"menu", "up", "leave"}, pc' = "menu" <=> pc = "stop",
         watch' \in {watch, "wait"}, pc' = "menu" => watch' = "off",
         token' \in 0..made, pc' = "menu" => token' = IF mode = "tun" THEN None ELSE token,
         mode = "split" => token' = token \/ ASplit(token'),
         watch' = "dial" => token' = token,
         pc' = "menu" => ~Pending(conn) \/ mode = "split" \/ ~Up(conn)
  PROVE  RInv'
  <1>1. /\ sess' = sess /\ kind' = kind /\ holder' = holder /\ startOf' = startOf
        /\ endedTo' = endedTo /\ made' = made
    BY DEF service
  <1>2. callOn' = None /\ answer' = NoAnswer /\ toService' = toService /\ toClient' = toClient
    BY DEF Over, wire
  <1>3. (Up(conn)' <=> Up(conn)) /\ WatchInv'
    BY DEF Up, RInv, WatchInv
  <1>4. AppTypeOK'
    BY <1>1, <1>2 DEF RInv, AppTypeOK, WireTypeOK, Conns, None
  <1>5. CallInv' /\ ~Answered'
    BY <1>2 DEF CallInv, Answered, NoAnswer
  <1>6. TokenInv'
    BY <1>1 DEF RInv, TokenInv, ASplit, None, AppTypeOK
  <1>7. TunInv'
    <2>1. TunFree(conn)' <=> TunFree(conn)
      BY <1>1, <1>2 DEF TunFree
    <2> QED
      BY <1>3, <2>1 DEF RInv, TunInv, AppTypeOK
  <1> QED
    BY <1>2, <1>3, <1>4, <1>5, <1>6, <1>7, AppKeeps DEF RInv, WireTypeOK, LinkInv

LEMMA StartDoneKeeps ==
  ASSUME RInv, StartDone
  PROVE  RInv'
  <1>1. /\ UNCHANGED <<mode, conn, token, watch, asked, opened, link, service, runs>>
        /\ pc = "call" /\ mode = "tun"
    BY DEF StartDone, remote, watcher, links, bounds
  <1>2. CASE pc' = "leave" /\ Over
    <2>1. token' \in 0..made
      BY <1>1 DEF RInv, AppTypeOK
    <2> QED
      BY <1>1, <1>2, <2>1, OverKeeps
  <1>3. CASE Answered /\ pc' = "got" /\ callOn' = None /\ UNCHANGED <<answer, wire>>
    <2>1. /\ sess' = sess /\ kind' = kind /\ holder' = holder /\ startOf' = startOf
          /\ endedTo' = endedTo /\ made' = made /\ answer' = answer /\ toService' = toService /\ toClient' = toClient
      BY <1>1, <1>3 DEF service, wire
    <2>2. AppTypeOK'
      BY <1>1, <1>3, <2>1 DEF RInv, AppTypeOK, WireTypeOK, Conns, None
    <2>3. WatchInv' /\ CallInv' /\ TokenInv' /\ TunInv'
      BY <1>1, <1>3, <2>1 DEF RInv, WatchInv, CallInv, TokenInv, TunInv, ASplit, Up, Answered
    <2>4. toService' \in [Conns -> Seq(Calls)] /\ \A k \in Conns : k > opened => toService'[k] = <<>>
      BY <2>1 DEF RInv, WireTypeOK, LinkInv
    <2> QED
      BY <1>1, <1>3, <2>1, <2>2, <2>3, <2>4, AppKeeps
  <1> QED
    BY <1>2, <1>3 DEF StartDone

LEMMA AnswerHas ==
  ASSUME RInv, Answered
  PROVE  /\ answer \in Replies /\ answer.sess \in 0..made
         /\ answer.call.type = "enable_split" => ASplit(answer.sess)
  <1>1. answer \in Replies
    BY DEF RInv, AppTypeOK, Answered, NoAnswer
  <1> QED
    BY <1>1 DEF RInv, MsgInv, Replies, ServiceTypeOK

LEMMA StoreTokenKeeps ==
  ASSUME RInv, StoreToken
  PROVE  RInv'
  <1>1. /\ UNCHANGED <<mode, conn, callOn, watch, asked, opened, link, service, runs, wire>>
        /\ pc = "got" /\ pc' \in {"up", "leave"} /\ token' = answer.sess /\ answer' = NoAnswer
    BY DEF StoreToken, watcher, links, bounds
  <1>2. /\ sess' = sess /\ kind' = kind /\ holder' = holder /\ startOf' = startOf
        /\ endedTo' = endedTo /\ made' = made /\ toService' = toService /\ toClient' = toClient
    BY <1>1 DEF service, wire
  <1>3. Answered /\ mode = "tun" /\ callOn = None
    BY <1>1 DEF RInv, CallInv
  <1>4. token' \in 0..made
    BY <1>1, <1>3, AnswerHas
  <1>5. AppTypeOK'
    BY <1>1, <1>2, <1>4 DEF RInv, AppTypeOK
  <1>6. WatchInv' /\ CallInv' /\ TokenInv' /\ TunInv' /\ ~Answered'
    BY <1>1, <1>2, <1>3 DEF RInv, WatchInv, CallInv, TokenInv, TunInv, Up, Answered, NoAnswer
  <1>7. toService' \in [Conns -> Seq(Calls)] /\ \A k \in Conns : k > opened => toService'[k] = <<>>
    BY <1>2 DEF RInv, WireTypeOK, LinkInv
  <1> QED
    BY <1>1, <1>2, <1>5, <1>6, <1>7, AppKeeps

LEMMA EnableKeeps ==
  ASSUME RInv, EnableDone \/ EnableTimesOut
  PROVE  RInv'
  <1>1. /\ UNCHANGED <<mode, conn, asked, opened, link, service, runs>> /\ Over
        /\ pc = "call" /\ mode = "split" /\ pc' \in {"up", "leave"} /\ watch' = "wait"
        /\ token' = token \/ (Answered /\ token' = answer.sess)
    BY DEF EnableDone, EnableTimesOut, remote, links, bounds
  <1>2. token' \in 0..made /\ (token' = token \/ ASplit(token'))
    <2>1. Answered => answer.call.type = "enable_split"
      BY <1>1 DEF RInv, CallInv, Call, Request
    <2>2. token \in 0..made
      BY DEF RInv, AppTypeOK
    <2>t. PICK t : t = token'
      OBVIOUS
    <2>3. CASE Answered /\ t = answer.sess
      BY <2>1, <2>3, <2>t, AnswerHas
    <2> QED
      BY <1>1, <2>2, <2>3, <2>t
  <1> QED
    BY <1>1, <1>2, OverKeeps

LEMMA StoppedKeeps ==
  ASSUME RInv, Stopped
  PROVE  RInv'
  <1>1. /\ UNCHANGED <<mode, conn, asked, watch, opened, link, service, runs>> /\ Over
        /\ pc = "stop" /\ pc' = "menu" /\ (Answered \/ Broken)
        /\ token' = IF mode = "tun" THEN None ELSE token
    BY DEF Stopped, ToMenu, watcher, links, bounds
  <1>2. mode \in {"tun", "split"} /\ token' \in 0..made /\ watch = "off"
    BY <1>1 DEF RInv, AppTypeOK, WatchInv, ServiceTypeOK, None
  <1>3. ~Pending(conn) \/ ~Up(conn)
    BY <1>1 DEF RInv, CallInv, Pending, Broken
  <1> QED
    BY <1>1, <1>2, <1>3, OverKeeps

\* The stop that is sent is the first of its run.
LEMMA TeardownKeeps ==
  ASSUME RInv, Teardown
  PROVE  RInv'
  <1>1. /\ UNCHANGED <<mode, conn, watch, asked, opened, link, service, runs>>
        /\ pc = "join" /\ watch = "off"
    BY DEF Teardown, watcher, links, bounds
  <1>2. /\ sess' = sess /\ kind' = kind /\ holder' = holder /\ startOf' = startOf
        /\ endedTo' = endedTo /\ made' = made
    BY <1>1 DEF service
  <1>3. callOn = None /\ ~Answered
    BY <1>1 DEF RInv, CallInv
  <1>4. (Up(conn)' <=> Up(conn)) /\ WatchInv'
    BY <1>1 DEF Up, WatchInv
  <1>5. CASE /\ ~(Up(conn) /\ (mode = "tun" \/ splitOn))
             /\ ToMenu /\ UNCHANGED <<call, wire>>
    <2>1. /\ UNCHANGED <<callOn, answer, toService, toClient>> /\ pc' = "menu"
          /\ token' = IF mode = "tun" THEN None ELSE token
      BY <1>5 DEF ToMenu, call, wire
    <2>2. AppTypeOK'
      BY <1>1, <1>2, <2>1 DEF RInv, AppTypeOK, ServiceTypeOK, None
    <2>3. CallInv' /\ TokenInv'
      BY <1>1, <1>2, <1>3, <2>1 DEF RInv, CallInv, TokenInv, Answered, ASplit, AppTypeOK, None
    <2>4. TunInv'
      <3>1. Up(conn) => mode = "split"
        BY <1>5 DEF RInv, AppTypeOK
      <3>2. TunFree(conn)' <=> TunFree(conn)
        BY <1>1, <1>2, <2>1 DEF TunFree
      <3> QED
        BY <1>1, <1>4, <2>1, <3>1, <3>2 DEF RInv, TunInv
    <2>5. toService' \in [Conns -> Seq(Calls)] /\ \A k \in Conns : k > opened => toService'[k] = <<>>
      BY <2>1 DEF RInv, WireTypeOK, LinkInv
    <2> QED
      BY <1>1, <1>3, <1>4, <2>1, <2>2, <2>3, <2>4, <2>5, AppKeeps
  <1>6. CASE Up(conn) /\ SendCall /\ pc' = "stop" /\ UNCHANGED token
    <2>c. PICK c : c = Call
      OBVIOUS
    <2>1. /\ conn \in Conns /\ conn <= opened /\ conn # None
          /\ c \in Calls /\ c.run = runs /\ c.type = Request
          /\ toService' \in [Conns -> Seq(Calls)]
          /\ toService'[conn] = Append(toService[conn], c)
          /\ In(toService'[conn]) = In(toService[conn]) \cup {c}
          /\ \A k \in Conns : k # conn => toService'[k] = toService[k]
          /\ \A k \in Conns : k > opened => toService'[k] = <<>>
          /\ callOn' = conn /\ answer' = NoAnswer /\ toClient' = toClient
      BY <1>6, <2>c, SendCallIs
    <2>2. AppTypeOK'
      BY <1>1, <1>2, <1>6, <2>1 DEF RInv, AppTypeOK, WireTypeOK, Conns
    <2>3. ~Answered' /\ CallInv' /\ TokenInv'
      BY <1>1, <1>2, <1>6, <2>1 DEF CallInv, Answered, NoAnswer, RInv, TokenInv, ASplit
    <2>4. CallOK(c)'
      BY <1>1, <1>6, <2>1 DEF CallOK, Unsent, RInv, AppTypeOK
    <2>5. \A k \in Conns : \A d \in In(toService'[k]) : d \in In(toService[k]) \/ CallOK(d)'
      BY <2>1, <2>4
    <2>6. ASSUME mode = "split" PROVE TunFree(conn)'
      <3>1. c.type # "start_tun"
        BY <1>1, <2>1, <2>6 DEF Request
      <3>2. TunFree(conn)
        BY <1>6, <2>6 DEF RInv, TunInv
      <3> QED
        BY <1>1, <1>2, <2>1, <2>6, <3>1, <3>2 DEF TunFree
    <2>7. ASSUME mode = "tun" PROVE Pending(conn)'
      <3>1. c = RunStop /\ RunStop' = RunStop
        BY <1>1, <2>c, <2>7 DEF Call, Request, RunStop
      <3>s. PICK s : s = toService[conn]
        OBVIOUS
      <3>2. s \in Seq(Calls) /\ \A d \in In(s) : d # RunStop
        BY <1>1, <2>1, <3>s DEF RInv, MsgInv, CallOK, Unsent, WireTypeOK
      <3>3. /\ Len(s) \in Nat /\ Len(Append(s, c)) = Len(s) + 1 /\ Append(s, c) # <<>>
            /\ \A i \in 1..Len(s) : Append(s, c)[i] = s[i]
            /\ Append(s, c)[Len(s) + 1] = c
        BY <2>1, <3>2
      <3>4. \A i \in 1..Len(s) : s[i] # RunStop
        BY <3>2 DEF In
      <3>5. \A i \in 1..Len(Append(s, c)) : Append(s, c)[i] = RunStop <=> i = Len(Append(s, c))
        BY <3>1, <3>3, <3>4
      <3>6. NoReply(conn)'
        BY <1>1, <2>1, <3>1 DEF NoReply, RInv, MsgInv, MsgOK, CallOK, Unsent
      <3> QED
        BY <1>1, <2>1, <2>3, <3>1, <3>s, <3>3, <3>5, <3>6 DEF Pending
    <2>8. TunInv'
      BY <1>1, <1>6, <2>6, <2>7 DEF TunInv
    <2> QED
      BY <1>1, <1>4, <1>6, <2>1, <2>2, <2>3, <2>5, <2>8, AppKeeps
  <1> QED
    BY <1>5, <1>6 DEF Teardown

-----------------------------------------------------------------------------
(* Dialling. *)
LEMMA HelloIs ==
  ASSUME RInv, ~Up(conn), NEW t, NEW kept \in BOOLEAN, Hello(t, kept),
         conn' \in 0..NewConn, toService' = toService, toClient' = toClient
  PROVE  /\ NewConn \in Conns /\ opened' = NewConn /\ NewConn # None /\ conn # NewConn
         /\ conn \in 0..NewConn /\ callOn \in 0..NewConn
         /\ \A k \in Conns : Up(k)' => kept /\ k = NewConn
         /\ \A k \in Conns : k > opened' => link'[k] = "new" /\ toService'[k] = <<>>
         /\ toService[NewConn] = <<>> /\ holder # NewConn
         /\ holder' = holder \/ (holder' = NewConn /\ t # None /\ t = sess)
         /\ sess' = sess /\ kind' = kind /\ startOf' = startOf /\ endedTo' = endedTo /\ made' = made
         /\ WireTypeOK' /\ ServiceTypeOK'
  <1>1. /\ opened \in Nat /\ opened > 0 /\ opened < MaxConns /\ opened' = opened + 1
        /\ conn \in 0..opened /\ callOn \in 0..opened /\ holder \in 0..opened
        /\ Conns = 1..MaxConns /\ MaxConns \in Nat /\ opened \in Conns
    BY RemoteAssumption DEF RInv, AppTypeOK, WireTypeOK, ServiceTypeOK, Hello, Conns, NewConn
  <1>n. PICK n : n = opened + 1
    OBVIOUS
  <1>2. /\ NewConn = n /\ n \in Conns /\ n # None /\ conn # n /\ holder # n /\ opened' = n
        /\ conn \in 0..n /\ callOn \in 0..n /\ n > opened /\ \A k \in Conns : k > n => k > opened
    BY <1>1, <1>n DEF NewConn, None
  <1>3. /\ link \in [Conns -> {"new", "up", "lost"}]
        /\ link' = [link EXCEPT ![n] = IF kept THEN "up" ELSE "lost"]
        /\ holder' = IF t # None /\ t = sess THEN n ELSE holder
        /\ sess' = sess /\ kind' = kind /\ startOf' = startOf /\ endedTo' = endedTo /\ made' = made
    BY <1>2 DEF Hello, Resumable, RInv, WireTypeOK
  <1>4. /\ link' \in [Conns -> {"new", "up", "lost"}]
        /\ link'[n] = IF kept THEN "up" ELSE "lost"
        /\ \A k \in Conns : k # n => link'[k] = link[k]
    BY <1>2, <1>3
  <1>5. \A k \in Conns : link[k] # "up"
    BY <1>1 DEF RInv, LinkInv, Up, Conns, None
  <1>6. \A k \in Conns : Up(k)' => kept /\ k = n
    BY <1>4, <1>5 DEF Up
  <1>7. \A k \in Conns : k > opened => link[k] = "new" /\ toService[k] = <<>>
    BY DEF RInv, LinkInv
  <1>8. \A k \in Conns : k > n => link'[k] = "new" /\ toService'[k] = <<>>
    <2> SUFFICES ASSUME NEW k \in Conns, k > n PROVE link'[k] = "new" /\ toService'[k] = <<>>
      OBVIOUS
    <2>1. k > opened /\ k # n
      BY <1>1, <1>2
    <2> QED
      BY <1>4, <1>7, <2>1
  <1>9. WireTypeOK'
    BY <1>2, <1>4 DEF RInv, WireTypeOK
  <1>10. ServiceTypeOK'
    BY <1>1, <1>2, <1>3 DEF RInv, ServiceTypeOK
  <1> QED
    BY <1>2, <1>3, <1>6, <1>7, <1>8, <1>9, <1>10

\* A run that goes on, or the next one: what is on its way is of an earlier one.
LEMMA RunMsgs ==
  ASSUME RInv, UNCHANGED <<toService, toClient, sess, kind, made, startOf, answer>>,
         pc' \notin {"menu", "stop"},
         (pc' = pc /\ runs' = runs) \/ runs' = runs + 1
  PROVE  MsgInv'
  <1>1. runs \in Nat
    BY DEF RInv, AppTypeOK
  <1>2. ASSUME NEW c \in Calls, CallOK(c) PROVE CallOK(c)'
    <2>1. c.run \in Nat /\ c.run <= runs
      BY <1>2 DEF Calls, CallOK
    <2>2. CASE pc' = pc /\ runs' = runs
      BY <1>2, <2>2 DEF CallOK, Unsent, RunStop
    <2>3. CASE runs' = runs + 1
      <3>1. c # RunStop'
        BY <1>1, <2>1, <2>3 DEF RunStop
      <3> QED
        BY <1>1, <2>1, <2>3, <3>1 DEF CallOK, Unsent
    <2> QED
      BY <2>2, <2>3
  <1>3. ASSUME NEW m \in Msgs, MsgOK(m) PROVE MsgOK(m)'
    <2>1. m.type = "reply" => m.call \in Calls
      BY DEF Msgs, Replies
    <2> QED
      BY <1>2, <1>3, <2>1 DEF MsgOK, ASplit
  <1>4. startOf' # NoAnswer => startOf'.run <= runs'
    BY <1>1 DEF RInv, MsgInv, ServiceTypeOK, Calls
  <1>5. \A k \in Conns : \A c \in In(toService'[k]) : CallOK(c)'
    BY <1>2, WireIs DEF RInv, MsgInv
  <1>6. \A k \in Conns : \A m \in In(toClient'[k]) : MsgOK(m)'
    BY <1>3, WireIs DEF RInv, MsgInv
  <1>7. (Answered => answer.sess <= made /\ (answer.call.type = "enable_split" => ASplit(answer.sess)))'
    BY DEF RInv, MsgInv, ASplit, Answered
  <1> QED
    BY <1>4, <1>5, <1>6, <1>7 DEF MsgInv

LEMMA RedialsKeep ==
  ASSUME RInv, Redial \/ RedialLate
  PROVE  RInv'
  <1>1. watch = "dial" /\ pc \notin {"menu", "stop"} /\ ~Up(conn)
    BY DEF Redial, RedialLate, RInv, WatchInv
  <1>2. /\ UNCHANGED <<pc, mode, asked, callOn, answer, toService, toClient, runs>>
        /\ token' \in {token, None}
    BY DEF Redial, RedialLate, NotBack, main, call, wire, bounds, app
  <1>3. opened \in Nat /\ conn \in 0..opened
    BY DEF RInv, WireTypeOK, AppTypeOK, Conns
  <1>k. PICK kept \in BOOLEAN : /\ Hello(asked, kept) /\ conn' = IF kept THEN NewConn ELSE conn
                                /\ kept => watch' \in {"wait", "off"}
                                /\ ~kept => watch' = watch /\ token' = token
    <2>1. CASE Redial
      BY <2>1 DEF Redial, NotBack, WatchEnds
    <2>2. CASE RedialLate
      BY <2>2 DEF RedialLate, app
    <2> QED
      BY <2>1, <2>2
  <1>4. conn' \in 0..NewConn
    BY <1>3, <1>k DEF NewConn
  <1>5. /\ NewConn \in Conns /\ opened' = NewConn /\ NewConn # None /\ conn # NewConn
        /\ conn \in 0..NewConn /\ callOn \in 0..NewConn
        /\ \A k \in Conns : Up(k)' => kept /\ k = NewConn
        /\ \A k \in Conns : k > opened' => link'[k] = "new" /\ toService'[k] = <<>>
        /\ toService[NewConn] = <<>> /\ holder # NewConn
        /\ holder' = holder \/ (holder' = NewConn /\ asked # None /\ asked = sess)
        /\ sess' = sess /\ kind' = kind /\ startOf' = startOf /\ endedTo' = endedTo /\ made' = made
        /\ WireTypeOK' /\ ServiceTypeOK'
    BY <1>1, <1>2, <1>4, <1>k, HelloIs
  <1>6. AppTypeOK'
    BY <1>2, <1>4, <1>5, <1>k DEF RInv, AppTypeOK, ServiceTypeOK, None
  <1>7. LinkInv'
    BY <1>5, <1>k DEF LinkInv
  <1>8. WatchInv'
    <2>1. ~kept => ~Up(conn)'
      BY <1>3, <1>5, <1>6, <1>k, RemoteAssumption DEF Up, AppTypeOK, WireTypeOK, Conns, None
    <2> QED
      BY <1>1, <1>2, <1>k, <2>1 DEF WatchInv
  <1>9. CallInv'
    BY <1>1, <1>2 DEF RInv, CallInv, Answered, Call, Request
  <1>10. TokenInv'
    BY <1>1, <1>2, <1>5, <1>k DEF RInv, TokenInv, ASplit, None
  <1>11. MsgInv'
    BY <1>1, <1>2, <1>5, RunMsgs
  <1>12. TunInv'
    <2>1. ASSUME Up(conn)', mode = "split" PROVE TunFree(conn)'
      <3>1. kept
        BY <1>4, <1>5, <2>1, RemoteAssumption DEF Up, WireTypeOK, Conns, None
      <3>2. conn' = NewConn /\ toService'[conn'] = <<>>
        BY <1>2, <1>5, <1>k, <3>1
      <3>3. asked # None /\ asked = sess => kind = "split"
        BY <1>1, <2>1 DEF RInv, TokenInv, ASplit
      <3> QED
        BY <1>5, <3>2, <3>3, InNone DEF TunFree
    <2> QED
      BY <1>1, <1>2, <2>1 DEF TunInv
  <1> QED
    BY <1>5, <1>6, <1>7, <1>8, <1>9, <1>10, <1>11, <1>12 DEF RInv

LEMMA BeginKeeps ==
  ASSUME RInv, NEW m \in {"tun", "split"}, Begin(m)
  PROVE  RInv'
  <1>1. /\ pc = "menu" /\ pc' = "connect" /\ mode' = m /\ runs' = runs + 1
        /\ watch' \in {"wait", "off"} /\ conn # None
        /\ UNCHANGED <<token, asked, callOn, answer, toService, toClient>>
    BY DEF Begin, Opens, call, wire
  <1>2. callOn = None /\ ~Answered /\ ~Answered'
    BY <1>1 DEF RInv, CallInv, Answered
  <1>3. CallInv' /\ WatchInv'
    BY <1>1, <1>2 DEF CallInv, WatchInv
  <1>4. CASE Up(conn)
    <2>1. UNCHANGED <<conn, links, service>>
      BY <1>4 DEF Begin
    <2>2. /\ sess' = sess /\ kind' = kind /\ holder' = holder /\ startOf' = startOf
          /\ endedTo' = endedTo /\ made' = made /\ link' = link /\ opened' = opened /\ conn' = conn
      BY <2>1 DEF links, service
    <2>3. AppTypeOK'
      BY <1>1, <2>2 DEF RInv, AppTypeOK
    <2>4. WireTypeOK' /\ ServiceTypeOK' /\ LinkInv'
      BY <1>1, <2>2 DEF RInv, WireTypeOK, ServiceTypeOK, LinkInv, Up
    <2>5. TokenInv'
      BY <1>1, <2>2 DEF RInv, TokenInv, ASplit
    <2>6. MsgInv'
      BY <1>1, <2>2, RunMsgs
    <2>7. TunInv'
      <3>1. TunFree(conn) /\ (TunFree(conn)' <=> TunFree(conn))
        BY <1>1, <1>4, <2>2 DEF RInv, TunInv, TunFree
      <3> QED
        BY <1>1, <3>1 DEF TunInv
    <2> QED
      BY <1>3, <2>3, <2>4, <2>5, <2>6, <2>7 DEF RInv
  <1>5. CASE ~Up(conn)
    <2>1. Hello(None, TRUE) /\ conn' = NewConn
      BY <1>5 DEF Begin
    <2>2. conn' \in 0..NewConn
      BY <2>1 DEF NewConn, RInv, WireTypeOK, Conns
    <2>3. /\ NewConn \in Conns /\ opened' = NewConn /\ NewConn # None
          /\ callOn \in 0..NewConn
          /\ \A k \in Conns : Up(k)' => k = NewConn
          /\ \A k \in Conns : k > opened' => link'[k] = "new" /\ toService'[k] = <<>>
          /\ toService[NewConn] = <<>> /\ holder # NewConn /\ holder' = holder
          /\ sess' = sess /\ kind' = kind /\ startOf' = startOf /\ endedTo' = endedTo /\ made' = made
          /\ WireTypeOK' /\ ServiceTypeOK'
      BY <1>1, <1>5, <2>1, <2>2, HelloIs
    <2>4. AppTypeOK'
      BY <1>1, <2>2, <2>3 DEF RInv, AppTypeOK
    <2>5. LinkInv'
      BY <2>1, <2>3 DEF LinkInv
    <2>6. TokenInv'
      BY <1>1, <2>3 DEF RInv, TokenInv, ASplit
    <2>7. MsgInv'
      BY <1>1, <2>3, RunMsgs
    <2>8. TunInv'
      <3>1. TunFree(conn)'
        BY <1>1, <2>1, <2>3, InNone DEF TunFree
      <3> QED
        BY <1>1, <3>1 DEF TunInv
    <2> QED
      BY <1>3, <2>3, <2>4, <2>5, <2>6, <2>7, <2>8 DEF RInv
  <1> QED
    BY <1>4, <1>5

-----------------------------------------------------------------------------
LEMMA RemoteNext == RInv /\ [Next \/ EnableTimesOut]_vars => RInv'
  <1> SUFFICES ASSUME RInv, [Next \/ EnableTimesOut]_vars PROVE RInv'
    OBVIOUS
  <1>1. ASSUME NEW k \in Conns, ConnNext(k) PROVE RInv'
    BY <1>1, ReadLoopKeeps, QuietStepsKeep, HandleKeeps, DetachKeeps DEF ConnNext
  <1>2. CASE MainNext
    BY <1>2, BeginKeeps, QuietStepsKeep, ConnectKeeps, StartDoneKeeps, StoreTokenKeeps, EnableKeeps,
       TeardownKeeps, StoppedKeeps DEF MainNext
  <1>3. CASE WatchNext
    BY <1>3, QuietStepsKeep, RedialsKeep DEF WatchNext
  <1>4. CASE ServiceNext
    BY <1>4, TunReadyKeeps, TunEndsKeeps, PumpKeeps, GraceKeeps DEF ServiceNext
  <1>5. CASE Faults
    BY <1>5, CrashKeeps, LoseKeeps DEF Faults
  <1>6. CASE EnableTimesOut
    BY <1>6, EnableKeeps
  <1>7. CASE UNCHANGED vars
    <2>1. UNCHANGED <<runs, callOn, answer, link, opened, toService, toClient, service, mode,
                      pc, conn, token, watch, asked>>
      BY <1>7 DEF vars, app, call, wire, links, bounds
    <2> QED
      BY <2>1, QuietKeeps DEF RInv, AppTypeOK, WatchInv
  <1> QED
    BY <1>1, <1>2, <1>3, <1>4, <1>5, <1>6, <1>7 DEF Next

\* All of the above holds in every state: links, calls, tokens, what is on its way.
THEOREM RemoteInvariance == SlowSpec => []RInv
  <1> QED
    BY RemoteInit, RemoteNext, PTL DEF SlowSpec

\* The service that is in time is one that may be slow.
LEMMA InTimeIsSlow == Spec => SlowSpec
  <1>1. [Next]_vars => [Next \/ EnableTimesOut]_vars
    OBVIOUS
  <1> QED
    BY <1>1, PTL DEF Spec, SlowSpec

\* One connection works at a time: one that is replaced is gone, and one dialled
\* too late is closed.
THEOREM OneWorks == (SlowSpec => []OneConnection) /\ (Spec => []OneConnection)
  <1>1. RInv => OneConnection
    <2> SUFFICES ASSUME RInv PROVE OneConnection
      OBVIOUS
    <2> DEFINE works == {k \in Conns : Up(k)}
    <2>1. works \subseteq {conn}
      BY DEF RInv, LinkInv
    <2>2. IsFiniteSet({conn}) /\ Cardinality({conn}) = 1
      BY FS_Singleton
    <2>3. Cardinality(works) <= Cardinality({conn})
      BY <2>1, <2>2, FS_Subset
    <2> QED
      BY <2>2, <2>3 DEF OneConnection
  <1> QED
    BY <1>1, RemoteInvariance, InTimeIsSlow, PTL

\* At the menu no TUN session is held over a connection that works, whatever was
\* cancelled, refused, lost or dialled again on the way there.
THEOREM MenuIsFreeOfTuns == (SlowSpec => []MenuHoldsNoTun) /\ (Spec => []MenuHoldsNoTun)
  <1>1. RInv => MenuHoldsNoTun
    <2> SUFFICES ASSUME RInv, pc = "menu", Held PROVE kind # "tun"
      BY DEF MenuHoldsNoTun
    <2>1. holder \in Conns /\ Up(holder)
      BY RemoteAssumption DEF Held, Up, RInv, ServiceTypeOK, WireTypeOK, Conns, None
    <2>2. holder = conn
      BY <2>1 DEF RInv, LinkInv
    <2>3. TunFree(conn)
      BY <2>1, <2>2 DEF RInv, TunInv
    <2> QED
      BY <2>2, <2>3 DEF TunFree, Held
  <1> QED
    BY <1>1, RemoteInvariance, InTimeIsSlow, PTL

\* Nothing listens at the menu for what the service has to tell of a session.
MenuIsQuiet == pc = "menu" => ~listening

\* The types, and that the menu has no watch, no call and no listener left over.
THEOREM RemoteTypes == SlowSpec => []TypeOK
  <1>1. Init => MenuIsQuiet
    BY DEF Init, MenuIsQuiet
  <1>2. MenuIsQuiet /\ [Next \/ EnableTimesOut]_vars => MenuIsQuiet'
    <2> SUFFICES ASSUME MenuIsQuiet, [Next \/ EnableTimesOut]_vars PROVE MenuIsQuiet'
      OBVIOUS
    <2>1. CASE UNCHANGED <<pc, listening>>
      BY <2>1 DEF MenuIsQuiet
    <2>2. CASE pc' # "menu" \/ ~listening'
      BY <2>2 DEF MenuIsQuiet
    <2>3. ASSUME NEW k \in Conns, ConnNext(k) PROVE UNCHANGED <<pc, listening>>
      BY <2>3 DEF ConnNext, ReadLoop, ServiceEvents, Handle, Detach, app, main
    <2>4. ASSUME MainNext \/ EnableTimesOut PROVE UNCHANGED <<pc, listening>> \/ pc' # "menu" \/ ~listening'
      BY <2>4 DEF MainNext, EnableTimesOut, Begin, Opens, BeginAlone, Connect, StartDone, StoreToken,
           EnableDone, UserCancels, Leave, CancelSession, Teardown, Stopped, ToMenu, main, remote
    <2>5. ASSUME WatchNext PROVE UNCHANGED <<pc, listening>>
      BY <2>5 DEF WatchNext, WatchCanceled, WatchEnded, WatchLost, Redial, RedialLate, RedialFails,
           main, remote, app
    <2>6. ASSUME ServiceNext \/ Faults PROVE UNCHANGED <<pc, listening>>
      BY <2>6 DEF ServiceNext, TunReady, TunEnds, Pump, Grace, Faults, Crash, Lose, app
    <2>7. CASE UNCHANGED vars
      BY <2>7 DEF vars, app, MenuIsQuiet
    <2> QED
      BY <2>1, <2>2, <2>3, <2>4, <2>5, <2>6, <2>7 DEF Next
  <1>3. RInv /\ MenuIsQuiet => TypeOK
    BY DEF RInv, AppTypeOK, ServiceTypeOK, WatchInv, CallInv, MenuIsQuiet, TypeOK
  <1> QED
    BY <1>1, <1>2, <1>3, RemoteInvariance, PTL DEF SlowSpec
=============================================================================
