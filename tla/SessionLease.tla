---------------------------- MODULE SessionLease ----------------------------
(***************************************************************************)
(* What the service promises about the machine: it is lent to one session  *)
(* at a time, that session belongs to one user, stays in the hands of that *)
(* user's connections, is not handed on once its end has begun, and does   *)
(* not go before its changes have been taken down.  Some may not come      *)
(* down: they are left, by the session that had the machine and no other.  *)
(* Service implements it.                                                  *)
(***************************************************************************)
CONSTANTS Conns, Owner, Sessions, NoConn, NoSession, NoUser

VARIABLES
  lease,    \* the session that has the machine
  user,     \* whose it is
  conn,     \* the connection it is held by
  ending,   \* its end has begun
  used,     \* the sessions there have been
  touched,  \* the sessions whose changes are in force
  left      \* the sessions that could not take all of theirs off

lvars == <<lease, user, conn, ending, used, touched, left>>

Init ==
  /\ lease = NoSession
  /\ user = NoUser
  /\ conn = NoConn
  /\ ending = FALSE
  /\ used = {}
  /\ touched = {}
  /\ left = {}

Grant(s, c) ==
  /\ lease = NoSession
  /\ s \notin used
  /\ lease' = s
  /\ user' = Owner[c]
  /\ conn' = c
  /\ used' = used \cup {s}
  /\ UNCHANGED <<ending, touched, left>>

\* The machine is changed for the session, or changed back, as far as it can be;
\* that may take off what earlier ones left.
Touch ==
  /\ lease # NoSession
  /\ touched' \in {{}, {lease}}
  /\ left' \subseteq left \cup {lease}
  /\ UNCHANGED <<lease, user, conn, ending, used>>

\* The connection is lost.
Lose ==
  /\ conn # NoConn
  /\ conn' = NoConn
  /\ UNCHANGED <<lease, user, ending, used, touched, left>>

\* Another connection of the same user takes the session.
Take(c) ==
  /\ lease # NoSession
  /\ ~ending
  /\ Owner[c] = user
  /\ conn' = c
  /\ UNCHANGED <<lease, user, ending, used, touched, left>>

Revoke ==
  /\ lease # NoSession
  /\ ~ending
  /\ ending' = TRUE
  /\ UNCHANGED <<lease, user, conn, used, touched, left>>

\* The machine is free, the session's changes no longer in force.
Return ==
  /\ lease # NoSession
  /\ lease' = NoSession
  /\ user' = NoUser
  /\ conn' = NoConn
  /\ ending' = FALSE
  /\ touched' = {}
  /\ left' \subseteq left \cup {lease}
  /\ UNCHANGED used

Next ==
  \/ \E s \in Sessions, c \in Conns : Grant(s, c)
  \/ Touch \/ Lose \/ Revoke \/ Return
  \/ \E c \in Conns : Take(c)

Spec == Init /\ [][Next]_lvars

=============================================================================
