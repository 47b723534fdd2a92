------------------------------ MODULE IssueOnce ------------------------------
(***************************************************************************)
(* What a SessionStore promises its issue handler (session.go, MarkIssued):*)
(* of all the credentials signed for a session one is chosen, for good,    *)
(* and only that one is ever handed out.                                   *)
(***************************************************************************)
CONSTANTS Credentials, NoCred

VARIABLES
  winner,     \* the credential the session issued
  delivered   \* the credentials handed to a client

Init == winner = NoCred /\ delivered = {}

Choose(c) ==
  /\ winner = NoCred
  /\ winner' = c
  /\ UNCHANGED delivered

Deliver(c) ==
  /\ winner = c
  /\ delivered' = delivered \cup {c}
  /\ UNCHANGED winner

Next == \E c \in Credentials : Choose(c) \/ Deliver(c)

Spec == Init /\ [][Next]_<<winner, delivered>>
=============================================================================
