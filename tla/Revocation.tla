----------------------------- MODULE Revocation -----------------------------
(***************************************************************************)
(* What the status list promises whoever relies on credentials             *)
(* (handleAdminRevoke, handleStatusList, IsRevoked), without the stores,   *)
(* mutexes and caches it is made of: a credential that an operator asked   *)
(* to revoke may get onto the list, stays on it, and nobody reads a list   *)
(* older than Window.                                                      *)
(***************************************************************************)
EXTENDS Integers

CONSTANTS Credentials, Readers, Window, Never

VARIABLES
  clock,
  asked,    \* credentials an operator asked to revoke
  since,    \* when a credential got onto the list
  told,     \* credentials the operator was told are revoked
  answer    \* per reader: what it was answered last

Init ==
  /\ clock = 0 /\ asked = {} /\ since = [c \in Credentials |-> Never] /\ told = {}
  /\ answer = [r \in Readers |-> Never]

Ask(c) ==
  /\ asked' = asked \cup {c}
  /\ UNCHANGED <<clock, since, told, answer>>

(* The operator may be told at once, later or never.                       *)
List(c) ==
  /\ c \in asked /\ since[c] = Never
  /\ since' = [since EXCEPT ![c] = clock]
  /\ told' \in {told, told \cup {c}}
  /\ UNCHANGED <<clock, asked, answer>>
Tell(c) ==
  /\ since[c] # Never
  /\ told' = told \cup {c}
  /\ UNCHANGED <<clock, asked, since, answer>>

(* Within the window after a revocation both answers are right.            *)
Answer(r, c) ==
  \E revoked \in BOOLEAN :
    /\ IF revoked THEN since[c] # Never ELSE since[c] = Never \/ clock <= since[c] + Window
    /\ answer' = [answer EXCEPT ![r] = [of |-> c, revoked |-> revoked]]
    /\ UNCHANGED <<clock, asked, since, told>>
Forget(r) ==
  /\ answer' = [answer EXCEPT ![r] = Never]
  /\ UNCHANGED <<clock, asked, since, told>>

Tick == clock' = clock + 1 /\ UNCHANGED <<asked, since, told, answer>>

Next ==
  \/ \E c \in Credentials : Ask(c) \/ List(c) \/ Tell(c)
  \/ \E r \in Readers : Forget(r) \/ \E c \in Credentials : Answer(r, c)
  \/ Tick

Spec == Init /\ [][Next]_<<clock, asked, since, told, answer>>
=============================================================================
