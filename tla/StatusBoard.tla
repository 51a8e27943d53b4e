----------------------------- MODULE StatusBoard -----------------------------
(***************************************************************************)
(* What the shared memory of afrd promises its clients: a board on which   *)
(* daemons post statuses, an edition of it for every file that held the    *)
(* page, and clients who look at it now and then.  A client sees whole     *)
(* statuses that were posted, and never one older than it has seen.        *)
(***************************************************************************)
EXTENDS Naturals, Sequences

CONSTANTS Client, Edition, Status, NoView

VARIABLES
  board,  \* what was posted, for each edition
  seen,   \* the client's place: edition and number of the status it saw last
  view    \* what the client shows

vars == <<board, seen, view>>

\* Editions are numbered in the order in which the files were created.
NotAfter(p, q) == p[1] < q[1] \/ (p[1] = q[1] /\ p[2] <= q[2])

Post(e, s) ==
  /\ board' = [board EXCEPT ![e] = Append(@, s)]
  /\ UNCHANGED <<seen, view>>

Look(c, e, n) ==
  /\ NotAfter(seen[c], <<e, n>>)
  /\ seen' = [seen EXCEPT ![c] = <<e, n>>]
  /\ view' = [view EXCEPT ![c] = board[e][n]]
  /\ UNCHANGED board

\* The client's process ended and began anew.
Forget(c) ==
  /\ seen' = [seen EXCEPT ![c] = <<0, 0>>]
  /\ view' = [view EXCEPT ![c] = NoView]
  /\ UNCHANGED board

Init ==
  /\ board = [e \in Edition |-> <<>>]
  /\ seen = [c \in Client |-> <<0, 0>>]
  /\ view = [c \in Client |-> NoView]

Next ==
  \/ \E e \in Edition, s \in Status : Post(e, s)
  \/ \E c \in Client, e \in Edition : \E n \in DOMAIN board[e] : Look(c, e, n)
  \/ \E c \in Client : Forget(c)

Spec == Init /\ [][Next]_vars
=============================================================================
