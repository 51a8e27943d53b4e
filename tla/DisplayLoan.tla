----------------------------- MODULE DisplayLoan -----------------------------
(***************************************************************************)
(* What afrd promises the owner of the display: it borrows the display in  *)
(* the mode it finds, may darken it before the first mode of its own, and  *)
(* gives it back as it was, before it takes up another configuration and   *)
(* before it ends.                                                         *)
(***************************************************************************)
EXTENDS Naturals

CONSTANTS
  Look, NoLook,  \* what a mode is on the screen: its format and actual rate
  Options        \* [enable, delay_off]: whether to borrow, whether to give back

VARIABLES
  shown,    \* what is on the screen, or what is behind a dark one
  dark,
  users,    \* what to give back, NoLook while the display is its owner's
  options,
  link,     \* the display is connected
  meddled,  \* the owner changes the mode meanwhile
  alive

vars == <<shown, dark, users, options, link, meddled, alive>>

Borrowed == users # NoLook

Take(look) ==
  /\ alive /\ options.enable
  /\ users' = IF Borrowed THEN users ELSE shown
  /\ shown' = look
  /\ dark' = FALSE
  /\ UNCHANGED <<options, link, meddled, alive>>

Darken ==
  /\ alive /\ options.enable
  /\ ~Borrowed /\ ~dark
  /\ users' = shown
  /\ dark' = TRUE
  /\ UNCHANGED <<shown, options, link, meddled, alive>>

Returned ==
  /\ shown' = IF Borrowed THEN users ELSE shown
  /\ dark' = FALSE
  /\ users' = NoLook

GiveBack ==
  /\ alive
  /\ Returned
  /\ UNCHANGED <<options, link, meddled, alive>>

\* switch.delay.off=0: the mode stays, but a black screen does not.
Keep ==
  /\ alive /\ ~options.delay_off
  /\ ~dark
  /\ users' = NoLook
  /\ UNCHANGED <<shown, dark, options, link, meddled, alive>>

Plug ==
  /\ link' = ~link
  /\ UNCHANGED <<shown, dark, users, options, meddled, alive>>

\* What was borrowed is no longer there.
Lose ==
  /\ alive /\ ~link
  /\ users' = NoLook
  /\ UNCHANGED <<shown, dark, options, link, meddled, alive>>

Configure(new) ==
  /\ alive
  /\ ~Borrowed /\ ~dark
  /\ options' = new
  /\ UNCHANGED <<shown, dark, users, link, meddled, alive>>

\* Nothing borrowed is left behind, whatever ends afrd.
End ==
  /\ alive
  /\ alive' = FALSE
  /\ \/ Returned
     \/ ~Borrowed /\ UNCHANGED <<shown, dark, users>>
  /\ UNCHANGED <<options, link, meddled>>

\* Then nothing is promised.
Meddled == meddled /\ UNCHANGED meddled

Init ==
  /\ shown \in Look /\ dark = FALSE /\ users = NoLook
  /\ options \in Options /\ link = TRUE /\ meddled \in BOOLEAN
  /\ alive = TRUE

Next ==
  \/ \E look \in Look : Take(look)
  \/ Darken \/ GiveBack \/ Keep \/ Plug \/ Lose
  \/ \E new \in Options : Configure(new)
  \/ End \/ Meddled

Spec == Init /\ [][Next]_vars
=============================================================================
