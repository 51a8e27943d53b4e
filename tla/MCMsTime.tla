------------------------------ MODULE MCMsTime ------------------------------
(***************************************************************************)
(* Instance of MsTime: a clock of 16 milliseconds, a one-shot timer that   *)
(* the loop adjusts and polls (g_ost_switch), a periodic one that it polls *)
(* but does not adjust (g_ost_hdcp_check), and a stamp that it does        *)
(* neither with (g_ost_off).                                               *)
(***************************************************************************)
EXTENDS MsTime

\* -3 is noticed after a short sleep and missed after a long one, 6 is always
\* noticed.
BackAndForth == {-3, 6}
=============================================================================
