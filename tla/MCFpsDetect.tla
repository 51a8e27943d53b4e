---------------------------- MODULE MCFpsDetect -----------------------------
(***************************************************************************)
(* Instance of FpsDetect: a film whose rate the driver reports now as      *)
(* 23.976 and now as 24, and a 60 fps movie.                               *)
(***************************************************************************)
EXTENDS FpsDetect

CONSTANTS r23, r24, r60

MCClose == {<<r, r>> : r \in Rate} \cup {<<r23, r24>>, <<r24, r23>>}
=============================================================================
