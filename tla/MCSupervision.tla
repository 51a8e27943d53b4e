--------------------------- MODULE MCSupervision ---------------------------
(***************************************************************************)
(* An upgrade of the application, a first start with crashes, a daemon     *)
(* that is slow to end, the status tab failing along with the service, a   *)
(* boot script beside the service, and daemons killed by SIGKILL.          *)
(***************************************************************************)
EXTENDS Supervision

In(first, f, launchers, n, saves) ==
  [first |-> first, faults |-> f, launchers |-> launchers, MaxFaults |-> n, MaxSaves |-> saves]
Upgrade == In("old", {"crash"}, {}, 2, 2)
Crashes == In(Null, {"crash"}, {}, 3, 1)
Slow == In("old", {"slow"}, {}, 1, 1)
Tab == In("new", {"tab"}, {}, 1, 2)
Boot == In(Null, {}, {"boot"}, 0, 0)
Killed == In(Null, {"kill", "crash"}, {}, 2, 2)
All == {Upgrade, Crashes, Slow, Tab, Boot, Killed}
=============================================================================
