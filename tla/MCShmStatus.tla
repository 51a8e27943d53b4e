---------------------------- MODULE MCShmStatus ----------------------------
(***************************************************************************)
(* The status page for TLC: one word of data beside the size, two statuses *)
(* and every mixture of them with each other, with the zeroes and with     *)
(* changed checksums, two daemons one after another or at the same time.   *)
(***************************************************************************)
EXTENDS ShmStatus

CONSTANTS one, two, d1, d2

MCField == {"size", "mode"}
MCStatus == {[w \in MCField |-> IF w = "size" THEN Full ELSE m] : m \in {one, two}}
MCOrder == <<"crc", "size", "mode", "copy">>
\* The end of a block may be stored ahead of the rest, as memcpy does on ARM.
MCBefore == {<<"crc", "size">>, <<"crc", "mode">>, <<"size", "mode">>}
MCInode == 1..2
In(f, daemons, posts, n) ==
  [faults |-> f, daemons |-> daemons, MaxPosts |-> posts, MaxFiles |-> n]
Orderly == In({"kill"}, {d1}, 2, 2)
Emergency == In({"emerg"}, {d1}, 2, 2)
Overlap == In({"overlap"}, {d1, d2}, 1, 1)
AllEnds == {Orderly, Emergency, Overlap}
=============================================================================
