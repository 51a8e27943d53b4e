---------------------------- MODULE MCColorspace ----------------------------
(***************************************************************************)
(* Three color spaces, depths and ranges of two names each; a film's mode  *)
(* and a video's mode with filters, and the user's mode without one.       *)
(***************************************************************************)
EXTENDS Colorspace

CONSTANTS rgb, y444, y420, bit8, bit10, limit, full, user_mode, film, video

MCValue == [cs |-> {rgb, y444, y420}, cd |-> {bit8, bit10}, cr |-> {limit, full}]
T(cs, cd, cr) == [cs |-> cs, cd |-> cd, cr |-> cr]
MCInitial == T(y444, bit8, full)
Only(cs) == T(cs, Reserved, Reserved)

\* cs.select as shipped, with a filter for some modes and a fallback for others.
Select == <<[rex |-> {film, video}, cs |-> Only(y420)],
            [rex |-> {film}, cs |-> T(rgb, bit10, Reserved)]>>
Config(path, select, off) == [path |-> path, cs_select |-> select, delay_off |-> off]
Configs == {Config(TRUE, Select, TRUE), Config(TRUE, <<>>, TRUE), Config(FALSE, <<>>, TRUE)}
\* With switch.delay.off = 0 movies leave their mode.
Stay == {Config(TRUE, Select, FALSE), Config(TRUE, <<>>, FALSE)}
Attrs == {T(y444, bit10, limit), T(rgb, bit8, Reserved), Only(rgb)}
Lists == {{T(y444, bit10, Reserved), T(y420, bit8, Reserved)},
          {T(y444, bit8, Reserved), T(rgb, bit10, Reserved)}}

In(inputs, configs, lists) ==
  [inputs |-> inputs, configs |-> configs, lists |-> lists, replugs |-> {}, attrs |-> Attrs,
   overrides |-> {Only(y420), T(rgb, bit10, limit)}]
Reloads == In({"reload"}, Configs, Lists)
Overrides == In({"override"}, Configs \union Stay, Lists)
Stays == In({"reload"}, {c \in Configs \union Stay : c.cs_select = <<>>}, Lists)
Replugs ==
  [In({"reload"}, {c \in Configs : c.cs_select = <<>>}, Lists)
     EXCEPT !.replugs = Lists \union {NoList}]
All == {Reloads, Overrides, Stays, Replugs}
OneRun == {In({}, Configs, Lists)}
=============================================================================
