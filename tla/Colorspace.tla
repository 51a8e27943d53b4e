------------------------------ MODULE Colorspace ------------------------------
(***************************************************************************)
(* The color space that goes with a video mode (colorspace.c): the list of *)
(* what the display supports and the default, read when HDMI comes on, the *)
(* filters of cs.select, the override of the API, and what                 *)
(* colorspace_apply writes to the attribute whenever display_mode_switch   *)
(* changes the mode.                                                       *)
(*                                                                         *)
(* A text such as 444,8bit,full is the record of its parts, in the order   *)
(* in which colorspace_str and the kernel write them; a part that is       *)
(* missing or unknown is Reserved, as it is after parsing.  A regular      *)
(* expression is the set of modes whose whole name it matches.  The kernel *)
(* ends the attribute without a newline, which sysfs_read would keep as    *)
(* part of the last name.                                                  *)
(***************************************************************************)
EXTENDS Naturals, Sequences

CONSTANTS
  Value,         \* for "cs", "cd" and "cr" the names parse_cs, parse_cd, parse_cr know
  Reserved,      \* no name
  Initial,       \* {COLORSPACE_YUV444, COLORDEPTH_24B, COLORRANGE_FUL}
  Mode, Home,    \* video modes; the one in use when afrd starts
  NoMode,        \* orig_mode is empty
  NoList,        \* cs.list.path cannot be read
  NoText, Freed, \* g_cs_default is NULL, or points to memory given back
  Scenario       \* the configurations, the displays and what may happen

Part == {"cs", "cd", "cr"}
Text == [cs : Value.cs \union {Reserved}, cd : Value.cd \union {Reserved},
         cr : Value.cr \union {Reserved}]

ASSUME ValueAssumption ==
  /\ DOMAIN Value = Part /\ \A p \in Part : Reserved \notin Value[p]
  /\ Initial \in Text /\ \A p \in Part : Initial[p] # Reserved
  /\ Home \in Mode /\ NoMode \notin Mode /\ {NoText, Freed} \cap Text = {} /\ NoText # Freed
\* cs_select holds the filters in order.  A configuration without the two paths
\* has path = FALSE, one with switch.delay.off = 0 has delay_off = FALSE.
\* Where replugs is not empty, HDMI may go off and on.
ASSUME ScenarioAssumption ==
  \A s \in Scenario :
    /\ s.attrs \subseteq Text /\ s.overrides \subseteq Text
    /\ \A l \in s.lists \union s.replugs : l = NoList \/ l \subseteq Text
    /\ \A c \in s.configs :
         /\ c.path \in BOOLEAN /\ c.delay_off \in BOOLEAN
         /\ c.cs_select \in Seq([rex : SUBSET Mode, cs : Text])

VARIABLES
  pc,              \* where the cycle of afrd_init, afrd_run and afrd_fini is
  cfg,             \* g_cs_filter, whether both paths are set, switch.delay.off
  g_cs_supported,
  g_cs_default,
  g_override_cs,   \* NoText while g_override_cs_enabled is false
  attr,            \* the kernel's attribute
  mode,            \* the mode display_mode_switch was last called for
  orig_mode,       \* the one to go back to
  user,            \* history: the attribute as it was before afrd started
  forced,          \* history: the override at the last switch
  scenario

vars == <<pc, cfg, g_cs_supported, g_cs_default, g_override_cs, attr, mode, orig_mode,
          user, forced, scenario>>
history == <<user, scenario>>

Empty == [p \in Part |-> Reserved]
\* Parsing a text leaves the parts it does not name as they are.
Parsed_bug(text, cs) == text
Parsed(text, cs) == [p \in Part |-> IF text[p] = Reserved THEN cs[p] ELSE text[p]]

\* strtok_r ends the text that is parsed at its first comma.
FirstPart(text) ==
  IF text.cs # Reserved THEN "cs" ELSE IF text.cd # Reserved THEN "cd" ELSE "cr"
CutOff(text) == [p \in Part |-> IF p = FirstPart(text) THEN text[p] ELSE Reserved]

Supported(cs) ==
  \E s \in g_cs_supported :
    \A p \in Part : Reserved \in {s[p], cs[p]} \/ s[p] = cs[p]

-----------------------------------------------------------------------------
(* colorspace_apply *)

\* The filters that apply to a mode, first to last.
Usable(m) == {i \in DOMAIN cfg.cs_select :
                m \in cfg.cs_select[i].rex /\ Supported(cfg.cs_select[i].cs)}
Filter(m) == cfg.cs_select[CHOOSE i \in Usable(m) : \A j \in Usable(m) : i <= j].cs

Applied_bug(m, def) ==
  LET cur == Parsed(attr, def)
  IN IF g_override_cs # NoText THEN Parsed(g_override_cs, cur)
     ELSE IF Usable(m) # {} THEN Parsed(Filter(m), cur) ELSE cur
Applied(m, def) ==
  LET cur == Parsed(attr, def)
  IN IF g_override_cs # NoText THEN Parsed(g_override_cs, cur)
     ELSE IF Usable(m) # {} THEN Parsed(Filter(m), cur) ELSE def

\* What is found behind g_cs_default; after the memory was given back, anything.
DefaultTexts ==
  IF g_cs_default = Freed THEN Text
  ELSE IF g_cs_default = NoText THEN {Empty} ELSE {g_cs_default}

ColorspaceApply(m) ==
  /\ mode' = m
  /\ IF cfg.path
     THEN /\ \E text \in DefaultTexts : attr' = Applied(m, Parsed(text, Initial))
          /\ g_cs_default' = IF g_cs_default \in {NoText, Freed} THEN g_cs_default
                             ELSE CutOff(g_cs_default)
          /\ forced' = g_override_cs
     ELSE UNCHANGED <<attr, g_cs_default, forced>>

\* display_mode_switch does nothing for the mode on the screen, if it is not black.
DisplayModeSwitch(m) ==
  \/ ColorspaceApply(m)
  \/ m = mode /\ UNCHANGED <<attr, mode, g_cs_default, forced>>

\* The switch for a movie remembers the mode before the first.
FramerateSwitch(m) ==
  /\ pc = "run"
  /\ DisplayModeSwitch(m)
  /\ orig_mode' = IF orig_mode = NoMode THEN mode ELSE orig_mode
  /\ UNCHANGED <<pc, cfg, g_cs_supported, g_override_cs, history>>

\* Without a mode to go back to, framerate_restore switches to the current one.
FramerateRestore ==
  /\ DisplayModeSwitch(IF orig_mode = NoMode THEN mode ELSE orig_mode)
  /\ orig_mode' = NoMode
MovieEnds ==
  /\ pc = "run" /\ FramerateRestore
  /\ UNCHANGED <<pc, cfg, g_cs_supported, g_override_cs, history>>

\* The end of a movie with switch.delay.off = 0, and HDMI that goes off, leave the
\* movie's mode and forget the one before it.
OrigModeForgotten ==
  /\ pc = "run" /\ orig_mode # NoMode
  /\ ~cfg.delay_off \/ scenario.replugs # {}
  /\ orig_mode' = NoMode
  /\ UNCHANGED <<pc, cfg, g_cs_supported, g_cs_default, g_override_cs, attr, mode, forced, history>>

-----------------------------------------------------------------------------
(* The list and the default, the override, and a reload *)

\* A default whose memory was given back is given back again: the allocator ends
\* the process, or does not notice.
ColorspaceRefresh(list) ==
  IF cfg.path /\ list # NoList
  THEN /\ g_cs_supported' = list
       /\ g_cs_default' = attr
       /\ pc' \in {"run"} \union IF g_cs_default = Freed THEN {"aborted"} ELSE {}
  ELSE /\ g_cs_supported' = {}
       /\ pc' = "run"
       /\ UNCHANGED g_cs_default

\* HDMI comes on in afrd_init, or later, with the same display or another one.
HdmiOn(list) ==
  /\ \/ pc = "init" /\ list \in scenario.lists
     \/ pc = "run" /\ list \in scenario.replugs
  /\ ColorspaceRefresh(list)
  /\ UNCHANGED <<cfg, g_override_cs, attr, mode, orig_mode, forced, history>>

OverrideColorspace(cs) ==
  /\ pc = "run" /\ "override" \in scenario.inputs
  /\ g_override_cs' = cs
  /\ UNCHANGED <<pc, cfg, g_cs_supported, g_cs_default, attr, mode, orig_mode, forced, history>>

\* The loop ends with framerate_restore: the mode goes back, if one is remembered.
Leave ==
  /\ pc = "run" /\ "reload" \in scenario.inputs
  /\ pc' = "fini" /\ FramerateRestore
  /\ UNCHANGED <<cfg, g_cs_supported, g_override_cs, history>>

\* colorspace_fini frees the default, once more if no list was read since it last
\* did, then colorspace_init reads the options.
FiniInit(c) ==
  /\ pc = "fini"
  /\ pc' \in {"init"} \union IF g_cs_default = Freed THEN {"aborted"} ELSE {}
  /\ cfg' = c
  /\ g_cs_default' = IF g_cs_default = NoText THEN NoText ELSE Freed
  /\ g_override_cs' = NoText
  /\ UNCHANGED <<g_cs_supported, attr, mode, orig_mode, forced, history>>

Init ==
  /\ scenario \in Scenario
  /\ pc = "init" /\ cfg \in scenario.configs
  /\ g_cs_supported = {} /\ g_cs_default = NoText /\ g_override_cs = NoText
  /\ attr \in scenario.attrs /\ user = attr
  /\ mode = Home /\ orig_mode = NoMode /\ forced = NoText

Next ==
  \/ \E m \in Mode : FramerateSwitch(m)
  \/ MovieEnds \/ OrigModeForgotten
  \/ \E list \in scenario.lists \union scenario.replugs : HdmiOn(list)
  \/ \E cs \in scenario.overrides \union {NoText} : OverrideColorspace(cs)
  \/ Leave
  \/ \E c \in scenario.configs : FiniInit(c)

Spec == Init /\ [][Next]_vars

-----------------------------------------------------------------------------
(* Properties *)

\* Every variable keeps its range; what is written names all three parts.
TypeOK ==
  /\ pc \in {"init", "run", "fini", "aborted"}
  /\ scenario \in Scenario /\ cfg \in scenario.configs
  /\ g_cs_supported \subseteq Text
  /\ g_cs_default \in Text \union {NoText, Freed}
  /\ g_override_cs \in Text \union {NoText} /\ forced \in Text \union {NoText}
  /\ attr \in Text /\ user \in Text /\ mode \in Mode /\ orig_mode \in Mode \union {NoMode}
  /\ attr # user => \A p \in Part : attr[p] # Reserved

\* The color space on the screen is the one that the override, the mode's filter
\* or the user chose, whatever modes, reloads and other displays came before,
\* although the default is read back from an attribute afrd writes itself; as
\* long as all of them name one, and the attribute is what the user chose whenever
\* it is read as the default: after no override; and, where there are filters, with
\* HDMI on throughout, none for the user's mode, and, if the configuration is loaded
\* again, a switch.delay.off that has given that mode back before.
Chosen ==
  IF forced # NoText THEN forced.cs
  ELSE IF Usable(mode) # {} THEN Filter(mode).cs ELSE user.cs
AllNameOne ==
  /\ \A c \in scenario.configs : \A i \in DOMAIN c.cs_select :
       c.cs_select[i].cs.cs # Reserved
  /\ \A cs \in scenario.overrides \union scenario.attrs : cs.cs # Reserved
Filters == \E c \in scenario.configs : DOMAIN c.cs_select # {}
DefaultIsUsers ==
  /\ NoList \notin scenario.lists
  /\ "override" \in scenario.inputs =>
       "reload" \notin scenario.inputs /\ scenario.replugs = {}
  /\ Filters =>
       /\ scenario.replugs = {}
       /\ \A c \in scenario.configs :
            /\ "reload" \in scenario.inputs => c.delay_off
            /\ \A i \in DOMAIN c.cs_select : Home \notin c.cs_select[i].rex
SpaceOfMode == pc = "run" /\ AllNameOne /\ DefaultIsUsers => attr.cs = Chosen

\* A mode without a filter gets the default ("use default colorspace if no match
\* found"): with no override and nothing else that writes the attribute, the
\* parts it named before afrd started.
DefaultIsUsed ==
  [][ \A m \in Mode :
        FramerateSwitch(m) /\ m # mode /\ cfg.path /\ Usable(m) = {} /\ g_override_cs = NoText
          => attr' = Parsed(user, Initial) ]_vars
=============================================================================
