-------------------------- MODULE ColorspaceProofs --------------------------
(***************************************************************************)
(* Theorems of Colorspace, for all color spaces, modes, filters, displays  *)
(* and configurations: its types, and that the color space on the screen   *)
(* depends on the mode, the override and the user alone.  The invariant    *)
(* says where the default comes from: it is the attribute at a moment when *)
(* that names the user's color space, and losing its other parts at a      *)
(* comma does not change the one it names.                                 *)
(***************************************************************************)
EXTENDS Colorspace, Integers, WellFoundedInduction, FiniteSetTheorems, TLAPS

-----------------------------------------------------------------------------
(* Texts *)

\* A text that is parsed is a text, and names what it or the one before it names.
LEMMA ParsedTyped ==
  ASSUME NEW text \in Text, NEW cs \in Text
  PROVE  /\ Parsed(text, cs) \in Text
         /\ Parsed(text, cs).cs = IF text.cs = Reserved THEN cs.cs ELSE text.cs
         /\ (\A p \in Part : cs[p] # Reserved)
              => \A p \in Part : Parsed(text, cs)[p] # Reserved
  BY DEF Parsed, Text, Part

\* A text that ends at its first comma keeps the color space it names.
LEMMA CutOffTyped ==
  ASSUME NEW text \in Text
  PROVE  /\ CutOff(text) \in Text
         /\ text.cs # Reserved => CutOff(text).cs = text.cs
  BY DEF CutOff, Text, Part, FirstPart

LEMMA EmptyTyped == Empty \in Text
  BY DEF Empty, Text, Part

\* Of the prefixes of S, which are finite, one contains no other.
LEMMA LeastExists ==
  ASSUME NEW S \in SUBSET Nat, S # {}
  PROVE  \E m \in S : \A n \in S : m <= n
<1> DEFINE Upto(m) == S \cap (0..m)
           Prefixes == {Upto(m) : m \in S}
<1>1. Prefixes \subseteq FiniteSubsetsOf(S) /\ Prefixes # {}
  <2>1. \A m \in S : IsFiniteSet(0..m)
    BY FS_Interval
  <2>2. \A m \in S : IsFiniteSet(Upto(m))
    BY <2>1, FS_Intersection
  <2> QED BY <2>2 DEF FiniteSubsetsOf
<1>2. IsWellFoundedOn(StrictSubsetOrdering(S), FiniteSubsetsOf(S))
  BY FS_StrictSubsetOrderingWellFounded
<1> HIDE DEF Prefixes
<1>3. \E X \in Prefixes : \A Y \in Prefixes : <<Y, X>> \notin StrictSubsetOrdering(S)
  BY <1>1, <1>2, WFMin
<1> USE DEF Prefixes
<1>4. PICK m \in S : \A n \in S : <<Upto(n), Upto(m)>> \notin StrictSubsetOrdering(S)
  BY <1>3
<1>5. ASSUME NEW n \in S, n < m PROVE FALSE
  <2>1. Upto(n) \subseteq Upto(m) /\ m \in Upto(m) /\ m \notin Upto(n)
    BY <1>5
  <2> QED BY <1>4, <1>5, <2>1 DEF StrictSubsetOrdering
<1>6. \A n \in S : m <= n
  BY <1>5
<1> QED BY <1>6

-----------------------------------------------------------------------------
(* Types *)

\* A filter that applies is one of the configuration's, for that mode.
LEMMA FilterTyped ==
  ASSUME TypeOK, NEW m \in Mode, Usable(m) # {}
  PROVE  /\ Filter(m) \in Text
         /\ \E i \in DOMAIN cfg.cs_select :
              Filter(m) = cfg.cs_select[i].cs /\ m \in cfg.cs_select[i].rex
<1>1. cfg.cs_select \in Seq([rex : SUBSET Mode, cs : Text])
  BY ScenarioAssumption DEF TypeOK
<1>2. Usable(m) \subseteq DOMAIN cfg.cs_select /\ DOMAIN cfg.cs_select \subseteq Nat
  BY <1>1 DEF Usable
<1>3. \E i \in Usable(m) : \A j \in Usable(m) : i <= j
  BY <1>2, LeastExists
<1>4. PICK i \in Usable(m) : Filter(m) = cfg.cs_select[i].cs
  BY <1>3 DEF Filter
<1>5. i \in DOMAIN cfg.cs_select /\ m \in cfg.cs_select[i].rex
  BY DEF Usable
<1>6. cfg.cs_select[i] \in [rex : SUBSET Mode, cs : Text]
  <2> DEFINE s == cfg.cs_select
             F == [rex : SUBSET Mode, cs : Text]
  <2>1. s \in Seq(F) /\ i \in DOMAIN s
    BY <1>1, <1>5
  <2> HIDE DEF s, F
  <2>2. s[i] \in F
    BY <2>1
  <2> QED BY <2>2 DEF s, F
<1> QED BY <1>4, <1>5, <1>6

\* What colorspace_apply writes names all parts; its color space is that of the
\* override, of the filter or of the default.
LEMMA AppliedTyped ==
  ASSUME TypeOK, NEW m \in Mode, NEW text \in Text
  PROVE  /\ Applied(m, Parsed(text, Initial)) \in Text
         /\ \A p \in Part : Applied(m, Parsed(text, Initial))[p] # Reserved
         /\ g_override_cs # NoText /\ g_override_cs.cs # Reserved
              => Applied(m, Parsed(text, Initial)).cs = g_override_cs.cs
         /\ g_override_cs = NoText /\ Usable(m) # {} /\ Filter(m).cs # Reserved
              => Applied(m, Parsed(text, Initial)).cs = Filter(m).cs
         /\ g_override_cs = NoText /\ Usable(m) = {} /\ text.cs # Reserved
              => Applied(m, Parsed(text, Initial)).cs = text.cs
<1> DEFINE def == Parsed(text, Initial)
           cur == Parsed(attr, def)
<1>1. def \in Text /\ (\A p \in Part : def[p] # Reserved)
      /\ (text.cs # Reserved => def.cs = text.cs)
  BY ParsedTyped, ValueAssumption
<1> HIDE DEF def
<1>2. attr \in Text
  BY DEF TypeOK
<1>3. cur \in Text /\ (\A p \in Part : cur[p] # Reserved)
  BY <1>1, <1>2, ParsedTyped
<1> HIDE DEF cur
<1>4. CASE g_override_cs # NoText
  <2>1. g_override_cs \in Text
    BY <1>4 DEF TypeOK
  <2>2. Applied(m, def) = Parsed(g_override_cs, cur)
    BY <1>4 DEF Applied, cur
  <2> QED BY <1>3, <1>4, <2>1, <2>2, ParsedTyped DEF def
<1>5. CASE g_override_cs = NoText /\ Usable(m) # {}
  <2>1. Filter(m) \in Text
    BY <1>5, FilterTyped
  <2>2. Applied(m, def) = Parsed(Filter(m), cur)
    BY <1>5 DEF Applied, cur
  <2> QED BY <1>3, <1>5, <2>1, <2>2, ParsedTyped DEF def
<1>6. CASE g_override_cs = NoText /\ Usable(m) = {}
  <2>1. Applied(m, def) = def
    BY <1>6 DEF Applied
  <2> QED BY <1>1, <1>6, <2>1 DEF def
<1> QED BY <1>4, <1>5, <1>6

LEMMA DefaultTyped == TypeOK => DefaultTexts \subseteq Text
  BY EmptyTyped DEF TypeOK, DefaultTexts

LEMMA ApplyTyped ==
  ASSUME TypeOK, NEW m \in Mode, ColorspaceApply(m)
  PROVE  /\ attr' \in Text /\ (attr' # attr => \A p \in Part : attr'[p] # Reserved)
         /\ g_cs_default' \in Text \union {NoText, Freed}
         /\ forced' \in {forced, g_override_cs} /\ mode' = m
<1>1. CASE cfg.path
  <2>1. PICK text \in DefaultTexts : attr' = Applied(m, Parsed(text, Initial))
    BY <1>1 DEF ColorspaceApply
  <2>2. text \in Text
    BY DefaultTyped
  <2>3. attr' \in Text /\ \A p \in Part : attr'[p] # Reserved
    BY <2>1, <2>2, AppliedTyped
  <2>4. g_cs_default' \in Text \union {NoText, Freed}
    BY <1>1, CutOffTyped DEF ColorspaceApply, TypeOK
  <2> QED BY <1>1, <2>3, <2>4 DEF ColorspaceApply
<1>2. CASE ~cfg.path
  BY <1>2 DEF ColorspaceApply, TypeOK
<1> QED BY <1>1, <1>2

LEMMA SwitchTyped ==
  ASSUME TypeOK, NEW m \in Mode, DisplayModeSwitch(m)
  PROVE  /\ attr' \in Text /\ (attr' # attr => \A p \in Part : attr'[p] # Reserved)
         /\ g_cs_default' \in Text \union {NoText, Freed}
         /\ forced' \in {forced, g_override_cs} /\ mode' = m
  BY ApplyTyped DEF DisplayModeSwitch, TypeOK

\* The switch back is one to a mode.
LEMMA RestoreSwitches ==
  ASSUME TypeOK, FramerateRestore
  PROVE  /\ orig_mode' = NoMode
         /\ \E m \in Mode : /\ m = IF orig_mode = NoMode THEN mode ELSE orig_mode
                            /\ DisplayModeSwitch(m)
  BY DEF FramerateRestore, TypeOK

LEMMA InitTyped == Init => TypeOK
  BY ScenarioAssumption, ValueAssumption DEF Init, TypeOK, Part

LEMMA StepTyped == TypeOK /\ [Next]_vars => TypeOK'
<1> SUFFICES ASSUME TypeOK, [Next]_vars PROVE TypeOK'
  OBVIOUS
<1>1. ASSUME NEW m \in Mode, FramerateSwitch(m) PROVE TypeOK'
  BY <1>1, SwitchTyped DEF FramerateSwitch, history, TypeOK
<1>2. ASSUME NEW list \in scenario.lists \union scenario.replugs, HdmiOn(list)
      PROVE  TypeOK'
  <2>1. list = NoList \/ list \subseteq Text
    BY ScenarioAssumption DEF TypeOK
  <2> QED BY <1>2, <2>1 DEF HdmiOn, ColorspaceRefresh, history, TypeOK
<1>3. ASSUME NEW cs \in scenario.overrides \union {NoText}, OverrideColorspace(cs)
      PROVE  TypeOK'
  BY <1>3, ScenarioAssumption DEF OverrideColorspace, history, TypeOK
<1>4. CASE MovieEnds \/ Leave
  <2>1. PICK m \in Mode : DisplayModeSwitch(m) /\ orig_mode' = NoMode
    BY <1>4, RestoreSwitches DEF MovieEnds, Leave
  <2> QED BY <1>4, <2>1, SwitchTyped DEF MovieEnds, Leave, history, TypeOK
<1>5. ASSUME NEW c \in scenario.configs, FiniInit(c) PROVE TypeOK'
  BY <1>5 DEF FiniInit, history, TypeOK
<1>6. CASE OrigModeForgotten
  BY <1>6 DEF OrigModeForgotten, history, TypeOK
<1>7. CASE UNCHANGED vars
  BY <1>7 DEF vars, TypeOK
<1> QED BY <1>1, <1>2, <1>3, <1>4, <1>5, <1>6, <1>7 DEF Next

\* Every variable keeps its range, and what is written names all three parts.
THEOREM TypeCorrect == Spec => []TypeOK
  BY InitTyped, StepTyped, PTL DEF Spec

-----------------------------------------------------------------------------
(* The color space *)

\* Where only the user has chosen, the attribute names the user's color space; so
\* does the default as long as the list has been read.  Where a filter may choose
\* and the configuration is loaded again, the mode to go back to is the user's.
SpaceInv ==
  AllNameOne /\ DefaultIsUsers =>
    /\ user \in scenario.attrs
    /\ {g_override_cs, forced} \subseteq
         {NoText} \union IF "override" \in scenario.inputs THEN scenario.overrides ELSE {}
    /\ "reload" \in scenario.inputs /\ Filters =>
         IF orig_mode = NoMode THEN mode = Home ELSE orig_mode = Home
    /\ pc \in {"init", "fini"} =>
         /\ mode = Home \/ ~Filters
         /\ orig_mode = NoMode /\ forced = NoText /\ attr.cs = user.cs
    /\ pc = "run" =>
         /\ IF cfg.path THEN g_cs_default \in Text /\ g_cs_default.cs = user.cs
                        ELSE g_cs_supported = {} /\ forced = NoText
         /\ attr.cs = Chosen

\* No filter applies to the user's mode, or none at all.
LEMMA NoFilterAtHome ==
  ASSUME TypeOK, DefaultIsUsers, NEW m, m = Home \/ ~Filters PROVE Usable(m) = {}
  BY DEF TypeOK, DefaultIsUsers, Filters, Usable

LEMMA NoFilterUnlisted ==
  ASSUME g_cs_supported = {}, NEW m PROVE Usable(m) = {}
  BY DEF Usable, Supported

\* A switch puts the chosen color space on the screen.
LEMMA ApplySpace ==
  ASSUME TypeOK, SpaceInv, AllNameOne, DefaultIsUsers, pc = "run",
         NEW m \in Mode, ColorspaceApply(m), UNCHANGED <<cfg, g_cs_supported, g_override_cs, history>>
  PROVE  /\ {g_override_cs, forced}' \subseteq
              {NoText} \union IF "override" \in scenario.inputs THEN scenario.overrides ELSE {}
         /\ IF cfg.path THEN g_cs_default' \in Text /\ g_cs_default'.cs = user.cs
                        ELSE g_cs_supported = {} /\ forced' = NoText
         /\ (attr.cs = Chosen)'
<1>1. /\ {g_override_cs, forced} \subseteq
             {NoText} \union IF "override" \in scenario.inputs THEN scenario.overrides ELSE {}
      /\ user \in scenario.attrs /\ user.cs # Reserved
      /\ g_override_cs # NoText => g_override_cs.cs # Reserved
  BY DEF SpaceInv, AllNameOne
<1>2. Chosen' = IF forced' # NoText THEN forced'.cs
                ELSE IF Usable(m) # {} THEN Filter(m).cs ELSE user.cs
  BY DEF Chosen, ColorspaceApply, Usable, Filter, Supported, history
<1>3. CASE ~cfg.path
  <2>1. g_cs_supported = {} /\ forced = NoText /\ attr.cs = Chosen
    BY <1>3 DEF SpaceInv
  <2>2. Usable(m) = {} /\ Usable(mode) = {}
    BY <2>1, NoFilterUnlisted
  <2> QED BY <1>1, <1>2, <1>3, <2>1, <2>2 DEF ColorspaceApply, Chosen
<1>4. CASE cfg.path
  <2>1. g_cs_default \in Text /\ g_cs_default.cs = user.cs
    BY <1>4 DEF SpaceInv
  <2>2. DefaultTexts = {g_cs_default}
    BY <2>1, ValueAssumption DEF DefaultTexts
  <2>3. attr' = Applied(m, Parsed(g_cs_default, Initial)) /\ forced' = g_override_cs
    BY <1>4, <2>2 DEF ColorspaceApply
  <2>4. g_cs_default' = CutOff(g_cs_default)
    BY <1>4, <2>1, ValueAssumption DEF ColorspaceApply
  <2>5. g_cs_default' \in Text /\ g_cs_default'.cs = user.cs
    BY <1>1, <2>1, <2>4, CutOffTyped
  <2>6. Usable(m) # {} => Filter(m).cs # Reserved
    BY FilterTyped DEF AllNameOne, TypeOK
  <2>7. attr'.cs = Chosen'
    BY <1>1, <1>2, <2>1, <2>3, <2>6, AppliedTyped
  <2> QED BY <1>1, <1>4, <2>3, <2>5, <2>7
<1> QED BY <1>3, <1>4

\* So does one that finds the mode on the screen.
LEMMA SwitchSpace ==
  ASSUME TypeOK, SpaceInv, AllNameOne, DefaultIsUsers, pc = "run",
         NEW m \in Mode, DisplayModeSwitch(m),
         UNCHANGED <<cfg, g_cs_supported, g_override_cs, history>>
  PROVE  /\ {g_override_cs, forced}' \subseteq
              {NoText} \union IF "override" \in scenario.inputs THEN scenario.overrides ELSE {}
         /\ IF cfg.path THEN g_cs_default' \in Text /\ g_cs_default'.cs = user.cs
                        ELSE g_cs_supported = {} /\ forced' = NoText
         /\ (attr.cs = Chosen)'
<1>1. CASE ColorspaceApply(m)
  BY <1>1, ApplySpace
<1>2. CASE UNCHANGED <<attr, mode, g_cs_default, forced>>
  <2>1. Chosen' = Chosen
    BY <1>2 DEF Chosen, Usable, Filter, Supported, history
  <2> QED BY <1>2, <2>1 DEF SpaceInv
<1> QED BY <1>1, <1>2 DEF DisplayModeSwitch

LEMMA InitSpace == Init => SpaceInv
  BY DEF Init, SpaceInv

LEMMA SpaceSwitch ==
  ASSUME TypeOK, SpaceInv, NEW m \in Mode, FramerateSwitch(m) PROVE SpaceInv'
<1> SUFFICES ASSUME AllNameOne, DefaultIsUsers PROVE SpaceInv'
  BY DEF SpaceInv, FramerateSwitch, history, AllNameOne, DefaultIsUsers, Filters
<1>1. user' \in scenario'.attrs /\ pc' = "run" /\ UNCHANGED <<cfg, g_cs_supported, scenario, user>>
  BY DEF SpaceInv, FramerateSwitch, history
<1>2. "reload" \in scenario.inputs /\ Filters => orig_mode' = Home /\ Home # NoMode
  BY ValueAssumption DEF SpaceInv, FramerateSwitch
<1> QED BY <1>1, <1>2, SwitchSpace DEF SpaceInv, FramerateSwitch, Filters

LEMMA SpaceMovieEnds ==
  ASSUME TypeOK, SpaceInv, MovieEnds PROVE SpaceInv'
<1> SUFFICES ASSUME AllNameOne, DefaultIsUsers PROVE SpaceInv'
  BY DEF SpaceInv, MovieEnds, history, AllNameOne, DefaultIsUsers, Filters
<1>1. user' \in scenario'.attrs /\ pc' = "run" /\ UNCHANGED <<cfg, g_cs_supported, scenario, user>>
  BY DEF SpaceInv, MovieEnds, history
<1>2. PICK m \in Mode : /\ m = IF orig_mode = NoMode THEN mode ELSE orig_mode
                        /\ DisplayModeSwitch(m) /\ orig_mode' = NoMode
  BY RestoreSwitches DEF MovieEnds
<1>3. "reload" \in scenario.inputs /\ Filters => mode' = Home
  BY <1>2, SwitchTyped DEF SpaceInv
<1> QED BY <1>1, <1>2, <1>3, SwitchSpace DEF SpaceInv, MovieEnds, Filters

LEMMA SpaceForgotten ==
  ASSUME TypeOK, SpaceInv, OrigModeForgotten PROVE SpaceInv'
<1> SUFFICES ASSUME AllNameOne, DefaultIsUsers PROVE SpaceInv'
  BY DEF SpaceInv, OrigModeForgotten, history, AllNameOne, DefaultIsUsers, Filters
<1>1. ~("reload" \in scenario.inputs /\ Filters)
  BY DEF OrigModeForgotten, DefaultIsUsers, TypeOK
<1>2. Chosen' = Chosen
  BY DEF OrigModeForgotten, Chosen, Usable, Filter, Supported, history
<1> QED BY <1>1, <1>2 DEF SpaceInv, OrigModeForgotten, history, Filters

LEMMA SpaceHdmiOn ==
  ASSUME TypeOK, SpaceInv, NEW list \in scenario.lists \union scenario.replugs, HdmiOn(list)
  PROVE  SpaceInv'
<1> SUFFICES ASSUME AllNameOne, DefaultIsUsers PROVE SpaceInv'
  BY DEF SpaceInv, HdmiOn, history, AllNameOne, DefaultIsUsers, Filters
<1>1. /\ UNCHANGED <<cfg, g_override_cs, attr, mode, orig_mode, forced, user, scenario>>
      /\ user \in scenario.attrs /\ pc' \in {"run", "aborted"}
      /\ {g_override_cs, forced} \subseteq
            {NoText} \union IF "override" \in scenario.inputs THEN scenario.overrides ELSE {}
  BY DEF SpaceInv, HdmiOn, ColorspaceRefresh, history
<1>2. forced = NoText /\ attr.cs = user.cs /\ Usable(mode)' = {}
  <2>1. CASE pc = "init"
    <3>1. (mode = Home \/ ~Filters) /\ forced = NoText /\ attr.cs = user.cs
      BY <2>1 DEF SpaceInv
    <3>2. Usable(mode)' = {}
      BY <1>1, <3>1 DEF TypeOK, DefaultIsUsers, Filters, Usable
    <3> QED BY <3>1, <3>2
  <2>2. CASE pc = "run" /\ list \in scenario.replugs
    <3>1. "override" \notin scenario.inputs /\ DOMAIN cfg.cs_select = {}
      BY <2>2 DEF DefaultIsUsers, Filters, TypeOK
    <3>2. forced = NoText
      BY <1>1, <3>1
    <3>3. Usable(mode) = {} /\ Usable(mode)' = {}
      BY <1>1, <3>1 DEF Usable
    <3> QED BY <2>2, <3>2, <3>3 DEF SpaceInv, Chosen
  <2> QED BY <2>1, <2>2 DEF HdmiOn
<1>3. attr'.cs = Chosen'
  BY <1>1, <1>2 DEF Chosen
<1>4. IF cfg.path THEN g_cs_default' \in Text /\ g_cs_default'.cs = user.cs
                  ELSE g_cs_supported' = {} /\ forced' = NoText
  <2>1. CASE cfg.path /\ list # NoList
    BY <1>2, <2>1 DEF HdmiOn, ColorspaceRefresh, TypeOK
  <2>2. CASE cfg.path /\ list = NoList
    <3>1. pc = "run"
      BY <2>2 DEF HdmiOn, DefaultIsUsers
    <3> QED BY <2>2, <3>1 DEF SpaceInv, HdmiOn, ColorspaceRefresh
  <2>3. CASE ~cfg.path
    BY <1>1, <1>2, <2>3 DEF HdmiOn, ColorspaceRefresh
  <2> QED BY <2>1, <2>2, <2>3
<1> QED BY <1>1, <1>3, <1>4 DEF SpaceInv, Filters

LEMMA SpaceLeave == ASSUME TypeOK, SpaceInv, Leave PROVE SpaceInv'
<1> SUFFICES ASSUME AllNameOne, DefaultIsUsers PROVE SpaceInv'
  BY DEF SpaceInv, Leave, history, AllNameOne, DefaultIsUsers, Filters
<1>1. /\ pc = "run" /\ pc' = "fini"
      /\ "reload" \in scenario.inputs /\ "override" \notin scenario.inputs
      /\ UNCHANGED <<cfg, g_cs_supported, g_override_cs, user, scenario>>
  BY DEF Leave, DefaultIsUsers, history
<1>2. user \in scenario.attrs /\ g_override_cs = NoText
  BY <1>1 DEF SpaceInv
<1>3. PICK m \in Mode : /\ m = IF orig_mode = NoMode THEN mode ELSE orig_mode
                        /\ DisplayModeSwitch(m) /\ orig_mode' = NoMode
  BY RestoreSwitches DEF Leave
<1>4. mode' = m /\ (m = Home \/ ~Filters)
  BY <1>1, <1>3, SwitchTyped DEF SpaceInv
<1>5. forced' = NoText /\ (attr.cs = Chosen)'
  BY <1>1, <1>2, <1>3, SwitchSpace DEF history
<1>6. Usable(m) = {} /\ Usable(m)' = {}
  BY <1>1, <1>4, NoFilterAtHome DEF Usable, Supported
<1>7. attr'.cs = user.cs
  BY <1>1, <1>4, <1>5, <1>6 DEF Chosen
<1> QED BY <1>1, <1>2, <1>3, <1>4, <1>5, <1>7 DEF SpaceInv, Filters

LEMMA StepSpace == TypeOK /\ SpaceInv /\ [Next]_vars => SpaceInv'
<1> SUFFICES ASSUME TypeOK, SpaceInv, [Next]_vars PROVE SpaceInv'
  OBVIOUS
<1>1. ASSUME NEW cs \in scenario.overrides \union {NoText}, OverrideColorspace(cs)
      PROVE  SpaceInv'
  <2>1. /\ UNCHANGED <<pc, cfg, g_cs_supported, g_cs_default, attr, mode, orig_mode, forced, history>>
        /\ "override" \in scenario.inputs /\ g_override_cs' = cs
    BY <1>1 DEF OverrideColorspace
  <2>2. Chosen' = Chosen
    BY <2>1 DEF Chosen, Usable, Filter, Supported, history
  <2> QED BY <2>1, <2>2 DEF SpaceInv, AllNameOne, DefaultIsUsers, Filters, history
<1>2. ASSUME NEW c \in scenario.configs, FiniInit(c) PROVE SpaceInv'
  BY <1>2 DEF FiniInit, SpaceInv, AllNameOne, DefaultIsUsers, Filters, history
<1>3. CASE UNCHANGED vars
  <2>1. Chosen' = Chosen
    BY <1>3 DEF vars, Chosen, Usable, Filter, Supported
  <2> QED BY <1>3, <2>1 DEF vars, SpaceInv, AllNameOne, DefaultIsUsers, Filters
<1> QED BY <1>1, <1>2, <1>3, SpaceSwitch, SpaceMovieEnds, SpaceForgotten,
        SpaceHdmiOn, SpaceLeave DEF Next

\* Whatever movies, reloads, displays and overrides came before, the color space on
\* the screen is the one of the override, of the mode's filter or of the user, as long
\* as the default is read where DefaultIsUsers wants it.
THEOREM SpaceIsChosen == Spec => []SpaceOfMode
<1>1. SpaceInv => SpaceOfMode
  BY DEF SpaceInv, SpaceOfMode
<1> QED BY <1>1, InitSpace, StepSpace, TypeCorrect, PTL DEF Spec

=============================================================================
