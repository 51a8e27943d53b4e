--------------------------- MODULE FpsDetectProofs ---------------------------
(***************************************************************************)
(* A frame rate is accepted only after as many confirmations as its source *)
(* needs, and a hint at once; one wrong sample does no harm, and one       *)
(* steady source is enough: for all rates, whichever of them are close,    *)
(* and any number of starts, attempts and wrong samples.                   *)
(*                                                                         *)
(* The lemmas about accumulate_fps speak of the statistics stats and the   *)
(* history past that a step begins with: those of the state, or cleared    *)
(* ones where a start follows a stop.                                      *)
(***************************************************************************)
EXTENDS FpsDetect, FiniteSetTheorems, TLAPS

Sample == Rate \cup {NoRate}
Stat == [hz : Sample, weight : Nat, timeout : 0..Fresh]
StatTypeOK == hz_stat \in [Source -> Stat]

-----------------------------------------------------------------------------
(* Samples and candidates *)

LEMMA Sources == Source = {1, 2, 3, 4} /\ FRH = 1 /\ FRH \in Source
  BY DEF Source, FRH, VDEC

LEMMA SourceWeights ==
  /\ src_weight[1] = 100 /\ src_weight[2] = 50 /\ src_weight[3] = 34 /\ src_weight[4] = 25
  /\ \A src \in Source : src_weight[src] \in Nat
  BY Sources DEF src_weight, FRH, CHUNKS, BLOCKS

LEMMA AgedTyped ==
  ASSUME NEW stat \in Stat, NEW d \in 0..Fresh
  PROVE  /\ Aged(stat, d) \in Stat
         /\ Aged(stat, d).hz = stat.hz /\ Aged(stat, d).weight = stat.weight
<1>1. (IF stat.timeout > d THEN stat.timeout - d ELSE 0) \in 0..Fresh
  BY DEF Stat, Fresh
<1> QED BY <1>1 DEF Aged, Stat

LEMMA AccumulateTyped ==
  ASSUME NEW stat \in Stat, NEW r \in Sample, NEW src \in Source
  PROVE  AccumulateFps(stat, r, src) \in Stat
<1>1. BaseWeight(stat, r) \in Nat
  BY DEF BaseWeight, Stat
<1>2. BaseWeight(stat, r) + src_weight[src] \in Nat
  BY <1>1, SourceWeights
<1> QED BY <1>2 DEF AccumulateFps, Stat, Fresh

\* Of several candidates one is the best, so that the search has an answer.
LEMMA BestExists ==
  ASSUME NEW stats \in [Source -> Stat], NEW C \in SUBSET Source, C # {}
  PROVE  /\ BestSource(stats, C) \in C
         /\ \A src \in C : stats[BestSource(stats, C)].weight >= stats[src].weight
<1>1. \A src \in Source : stats[src].weight \in Nat
  BY DEF Stat
<1> DEFINE w == [src \in Source |-> stats[src].weight]
           Best(src) == \A other \in C \ {src} :
                          \/ w[src] > w[other]
                          \/ w[src] = w[other] /\ src < other
<1>2. w \in [Source -> Nat]
  BY <1>1
<1> HIDE DEF w
<1>3. \E src \in C : Best(src)
  <2>1. \A src \in C : src \in {1, 2, 3, 4} /\ w[src] \in Nat
    BY <1>2, Sources
  <2> QED BY <2>1, SMTT(60)
<1>4. \E src \in C :
        \A other \in C \ {src} :
          \/ stats[src].weight > stats[other].weight
          \/ stats[src].weight = stats[other].weight /\ src < other
  BY <1>3 DEF w
<1>5. /\ BestSource(stats, C) \in C
      /\ \A other \in C \ {BestSource(stats, C)} :
           \/ stats[BestSource(stats, C)].weight > stats[other].weight
           \/ /\ stats[BestSource(stats, C)].weight = stats[other].weight
              /\ BestSource(stats, C) < other
  BY <1>4 DEF BestSource
<1>6. ASSUME NEW src \in C
      PROVE  stats[BestSource(stats, C)].weight >= stats[src].weight
  <2>1. /\ stats[src].weight \in Nat
        /\ stats[BestSource(stats, C)].weight \in Nat
    BY <1>1, <1>5
  <2>2. CASE src = BestSource(stats, C)
    BY <2>1, <2>2
  <2>3. CASE src # BestSource(stats, C)
    BY <1>5, <2>1, <2>3
  <2> QED BY <2>2, <2>3
<1> QED BY <1>5, <1>6

\* What the search finds is the rate of a source with weight enough.
LEMMA FoundHasWeight ==
  ASSUME NEW stats \in [Source -> Stat], NEW last_chance \in BOOLEAN
  PROVE  /\ BestFps(stats, last_chance) \in Sample
         /\ BestFps(stats, last_chance) # NoRate =>
              \E src \in Source :
                /\ stats[src].hz = BestFps(stats, last_chance)
                /\ stats[src].weight * 2 >= 100
                /\ ~last_chance => stats[src].weight >= 100
<1> DEFINE C == Candidates(stats, last_chance)
<1>1. /\ C \subseteq Source
      /\ \A src \in C : /\ stats[src].weight * 2 >= 100
                        /\ ~last_chance => stats[src].weight >= 100
  <2>1. \A src \in Source : stats[src].weight \in Nat
    BY DEF Stat
  <2> QED BY <2>1 DEF Candidates, ACCEPT_HZ_WEIGHT
<1> HIDE DEF C
<1>2. CASE C = {}
  BY <1>2 DEF BestFps, Sample, C
<1>3. CASE C # {}
  <2>1. BestSource(stats, C) \in C
    BY <1>1, <1>3, BestExists
  <2>2. BestFps(stats, last_chance) = stats[BestSource(stats, C)].hz
    BY <1>3 DEF BestFps, C
  <2>3. stats[BestSource(stats, C)].hz \in Sample
    BY <1>1, <2>1 DEF Stat
  <2> QED BY <1>1, <2>1, <2>2, <2>3
<1> QED BY <1>2, <1>3

-----------------------------------------------------------------------------
(* A source's weight is what its agreeing samples weigh *)

Weighted(stat, agreed, src) ==
  /\ stat.weight = agreed * src_weight[src]
  /\ stat.weight # 0 => stat.hz \in Rate
WeightedStats(stats, past) ==
  \A src \in Source : Weighted(stats[src], past.agreed[src], src)
AllWeighted == WeightedStats(hz_stat, history)

HistoryType ==
  [agreed : [Source -> Nat], wrong : 0..Errors, starts : 0..Starts,
   rates : SUBSET Rate, steady : SUBSET Source]

LEMMA OneMore ==
  ASSUME NEW src \in Source, NEW n \in Nat
  PROVE  /\ (n + 1) * src_weight[src] = n * src_weight[src] + src_weight[src]
         /\ 1 * src_weight[src] = 0 + src_weight[src]
         /\ n * src_weight[src] \in Nat
<1>1. CASE src = 1
  BY <1>1, SourceWeights
<1>2. CASE src = 2
  BY <1>2, SourceWeights
<1>3. CASE src = 3
  BY <1>3, SourceWeights
<1>4. CASE src = 4
  BY <1>4, SourceWeights
<1> QED BY <1>1, <1>2, <1>3, <1>4, Sources

\* A sample that agrees adds its source's weight, another one starts from it.
LEMMA AccumulateWeighted ==
  ASSUME NEW stat \in Stat, NEW r \in Sample, NEW src \in Source, NEW n \in Nat,
         Weighted(stat, n, src), NEW m \in Nat,
         r = NoRate => m = n,
         r # NoRate /\ Agrees(stat, r) => m = n + 1,
         r # NoRate /\ ~Agrees(stat, r) => m = 1
  PROVE  Weighted(AccumulateFps(stat, r, src), m, src)
<1>1. CASE r = NoRate
  BY <1>1 DEF AccumulateFps
<1>2. CASE r # NoRate
  <2> DEFINE new == AccumulateFps(stat, r, src)
  <2>1. new.hz = r /\ r \in Rate /\ new.weight = BaseWeight(stat, r) + src_weight[src]
    BY <1>2 DEF AccumulateFps, Sample
  <2> HIDE DEF new
  <2>2. new.weight = m * src_weight[src]
    <3>1. CASE Agrees(stat, r)
      <4>1. m = n + 1 /\ BaseWeight(stat, r) = n * src_weight[src]
        BY <1>2, <3>1 DEF BaseWeight, Weighted
      <4>2. (n + 1) * src_weight[src] = n * src_weight[src] + src_weight[src]
        BY OneMore
      <4> QED BY <2>1, <4>1, <4>2, Zenon
    <3>2. CASE ~Agrees(stat, r)
      <4>1. m = 1 /\ BaseWeight(stat, r) = 0
        BY <1>2, <3>2 DEF BaseWeight
      <4>2. 1 * src_weight[src] = 0 + src_weight[src]
        BY OneMore, 0 \in Nat
      <4> QED BY <2>1, <4>1, <4>2, Zenon
    <3> QED BY <3>1, <3>2
  <2>3. Weighted(new, m, src)
    BY <2>1, <2>2, Zenon DEF Weighted
  <2> QED BY <2>3 DEF new
<1> QED BY <1>1, <1>2

\* Weight enough is agreement enough.
LEMMA EnoughAgreed ==
  ASSUME NEW src \in Source, NEW n \in Nat, NEW w, w = n * src_weight[src]
  PROVE  /\ w >= 100 => n >= Needed[src]
         /\ w * 2 >= 100 => 2 * n >= Needed[src]
<1>1. Needed[src] = src
  BY DEF Needed
<1>2. CASE src = 1
  BY <1>1, <1>2, SourceWeights
<1>3. CASE src = 2
  BY <1>1, <1>3, SourceWeights
<1>4. CASE src = 3
  BY <1>1, <1>4, SourceWeights
<1>5. CASE src = 4
  BY <1>1, <1>5, SourceWeights
<1> QED BY <1>2, <1>3, <1>4, <1>5, Sources

\* Agreement weighs at least as much as one sample, and one sample of a file is
\* half the weight that is needed at most.
LEMMA AgreedWeighs ==
  ASSUME NEW src \in Source, NEW n \in Nat, NEW k \in Nat, n >= k,
         NEW w, w = n * src_weight[src]
  PROVE  /\ k >= 1 => w # 0
         /\ 2 * k * src_weight[src] > 100 => w * 2 > 100
         /\ src # FRH /\ n <= 1 => w * 2 <= 100
<1>1. CASE src = 1
  BY <1>1, SourceWeights, Sources
<1>2. CASE src = 2
  BY <1>2, SourceWeights, Sources
<1>3. CASE src = 3
  BY <1>3, SourceWeights, Sources
<1>4. CASE src = 4
  BY <1>4, SourceWeights, Sources
<1> QED BY <1>1, <1>2, <1>3, <1>4, Sources

\* No source is waited for before the first one.
LEMMA HintFound ==
  ASSUME NEW stats \in [Source -> Stat], stats[FRH].weight >= 100,
         \A src \in Source : stats[src].weight # 0 => stats[src].hz \in Rate
  PROVE  BestFps(stats, FALSE) # NoRate
<1> DEFINE C == Candidates(stats, FALSE)
<1>1. \A src \in Source : stats[src].weight \in Nat
  BY DEF Stat
<1>2. /\ C \subseteq Source /\ FRH \in C
      /\ \A src \in C : stats[src].weight # 0
  <2>1. \A w \in Waited(stats) : FRH < w
    <3>1. \A w \in Waited(stats) : w \in Source /\ stats[w].weight < 100
      BY DEF Waited, ACCEPT_HZ_WEIGHT
    <3>2. \A w \in Waited(stats) : w # FRH
      BY <1>1, <3>1, Sources
    <3> QED BY <3>1, <3>2, Sources
  <2>2. C = {src \in Source : /\ stats[src].weight >= 100
                              /\ \A w \in Waited(stats) : src < w}
    BY DEF Candidates, ACCEPT_HZ_WEIGHT
  <2>3. C \subseteq Source /\ FRH \in C
    BY <2>1, <2>2, Sources
  <2>4. ASSUME NEW src \in C
        PROVE  stats[src].weight # 0
    <3>1. src \in Source /\ stats[src].weight >= 100
      BY <2>2
    <3> HIDE DEF C
    <3>2. stats[src].weight \in Nat
      BY <1>1, <3>1
    <3> QED BY <3>1, <3>2
  <2> QED BY <2>3, <2>4
<1>3. BestFps(stats, FALSE) = stats[BestSource(stats, C)].hz
  BY <1>2 DEF BestFps
<1> HIDE DEF C
<1>4. BestSource(stats, C) \in C
  BY <1>2, BestExists
<1>5. stats[BestSource(stats, C)].hz \in Rate
  BY <1>2, <1>4
<1> QED BY <1>3, <1>5, RateAssumption

\* What a start remembers, whether it follows a stop or not.
Before(m, r) ==
  [(IF pc # "restore" THEN history ELSE NoHistory) EXCEPT
     !.starts = @ + 1, !.steady = Source, !.rates = @ \cup ({m, r} \ {NoRate})]
Hinted(r) == [src \in Source |-> IF src = FRH THEN r ELSE NoRate]

LEMMA SourceFinite ==
  ASSUME NEW W \in SUBSET Source
  PROVE  /\ Cardinality(W) \in Nat
         /\ W # {} => Cardinality(W) >= 1
<1>1. IsFiniteSet(Source)
  <2>1. IsFiniteSet(1..4)
    BY FS_Interval, 1 \in Int, 4 \in Int
  <2> QED BY <2>1 DEF Source, FRH, VDEC
<1>2. IsFiniteSet(W) /\ Cardinality(W) \in Nat
  BY <1>1, FS_Subset, FS_CardinalityType
<1>3. Cardinality(W) = 0 <=> W = {}
  BY <1>2, FS_EmptySet
<1> QED BY <1>2, <1>3

\* The samples of an attempt or a hint.
LEMMA TakeRemembers ==
  ASSUME NEW stats, NEW past \in HistoryType, NEW samples \in [Source -> Sample],
         NEW delays, Take(stats, past, samples, delays)
  PROVE  /\ history' \in HistoryType
         /\ history'.starts = past.starts /\ history'.rates = past.rates
         /\ history'.wrong >= past.wrong
         /\ \A src \in Source :
              /\ samples[src] = NoRate => history'.agreed[src] = past.agreed[src]
              /\ samples[src] # NoRate /\ Agrees(stats[src], samples[src])
                   => history'.agreed[src] = past.agreed[src] + 1
              /\ samples[src] # NoRate /\ ~Agrees(stats[src], samples[src])
                   => history'.agreed[src] = 1
              /\ samples[src] # NoRate /\ ~IsClose(samples[src], movie') /\ src # FRH
                   => history'.wrong >= past.wrong + 1
              /\ src \in history'.steady
                   => /\ src \in past.steady /\ samples[src] # NoRate
                      /\ IsClose(samples[src], movie')
<1> DEFINE given == {src \in Source : samples[src] # NoRate}
           right == {src \in given : IsClose(samples[src], movie')}
           W == given \ (right \cup {FRH})
           agreed == [src \in Source |->
                        IF src \notin given THEN past.agreed[src]
                        ELSE IF Agrees(stats[src], samples[src])
                        THEN past.agreed[src] + 1 ELSE 1]
<1>1. /\ history' = [past EXCEPT !.agreed = agreed, !.wrong = @ + Cardinality(W),
                                 !.steady = @ \cap right]
      /\ history'.wrong <= Errors
  BY DEF Take, Remember
<1>2. /\ past.agreed \in [Source -> Nat] /\ past.wrong \in Nat
      /\ past.starts \in 0..Starts /\ past.rates \in SUBSET Rate
      /\ past.steady \in SUBSET Source
  BY BoundsAssumption DEF HistoryType
<1>3. /\ history'.agreed = agreed /\ history'.wrong = past.wrong + Cardinality(W)
      /\ history'.starts = past.starts /\ history'.rates = past.rates
      /\ history'.steady = past.steady \cap right
  BY <1>1 DEF HistoryType
<1>4. agreed \in [Source -> Nat]
  BY <1>2
<1>5. W \in SUBSET Source
  OBVIOUS
<1>6. Cardinality(W) \in Nat /\ (W # {} => Cardinality(W) >= 1)
  BY <1>5, SourceFinite
<1>7. history' \in HistoryType
  <2>1. past.wrong + Cardinality(W) \in 0..Errors
    <3> HIDE DEF W
    <3> QED BY <1>1, <1>2, <1>3, <1>6, BoundsAssumption
  <2>2. past.steady \cap right \in SUBSET Source
    BY <1>2
  <2> HIDE DEF W, right, agreed, given
  <2> QED BY <1>1, <1>2, <1>4, <2>1, <2>2 DEF HistoryType
<1>8. /\ history'.wrong >= past.wrong
      /\ W # {} => history'.wrong >= past.wrong + 1
  <2> HIDE DEF W
  <2> QED BY <1>2, <1>3, <1>6
<1> QED BY <1>3, <1>7, <1>8

LEMMA TakeKeeps ==
  ASSUME NEW stats \in [Source -> Stat], NEW past \in HistoryType,
         WeightedStats(stats, past), NEW samples \in [Source -> Sample],
         NEW delays \in SUBSET (0..Fresh), Take(stats, past, samples, delays)
  PROVE  /\ StatTypeOK' /\ AllWeighted'
         /\ \A src \in Source :
              /\ samples[src] = NoRate =>
                   /\ hz_stat'[src].hz = stats[src].hz
                   /\ hz_stat'[src].weight = stats[src].weight
              /\ samples[src] # NoRate => hz_stat'[src].hz = samples[src]
<1>1. PICK d \in delays :
        hz_stat' = [src \in Source |->
                      AccumulateFps(Aged(stats[src], d), samples[src], src)]
  BY DEF Take
<1>2. d \in 0..Fresh /\ history' \in HistoryType
  BY TakeRemembers
<1>3. past.agreed \in [Source -> Nat] /\ history'.agreed \in [Source -> Nat]
  BY <1>2 DEF HistoryType
<1>4. ASSUME NEW src \in Source
      PROVE  /\ hz_stat'[src] \in Stat
             /\ Weighted(hz_stat'[src], history'.agreed[src], src)
             /\ samples[src] = NoRate =>
                  /\ hz_stat'[src].hz = stats[src].hz
                  /\ hz_stat'[src].weight = stats[src].weight
             /\ samples[src] # NoRate => hz_stat'[src].hz = samples[src]
  <2>1. /\ Aged(stats[src], d) \in Stat
        /\ Aged(stats[src], d).hz = stats[src].hz
        /\ Aged(stats[src], d).weight = stats[src].weight
    BY <1>2, AgedTyped
  <2>2. Weighted(Aged(stats[src], d), past.agreed[src], src)
    BY <2>1 DEF WeightedStats, Weighted
  <2>3. hz_stat'[src] = AccumulateFps(Aged(stats[src], d), samples[src], src)
    BY <1>1
  <2>4. Agrees(Aged(stats[src], d), samples[src]) <=> Agrees(stats[src], samples[src])
    BY <2>1 DEF Agrees
  <2>5. /\ samples[src] = NoRate => history'.agreed[src] = past.agreed[src]
        /\ samples[src] # NoRate /\ Agrees(stats[src], samples[src])
             => history'.agreed[src] = past.agreed[src] + 1
        /\ samples[src] # NoRate /\ ~Agrees(stats[src], samples[src])
             => history'.agreed[src] = 1
    BY TakeRemembers
  <2>6. /\ past.agreed[src] \in Nat /\ history'.agreed[src] \in Nat
        /\ samples[src] \in Sample
    BY <1>3
  <2>7. hz_stat'[src] \in Stat
    BY <2>1, <2>3, <2>6, AccumulateTyped
  <2>8. Weighted(hz_stat'[src], history'.agreed[src], src)
    BY <2>1, <2>2, <2>3, <2>4, <2>5, <2>6, AccumulateWeighted
  <2>9. /\ samples[src] = NoRate => hz_stat'[src] = Aged(stats[src], d)
        /\ samples[src] # NoRate => hz_stat'[src].hz = samples[src]
    BY <2>3 DEF AccumulateFps
  <2> QED BY <2>1, <2>7, <2>8, <2>9
<1>5. hz_stat' \in [Source -> Stat]
  BY <1>1, <1>4
<1> QED BY <1>4, <1>5 DEF StatTypeOK, AllWeighted, WeightedStats

LEMMA TakeFinds ==
  ASSUME NEW stats \in [Source -> Stat], NEW past \in HistoryType,
         WeightedStats(stats, past), NEW samples \in [Source -> Sample],
         NEW delays \in SUBSET (0..Fresh), Take(stats, past, samples, delays)
  PROVE  /\ hz' \in Sample /\ pc' \in {"detect", "found"}
         /\ pc' = "found" <=> hz' # NoRate
         /\ Confirmed'
<1>1. /\ hz' = BestFps(hz_stat', FALSE)
      /\ pc' = IF hz' = NoRate THEN "detect" ELSE "found"
  BY DEF Take
<1>2. StatTypeOK' /\ AllWeighted' /\ history'.agreed \in [Source -> Nat]
  BY TakeKeeps, TakeRemembers DEF HistoryType
<1>3. /\ hz' \in Sample
      /\ hz' # NoRate => \E src \in Source : hz_stat'[src].hz = hz'
                                            /\ hz_stat'[src].weight >= 100
  BY <1>1, <1>2, FoundHasWeight DEF StatTypeOK
<1>4. ASSUME pc' = "found"
      PROVE  \E src \in Source : hz_stat'[src].hz = hz'
                                 /\ history'.agreed[src] >= Needed[src]
  <2>1. PICK src \in Source : hz_stat'[src].hz = hz' /\ hz_stat'[src].weight >= 100
    BY <1>1, <1>3, <1>4
  <2>2. /\ hz_stat'[src].weight = history'.agreed[src] * src_weight[src]
        /\ history'.agreed[src] \in Nat
    BY <1>2 DEF AllWeighted, WeightedStats, Weighted
  <2>3. history'.agreed[src] >= Needed[src]
    BY <2>1, <2>2, EnoughAgreed
  <2> QED BY <2>1, <2>3
<1> QED BY <1>1, <1>3, <1>4 DEF Confirmed

-----------------------------------------------------------------------------
(* The inductive invariant *)

\* A rate is known exactly while one is in use.
RateKnown == pc \in {"found", "last"} <=> hz # NoRate

FpsInv == TypeOK /\ RateKnown /\ AllWeighted /\ Confirmed

LEMMA Typed ==
  TypeOK <=> /\ hz_stat \in [Source -> Stat] /\ hz \in Sample /\ movie \in Movies
             /\ pc \in {"idle", "restore", "detect", "found", "last", "over"}
             /\ attempt \in 0..Attempts /\ history \in HistoryType
  BY DEF TypeOK, Stat, Sample, HistoryType

LEMMA TypedNext ==
  TypeOK' <=> /\ hz_stat' \in [Source -> Stat] /\ hz' \in Sample /\ movie' \in Movies
              /\ pc' \in {"idle", "restore", "detect", "found", "last", "over"}
              /\ attempt' \in 0..Attempts /\ history' \in HistoryType
  BY DEF TypeOK, Stat, Sample, HistoryType

LEMMA ClearWeighted ==
  /\ Clear \in [Source -> Stat] /\ NoHistory \in HistoryType
  /\ WeightedStats(Clear, NoHistory)
<1>1. NoStat \in Stat /\ NoStat.weight = 0
  BY DEF NoStat, Stat, Sample, Fresh
<1>2. NoHistory \in HistoryType
  BY BoundsAssumption DEF NoHistory, HistoryType
<1>3. ASSUME NEW src \in Source
      PROVE  Weighted(Clear[src], NoHistory.agreed[src], src)
  BY <1>1, SourceWeights DEF Clear, Weighted, NoHistory
<1> QED BY <1>1, <1>2, <1>3 DEF Clear, WeightedStats

\* A start goes on from what was collected, or from nothing after a stop.
LEMMA StartsFrom ==
  ASSUME FpsInv, NEW m \in Movies, NEW r \in Sample, Start(m, r)
  PROVE  /\ Forget(FALSE) \in [Source -> Stat] /\ Before(m, r) \in HistoryType
         /\ WeightedStats(Forget(FALSE), Before(m, r))
         /\ m \in Before(m, r).rates /\ Before(m, r).rates \in SUBSET Rate
         /\ r # NoRate => r \in Before(m, r).rates
         /\ IF pc = "restore"
            THEN Forget(FALSE) = Clear /\ Before(m, r).agreed = NoHistory.agreed
            ELSE /\ Forget(FALSE) = hz_stat
                 /\ Before(m, r).agreed = history.agreed
                 /\ Before(m, r).wrong = history.wrong
                 /\ history.rates \subseteq Before(m, r).rates
         /\ r # NoRate => Take(Forget(FALSE), Before(m, r), Hinted(r), 0..Fresh)
         /\ Hinted(r) \in [Source -> Sample] /\ 0..Fresh \in SUBSET (0..Fresh)
         /\ Hinted(r)[FRH] = r
         /\ movie' = m /\ attempt' = 0
         /\ r = NoRate => /\ hz_stat' = Forget(FALSE) /\ history' = Before(m, r)
                          /\ hz' = IF pc # "restore" THEN hz ELSE NoRate
                          /\ pc' = IF hz' = NoRate THEN "detect"
                                   ELSE IF pc = "last" THEN "last" ELSE "found"
<1> DEFINE old == IF pc # "restore" THEN history ELSE NoHistory
           stats == IF pc # "restore" THEN hz_stat ELSE Clear
<1>1. /\ old \in HistoryType /\ stats \in [Source -> Stat] /\ WeightedStats(stats, old)
  BY Typed, ClearWeighted DEF FpsInv, AllWeighted
<1>2. Forget(FALSE) = stats
  BY DEF Forget
<1>3. old.starts < Starts
  BY DEF Start
<1>4. m \in Rate /\ m # NoRate
  BY RateAssumption
<1>5. /\ Before(m, r) = [old EXCEPT !.starts = old.starts + 1, !.steady = Source,
                           !.rates = old.rates \cup ({m, r} \ {NoRate})]
      /\ old.rates \cup ({m, r} \ {NoRate}) \in SUBSET Rate
      /\ old.starts + 1 \in 0..Starts
  <2>1. old.rates \in SUBSET Rate /\ old.starts \in 0..Starts
    BY <1>1 DEF HistoryType
  <2>2. old.starts + 1 \in 0..Starts
    <3> HIDE DEF old
    <3> QED BY <1>3, <2>1, BoundsAssumption
  <2>3. old.rates \cup ({m, r} \ {NoRate}) \in SUBSET Rate
    <3> HIDE DEF old
    <3> QED BY <1>4, <2>1 DEF Sample
  <2>4. Before(m, r) = [old EXCEPT !.starts = @ + 1, !.steady = Source,
                           !.rates = @ \cup ({m, r} \ {NoRate})]
    BY DEF Before
  <2> QED BY <2>2, <2>3, <2>4
<1>6. /\ Before(m, r) \in HistoryType
      /\ Before(m, r).agreed = old.agreed /\ Before(m, r).wrong = old.wrong
      /\ Before(m, r).rates = old.rates \cup ({m, r} \ {NoRate})
  <2> HIDE DEF old
  <2> QED BY <1>1, <1>5 DEF HistoryType
<1>7. WeightedStats(stats, Before(m, r))
  <2> HIDE DEF old, stats
  <2> QED BY <1>1, <1>6 DEF WeightedStats
<1>8. Hinted(r) \in [Source -> Sample] /\ Hinted(r)[FRH] = r
  BY Sources DEF Hinted, Sample
<1>9. movie' = m /\ attempt' = 0
  BY DEF Start
<1>10. r # NoRate => Take(Forget(FALSE), Before(m, r), Hinted(r), 0..Fresh)
  BY DEF Start, Before, Hinted
<1>11. r = NoRate => /\ hz_stat' = Forget(FALSE) /\ history' = Before(m, r)
                     /\ hz' = IF pc # "restore" THEN hz ELSE NoRate
                     /\ pc' = IF hz' = NoRate THEN "detect"
                              ELSE IF pc = "last" THEN "last" ELSE "found"
  BY DEF Start, Before
<1> QED BY <1>1, <1>2, <1>4, <1>5, <1>6, <1>7, <1>8, <1>9, <1>10, <1>11

LEMMA InitFps == Init => FpsInv
<1> SUFFICES ASSUME Init
             PROVE  FpsInv
  OBVIOUS
<1>1. TypeOK
  BY ClearWeighted, Typed, BoundsAssumption DEF Init, Sample
<1>2. AllWeighted
  BY ClearWeighted DEF Init, AllWeighted
<1>3. RateKnown /\ Confirmed
  BY DEF Init, RateKnown, Confirmed
<1> QED BY <1>1, <1>2, <1>3 DEF FpsInv

LEMMA StepFps == FpsInv /\ [Next]_vars => FpsInv'
<1> SUFFICES ASSUME FpsInv, [Next]_vars
             PROVE  FpsInv'
  OBVIOUS
<1>1. /\ hz_stat \in [Source -> Stat] /\ history \in HistoryType /\ hz \in Sample
      /\ movie \in Movies /\ attempt \in 0..Attempts /\ RateKnown
      /\ pc \in {"idle", "restore", "detect", "found", "last", "over"}
      /\ AllWeighted /\ WeightedStats(hz_stat, history) /\ Confirmed
  BY Typed DEF FpsInv, AllWeighted
<1>2. ASSUME NEW m \in Movies, NEW r \in Sample, Start(m, r)
      PROVE  FpsInv'
  <2>1. movie' \in Movies /\ attempt' \in 0..Attempts
    <3>1. movie' = m /\ attempt' = 0
      BY <1>2 DEF Start
    <3> QED BY <3>1, BoundsAssumption
  <2>2. CASE r = NoRate
    <3>1. /\ hz_stat' = Forget(FALSE) /\ history' = Before(m, r)
          /\ hz' = IF pc # "restore" THEN hz ELSE NoRate
          /\ pc' = IF hz' = NoRate THEN "detect"
                   ELSE IF pc = "last" THEN "last" ELSE "found"
      BY <1>2, <2>2, StartsFrom
    <3>2. hz_stat' \in [Source -> Stat] /\ history' \in HistoryType /\ AllWeighted'
      BY <1>2, <3>1, StartsFrom DEF AllWeighted
    <3>3. TypeOK' /\ RateKnown'
      BY <1>1, <2>1, <3>1, <3>2, TypedNext DEF RateKnown, Sample
    <3>4. Confirmed'
      <4>1. CASE hz' = NoRate
        BY <3>1, <4>1 DEF Confirmed
      <4>2. CASE hz' # NoRate
        <5>1. /\ pc \in {"found", "last"} /\ hz' = hz /\ pc' = pc
          BY <1>1, <3>1, <4>2 DEF RateKnown
        <5>2. hz_stat' = hz_stat /\ history'.agreed = history.agreed
          BY <1>2, <3>1, <5>1, StartsFrom
        <5> QED BY <1>1, <5>1, <5>2 DEF Confirmed
      <4> QED BY <4>1, <4>2
    <3> QED BY <3>2, <3>3, <3>4 DEF FpsInv
  <2>3. CASE r # NoRate
    <3>1. /\ Forget(FALSE) \in [Source -> Stat] /\ Before(m, r) \in HistoryType
          /\ WeightedStats(Forget(FALSE), Before(m, r))
          /\ Hinted(r) \in [Source -> Sample] /\ 0..Fresh \in SUBSET (0..Fresh)
          /\ Take(Forget(FALSE), Before(m, r), Hinted(r), 0..Fresh)
      BY <1>2, <2>3, StartsFrom
    <3>2. StatTypeOK' /\ AllWeighted' /\ history' \in HistoryType
      BY <3>1, TakeKeeps, TakeRemembers
    <3>3. hz' \in Sample /\ pc' \in {"detect", "found"} /\ RateKnown' /\ Confirmed'
      BY <3>1, TakeFinds DEF RateKnown
    <3>4. TypeOK'
      BY <2>1, <3>2, <3>3, TypedNext DEF StatTypeOK
    <3> QED BY <3>2, <3>3, <3>4 DEF FpsInv
  <2> QED BY <2>2, <2>3
<1>3. ASSUME NEW chunks \in Sample, NEW blocks \in Sample, NEW vdec \in Sample,
             Attempt(chunks, blocks, vdec)
      PROVE  FpsInv'
  <2> DEFINE samples == <<NoRate, chunks, blocks, vdec>>
  <2>1. samples \in [Source -> Sample] /\ 1..Fresh \in SUBSET (0..Fresh)
    BY Sources DEF Sample
  <2>2. /\ Take(hz_stat, history, samples, 1..Fresh) /\ attempt' = attempt + 1
        /\ attempt < Attempts /\ movie' = movie
    BY <1>3 DEF Attempt
  <2> HIDE DEF samples
  <2>3. StatTypeOK' /\ AllWeighted' /\ history' \in HistoryType
    BY <1>1, <2>1, <2>2, TakeKeeps, TakeRemembers
  <2>4. hz' \in Sample /\ pc' \in {"detect", "found"} /\ RateKnown' /\ Confirmed'
    BY <1>1, <2>1, <2>2, TakeFinds DEF RateKnown
  <2>5. attempt' \in 0..Attempts /\ movie' \in Movies
    BY <1>1, <2>2, BoundsAssumption
  <2>6. TypeOK'
    BY <2>3, <2>4, <2>5, TypedNext DEF StatTypeOK
  <2> QED BY <2>3, <2>4, <2>6 DEF FpsInv
<1>4. ASSUME Ignored
      PROVE  FpsInv'
  <2>1. /\ hz_stat' = hz_stat /\ hz' = hz /\ attempt' = attempt /\ movie' = movie
        /\ history' = history /\ pc = "restore" /\ pc' = "idle"
    BY <1>4 DEF Ignored
  <2> QED BY <1>1, <2>1, TypedNext DEF FpsInv, RateKnown, AllWeighted, Confirmed
<1>5. ASSUME hz' = NoRate, pc' \in {"idle", "restore", "over"}, movie' = movie,
             attempt' = attempt,
             \/ hz_stat' = Clear /\ history' = NoHistory
             \/ hz_stat' = hz_stat /\ history' = history
      PROVE  FpsInv'
  <2>1. hz_stat' \in [Source -> Stat] /\ history' \in HistoryType /\ AllWeighted'
    BY <1>1, <1>5, ClearWeighted DEF AllWeighted
  <2> QED BY <1>1, <1>5, <2>1, TypedNext DEF FpsInv, RateKnown, Confirmed, Sample
<1>6. ASSUME Restored \/ Stop
      PROVE  FpsInv'
  <2>1. CASE Restored
    BY <1>5, <2>1 DEF Restored
  <2>2. CASE Stop /\ pc # "restore"
    BY <1>5, <2>2 DEF Stop, Forget
  <2>3. CASE Stop /\ pc = "restore"
    <3>1. hz = NoRate
      BY <1>1, <2>3 DEF RateKnown
    <3> QED BY <1>5, <2>3, <3>1 DEF Stop, Forget
  <2> QED BY <1>6, <2>1, <2>2, <2>3
<1>7. ASSUME LastChance
      PROVE  FpsInv'
  <2>1. /\ hz' = BestFps(hz_stat, TRUE) /\ attempt' = attempt /\ movie' = movie
        /\ pc' = IF hz' = NoRate THEN "over" ELSE "last"
        /\ \/ hz_stat' = hz_stat /\ history' = history
           \/ pc' = "over" /\ hz_stat' = Clear /\ history' = NoHistory
    BY <1>7 DEF LastChance
  <2>2. CASE hz' = NoRate
    BY <1>5, <2>1, <2>2
  <2>3. CASE hz' # NoRate
    <3>1. hz_stat' = hz_stat /\ history' = history /\ pc' = "last"
      BY <2>1, <2>3
    <3>2. hz' \in Sample
      BY <1>1, <2>1, FoundHasWeight
    <3>3. PICK src \in Source : hz_stat[src].hz = hz' /\ hz_stat[src].weight * 2 >= 100
      BY <1>1, <2>1, <2>3, FoundHasWeight
    <3>4. /\ hz_stat[src].weight = history.agreed[src] * src_weight[src]
          /\ history.agreed[src] \in Nat
      BY <1>1 DEF WeightedStats, Weighted, HistoryType
    <3>5. 2 * history.agreed[src] >= Needed[src]
      BY <3>3, <3>4, EnoughAgreed
    <3>6. Confirmed'
      BY <3>1, <3>3, <3>5 DEF Confirmed
    <3>7. TypeOK' /\ RateKnown' /\ AllWeighted'
      BY <1>1, <2>1, <2>3, <3>1, <3>2, TypedNext DEF RateKnown, AllWeighted
    <3> QED BY <3>6, <3>7 DEF FpsInv
  <2> QED BY <2>2, <2>3
<1>8. ASSUME UNCHANGED vars
      PROVE  FpsInv'
  BY <1>8 DEF vars, FpsInv, TypeOK, RateKnown, AllWeighted, Confirmed
<1> QED BY <1>2, <1>3, <1>4, <1>6, <1>7, <1>8 DEF Next, Sample

LEMMA AlwaysFps == Spec => []FpsInv
  BY InitFps, StepFps, PTL DEF Spec

\* The statistics of every source stay in range over any number of movies.
THEOREM TypeCorrect == Spec => []TypeOK
<1>1. FpsInv => TypeOK
  BY DEF FpsInv
<1> QED BY <1>1, AlwaysFps, PTL

\* A rate in use has been given, since a decoder last stopped, as often as its source
\* is reliable: best_fps relies on weights only, and a start without a stop before it
\* keeps them.
THEOREM EnoughConfirmations == Spec => []Confirmed
<1>1. FpsInv => Confirmed
  BY DEF FpsInv
<1> QED BY <1>1, AlwaysFps, PTL

\* A sample of the first source is enough.
LEMMA TakesHint ==
  ASSUME NEW stats \in [Source -> Stat], NEW past \in HistoryType,
         WeightedStats(stats, past), NEW samples \in [Source -> Sample],
         NEW delays \in SUBSET (0..Fresh), Take(stats, past, samples, delays),
         samples[FRH] # NoRate
  PROVE  pc' = "found"
<1>1. StatTypeOK' /\ AllWeighted' /\ history'.agreed \in [Source -> Nat]
  BY TakeKeeps, TakeRemembers DEF HistoryType
<1>2. history'.agreed[FRH] >= 1
  <2>1. past.agreed[FRH] \in Nat
    BY Sources DEF HistoryType
  <2>2. history'.agreed[FRH] = past.agreed[FRH] + 1 \/ history'.agreed[FRH] = 1
    BY Sources, TakeRemembers
  <2> QED BY <2>1, <2>2
<1>3. hz_stat'[FRH].weight >= 100
  <2>1. hz_stat'[FRH].weight = history'.agreed[FRH] * 100
    BY <1>1, Sources, SourceWeights DEF AllWeighted, WeightedStats, Weighted
  <2>2. history'.agreed[FRH] \in Nat
    BY <1>1, Sources
  <2> QED BY <1>2, <2>1, <2>2
<1>4. BestFps(hz_stat', FALSE) # NoRate
  BY <1>1, <1>3, HintFound DEF StatTypeOK, AllWeighted, WeightedStats, Weighted
<1> QED BY <1>4 DEF Take

\* A hint ends the detection at once, whatever was collected before it.
THEOREM HintIsUsable == Spec => HintUsableAtOnce
<1>1. FpsInv /\ [Next]_vars
        => [history'.agreed[FRH] > history.agreed[FRH] => pc' = "found"]_vars
  <2> SUFFICES ASSUME FpsInv, Next, history'.agreed[FRH] > history.agreed[FRH]
               PROVE  pc' = "found"
    OBVIOUS
  <2>1. /\ history.agreed[FRH] \in Nat /\ hz_stat \in [Source -> Stat]
        /\ history \in HistoryType /\ WeightedStats(hz_stat, history)
        /\ NoHistory.agreed[FRH] = 0
    BY Sources, Typed DEF FpsInv, HistoryType, AllWeighted, NoHistory
  <2>2. ASSUME NEW m \in Movies, NEW r \in Sample, Start(m, r)
        PROVE  pc' = "found"
    <3>1. CASE r = NoRate
      <4>1. history'.agreed \in {history.agreed, NoHistory.agreed}
        BY <2>2, <3>1, StartsFrom
      <4> QED BY <2>1, <4>1
    <3>2. CASE r # NoRate
      BY <2>2, <3>2, StartsFrom, TakesHint
    <3> QED BY <3>1, <3>2
  <2>3. ASSUME NEW chunks \in Sample, NEW blocks \in Sample, NEW vdec \in Sample,
               Attempt(chunks, blocks, vdec)
        PROVE  FALSE
    <3> DEFINE samples == <<NoRate, chunks, blocks, vdec>>
    <3>1. /\ samples[FRH] = NoRate /\ samples \in [Source -> Sample]
          /\ Take(hz_stat, history, samples, 1..Fresh)
      BY <2>3, Sources DEF Attempt, Sample
    <3> HIDE DEF samples
    <3>2. history'.agreed[FRH] = history.agreed[FRH]
      BY <2>1, <3>1, Sources, TakeRemembers
    <3> QED BY <2>1, <3>2
  <2>4. ASSUME Ignored \/ Restored \/ LastChance \/ Stop
        PROVE  FALSE
    <3>1. history' \in {history, NoHistory}
      BY <2>4 DEF Ignored, Restored, LastChance, Stop
    <3> QED BY <2>1, <3>1
  <2> QED BY <2>2, <2>3, <2>4 DEF Next, Sample
<1> QED BY <1>1, AlwaysFps, PTL DEF Spec, HintUsableAtOnce

-----------------------------------------------------------------------------
(* Wrong samples and steady sources *)

CloseToSome(r, rates) == \E s \in rates : IsClose(r, s)

\* A source that speaks of another rate than that of every movie and hint since the
\* last stop has been wrong once for every sample it has in agreement.
Counted(stats, past) ==
  \A src \in Source :
    stats[src].weight # 0 /\ ~CloseToSome(stats[src].hz, past.rates) =>
      src # FRH /\ past.agreed[src] <= past.wrong
ErrorsCounted == Counted(hz_stat, history)

\* A source that was right at every attempt since the last start has agreed with
\* itself at every one.
SteadyAgrees ==
  pc = "detect" =>
    /\ movie \in history.rates
    /\ attempt >= 1 => \A src \in history.steady :
         IsClose(hz_stat[src].hz, movie) /\ history.agreed[src] >= attempt

TruthInv == ErrorsCounted /\ OneErrorHarmless /\ SteadyAgrees

LEMMA CloseIsEquivalence ==
  ASSUME NEW r \in Rate, NEW s \in Rate, NEW t \in Rate
  PROVE  /\ IsClose(r, r)
         /\ IsClose(r, s) => IsClose(s, r)
         /\ IsClose(r, s) /\ IsClose(s, t) => IsClose(r, t)
  BY CloseAssumption DEF IsClose

\* A rate found with time left was confirmed more often than the driver has erred.
LEMMA TakeTruthful ==
  ASSUME NEW stats \in [Source -> Stat], NEW past \in HistoryType,
         WeightedStats(stats, past), Counted(stats, past),
         NEW samples \in [Source -> Sample], NEW delays \in SUBSET (0..Fresh),
         Take(stats, past, samples, delays), movie' \in past.rates,
         samples[FRH] # NoRate => samples[FRH] \in past.rates
  PROVE  ErrorsCounted' /\ OneErrorHarmless'
<1>1. /\ StatTypeOK' /\ AllWeighted' /\ history' \in HistoryType
      /\ history'.rates = past.rates /\ history'.wrong >= past.wrong
      /\ history'.agreed \in [Source -> Nat] /\ history'.wrong \in Nat
      /\ past.agreed \in [Source -> Nat] /\ past.wrong \in Nat
      /\ past.rates \in SUBSET Rate
  BY TakeKeeps, TakeRemembers, BoundsAssumption DEF HistoryType
<1>2. ASSUME NEW src \in Source, hz_stat'[src].weight # 0,
             ~CloseToSome(hz_stat'[src].hz, history'.rates)
      PROVE  src # FRH /\ history'.agreed[src] <= history'.wrong
  <2>1. /\ history'.agreed[src] \in Nat /\ past.agreed[src] \in Nat
        /\ samples[src] \in Sample
    BY <1>1
  <2>2. CASE samples[src] = NoRate
    <3>1. stats[src].weight # 0 /\ ~CloseToSome(stats[src].hz, past.rates)
      BY <1>1, <1>2, <2>2, TakeKeeps
    <3>2. src # FRH /\ past.agreed[src] <= past.wrong
      BY <3>1 DEF Counted
    <3>3. history'.agreed[src] = past.agreed[src]
      BY <2>2, TakeRemembers
    <3> QED BY <1>1, <2>1, <3>2, <3>3
  <2>3. CASE samples[src] # NoRate
    <3>1. samples[src] \in Rate /\ ~CloseToSome(samples[src], past.rates)
      BY <1>1, <1>2, <2>1, <2>3, TakeKeeps DEF Sample
    <3>2. src # FRH
      BY <1>1, <2>3, <3>1, CloseIsEquivalence DEF CloseToSome
    <3>3. history'.wrong >= past.wrong + 1
      BY <2>3, <3>1, <3>2, TakeRemembers DEF CloseToSome
    <3>4. CASE Agrees(stats[src], samples[src])
      <4>1. stats[src].weight # 0 /\ stats[src].hz \in Rate
            /\ IsClose(samples[src], stats[src].hz)
        BY <3>4 DEF Agrees, WeightedStats, Weighted
      <4>2. ~CloseToSome(stats[src].hz, past.rates)
        BY <1>1, <3>1, <4>1, CloseIsEquivalence DEF CloseToSome
      <4>3. past.agreed[src] <= past.wrong
        BY <4>1, <4>2 DEF Counted
      <4>4. history'.agreed[src] = past.agreed[src] + 1
        BY <2>3, <3>4, TakeRemembers
      <4> QED BY <1>1, <2>1, <3>2, <3>3, <4>3, <4>4
    <3>5. CASE ~Agrees(stats[src], samples[src])
      <4>1. history'.agreed[src] = 1
        BY <2>3, <3>5, TakeRemembers
      <4> QED BY <1>1, <3>2, <3>3, <4>1
    <3> QED BY <3>4, <3>5
  <2> QED BY <2>2, <2>3
<1>3. ErrorsCounted'
  BY <1>2 DEF ErrorsCounted, Counted
<1>4. ASSUME pc' = "found", history'.wrong <= 1, ~CloseToSome(hz', history'.rates)
      PROVE  FALSE
  <2>1. hz' = BestFps(hz_stat', FALSE) /\ hz' # NoRate
    BY <1>4 DEF Take
  <2>2. PICK src \in Source : hz_stat'[src].hz = hz' /\ hz_stat'[src].weight >= 100
    BY <1>1, <2>1, FoundHasWeight DEF StatTypeOK
  <2>3. hz_stat'[src].weight = history'.agreed[src] * src_weight[src]
    BY <1>1 DEF AllWeighted, WeightedStats, Weighted
  <2>4. history'.agreed[src] \in Nat
    BY <1>1
  <2>5. history'.agreed[src] >= src
    BY <2>2, <2>3, <2>4, EnoughAgreed DEF Needed
  <2>6. hz_stat'[src].weight # 0
    BY <1>1, <2>2 DEF StatTypeOK, Stat
  <2>7. src # FRH /\ history'.agreed[src] <= history'.wrong
    BY <1>2, <1>4, <2>2, <2>6
  <2>8. src >= 2
    BY <2>7, Sources
  <2> QED BY <1>1, <1>4, <2>4, <2>5, <2>7, <2>8, Sources
<1> QED BY <1>3, <1>4 DEF OneErrorHarmless, CloseToSome

LEMMA InitTruth == Init => TruthInv
<1> SUFFICES ASSUME Init
             PROVE  TruthInv
  OBVIOUS
<1>1. ErrorsCounted
  BY DEF Init, ErrorsCounted, Counted, Clear, NoStat
<1> QED BY <1>1 DEF Init, TruthInv, OneErrorHarmless, SteadyAgrees

LEMMA StepTruth == FpsInv /\ TruthInv /\ [Next]_vars => TruthInv'
<1> SUFFICES ASSUME FpsInv, TruthInv, [Next]_vars
             PROVE  TruthInv'
  OBVIOUS
<1>1. /\ hz_stat \in [Source -> Stat] /\ history \in HistoryType /\ movie \in Rate
      /\ attempt \in Nat /\ WeightedStats(hz_stat, history) /\ RateKnown
      /\ Counted(hz_stat, history) /\ ErrorsCounted /\ OneErrorHarmless /\ SteadyAgrees
      /\ history.agreed \in [Source -> Nat] /\ history.steady \in SUBSET Source
  BY Typed, RateAssumption, BoundsAssumption
     DEF FpsInv, AllWeighted, TruthInv, ErrorsCounted, HistoryType
<1>2. Counted(Clear, NoHistory)
  BY DEF Counted, Clear, NoStat
<1>3. ASSUME NEW m \in Movies, NEW r \in Sample, Start(m, r)
      PROVE  TruthInv'
  <2>1. Counted(Forget(FALSE), Before(m, r))
    <3>1. CASE pc = "restore"
      <4>1. Forget(FALSE) = Clear
        BY <1>3, <3>1, StartsFrom
      <4>2. \A src \in Source : Clear[src].weight = 0
        BY DEF Clear, NoStat
      <4> QED BY <4>1, <4>2 DEF Counted
    <3>2. CASE pc # "restore"
      <4>1. /\ Forget(FALSE) = hz_stat /\ Before(m, r).agreed = history.agreed
            /\ Before(m, r).wrong = history.wrong
            /\ history.rates \subseteq Before(m, r).rates
        BY <1>3, <3>2, StartsFrom
      <4> QED BY <1>1, <4>1 DEF Counted, CloseToSome
    <3> QED BY <3>1, <3>2
  <2>2. movie' = m /\ attempt' = 0 /\ m \in Before(m, r).rates
    BY <1>3, StartsFrom
  <2>3. CASE r = NoRate
    <3>1. /\ hz_stat' = Forget(FALSE) /\ history' = Before(m, r)
          /\ hz' = IF pc # "restore" THEN hz ELSE NoRate
          /\ pc' = IF hz' = NoRate THEN "detect"
                   ELSE IF pc = "last" THEN "last" ELSE "found"
      BY <1>3, <2>3, StartsFrom
    <3>2. ErrorsCounted'
      BY <2>1, <3>1 DEF ErrorsCounted, Counted
    <3>4. SteadyAgrees'
      BY <2>2, <3>1 DEF SteadyAgrees
    <3>3. OneErrorHarmless'
      <4>1. SUFFICES ASSUME pc' = "found", history'.wrong <= 1
                     PROVE  \E s \in history'.rates : IsClose(hz', s)
        BY DEF OneErrorHarmless
      <4>2. pc = "found" /\ hz' = hz
        BY <1>1, <3>1, <4>1 DEF RateKnown
      <4>3. history'.wrong = history.wrong /\ history.rates \subseteq history'.rates
        BY <1>3, <3>1, <4>2, StartsFrom
      <4> QED BY <1>1, <4>1, <4>2, <4>3 DEF OneErrorHarmless
    <3> QED BY <3>2, <3>3, <3>4 DEF TruthInv
  <2>4. CASE r # NoRate
    <3>1. /\ Forget(FALSE) \in [Source -> Stat] /\ Before(m, r) \in HistoryType
          /\ WeightedStats(Forget(FALSE), Before(m, r)) /\ r \in Before(m, r).rates
          /\ Hinted(r) \in [Source -> Sample] /\ 0..Fresh \in SUBSET (0..Fresh)
          /\ Take(Forget(FALSE), Before(m, r), Hinted(r), 0..Fresh)
          /\ Hinted(r)[FRH] = r
      BY <1>3, <2>4, StartsFrom
    <3>2. ErrorsCounted' /\ OneErrorHarmless'
      BY <2>1, <2>2, <3>1, TakeTruthful
    <3>3. pc' = "found"
      BY <2>4, <3>1, TakesHint
    <3> QED BY <3>2, <3>3 DEF TruthInv, SteadyAgrees
  <2> QED BY <2>3, <2>4
<1>4. ASSUME NEW chunks \in Sample, NEW blocks \in Sample, NEW vdec \in Sample,
             Attempt(chunks, blocks, vdec)
      PROVE  TruthInv'
  <2> DEFINE samples == <<NoRate, chunks, blocks, vdec>>
  <2>1. /\ samples \in [Source -> Sample] /\ 1..Fresh \in SUBSET (0..Fresh)
        /\ samples[FRH] = NoRate
    BY Sources DEF Sample
  <2>2. /\ Take(hz_stat, history, samples, 1..Fresh) /\ attempt' = attempt + 1
        /\ pc = "detect" /\ movie' = movie
    BY <1>4 DEF Attempt
  <2> HIDE DEF samples
  <2>3. movie' \in history.rates
    BY <1>1, <2>2 DEF SteadyAgrees
  <2>4. ErrorsCounted' /\ OneErrorHarmless'
    BY <1>1, <2>1, <2>2, <2>3, TakeTruthful
  <2>5. history'.rates = history.rates /\ history' \in HistoryType
    BY <1>1, <2>1, <2>2, TakeRemembers
  <2>6. ASSUME NEW src \in history'.steady
        PROVE  IsClose(hz_stat'[src].hz, movie') /\ history'.agreed[src] >= attempt'
    <3>1. src \in Source
      BY <2>5 DEF HistoryType
    <3>2. src \in history.steady /\ samples[src] # NoRate /\ IsClose(samples[src], movie)
      BY <1>1, <2>1, <2>2, <3>1, TakeRemembers
    <3>3. hz_stat'[src].hz = samples[src] /\ samples[src] \in Rate
      BY <1>1, <2>1, <2>2, <3>1, <3>2, TakeKeeps DEF Sample
    <3>4. history.agreed[src] \in Nat
      BY <1>1, <3>1
    <3>5. /\ Agrees(hz_stat[src], samples[src])
               => history'.agreed[src] = history.agreed[src] + 1
          /\ ~Agrees(hz_stat[src], samples[src]) => history'.agreed[src] = 1
      BY <1>1, <2>1, <2>2, <3>1, <3>2, TakeRemembers
    <3>6. CASE attempt = 0
      BY <2>2, <3>2, <3>3, <3>4, <3>5, <3>6
    <3>7. CASE attempt >= 1
      <4>1. IsClose(hz_stat[src].hz, movie) /\ history.agreed[src] >= attempt
        BY <1>1, <2>2, <3>2, <3>7 DEF SteadyAgrees
      <4>2. /\ hz_stat[src].weight = history.agreed[src] * src_weight[src]
            /\ hz_stat[src].weight # 0 => hz_stat[src].hz \in Rate
        BY <1>1, <3>1 DEF WeightedStats, Weighted
      <4>3. hz_stat[src].weight # 0
        BY <1>1, <3>1, <3>4, <3>7, <4>1, <4>2, AgreedWeighs
      <4>4. Agrees(hz_stat[src], samples[src])
        BY <1>1, <3>2, <3>3, <4>1, <4>2, <4>3, CloseIsEquivalence DEF Agrees
      <4> QED BY <1>1, <2>2, <3>2, <3>3, <3>4, <3>5, <4>1, <4>4
    <3> QED BY <1>1, <3>6, <3>7
  <2>7. SteadyAgrees'
    BY <2>3, <2>5, <2>6 DEF SteadyAgrees
  <2> QED BY <2>4, <2>7 DEF TruthInv
<1>5. ASSUME pc' \in {"idle", "restore", "over", "last"},
             \/ hz_stat' = Clear /\ history' = NoHistory
             \/ hz_stat' = hz_stat /\ history' = history
      PROVE  TruthInv'
  BY <1>1, <1>2, <1>5 DEF TruthInv, ErrorsCounted, OneErrorHarmless, SteadyAgrees
<1>6. ASSUME Ignored \/ Restored \/ LastChance \/ Stop
      PROVE  TruthInv'
  <2>1. CASE Ignored
    BY <1>5, <2>1 DEF Ignored
  <2>2. CASE Restored
    BY <1>5, <2>2 DEF Restored
  <2>3. CASE LastChance
    BY <1>5, <2>3 DEF LastChance
  <2>4. CASE Stop
    BY <1>5, <2>4 DEF Stop, Forget
  <2> QED BY <1>6, <2>1, <2>2, <2>3, <2>4
<1>7. ASSUME UNCHANGED vars
      PROVE  TruthInv'
  BY <1>7 DEF vars, TruthInv, ErrorsCounted, Counted, OneErrorHarmless, SteadyAgrees
<1> QED BY <1>3, <1>4, <1>6, <1>7 DEF Next, Sample

LEMMA AlwaysTruth == Spec => []TruthInv
  BY InitTruth, StepTruth, AlwaysFps, PTL DEF Spec

\* However many confirmations were reached by mistaking 23.976 for 24, one wrong
\* sample does not make best_fps choose, while there is time, a rate that no movie
\* and no hint since the last stop had.
THEOREM OneErrorDoesNoHarm == Spec => []OneErrorHarmless
<1>1. TruthInv => OneErrorHarmless
  BY DEF TruthInv
<1> QED BY <1>1, AlwaysTruth, PTL

\* On the last chance a source that is more than half sure is outweighed only by one
\* that is, too, which one wrong sample does not make it.
LEMMA LastChanceFinds ==
  ASSUME FpsInv, TruthInv, history.wrong <= 1, NEW src \in Source,
         hz_stat[src].weight * 2 > 100
  PROVE  /\ BestFps(hz_stat, TRUE) # NoRate
         /\ CloseToSome(BestFps(hz_stat, TRUE), history.rates)
<1> DEFINE C == Candidates(hz_stat, TRUE)
           best == BestSource(hz_stat, C)
<1>1. /\ hz_stat \in [Source -> Stat] /\ WeightedStats(hz_stat, history)
      /\ history.agreed \in [Source -> Nat] /\ history.wrong \in Nat
      /\ \A other \in Source : hz_stat[other].weight \in Nat
  BY Typed, BoundsAssumption DEF FpsInv, AllWeighted, HistoryType, Stat
<1>2. /\ C = {other \in Source : hz_stat[other].weight * 2 >= 100}
      /\ C \subseteq Source /\ src \in C
  <2>1. C = {other \in Source : hz_stat[other].weight * 2 >= 100}
    BY DEF Candidates, ACCEPT_HZ_WEIGHT
  <2>2. hz_stat[src].weight * 2 >= 100
    BY <1>1
  <2> QED BY <2>1, <2>2
<1>3. BestFps(hz_stat, TRUE) = hz_stat[best].hz
  BY <1>2 DEF BestFps
<1> HIDE DEF C
<1>4. best \in C /\ hz_stat[best].weight >= hz_stat[src].weight
  BY <1>1, <1>2, BestExists
<1> HIDE DEF best
<1>5. /\ best \in Source /\ hz_stat[best].weight * 2 > 100
      /\ hz_stat[best].weight # 0 /\ history.agreed[best] \in Nat
  BY <1>1, <1>2, <1>4
<1>6. /\ hz_stat[best].weight = history.agreed[best] * src_weight[best]
      /\ hz_stat[best].hz \in Rate
  BY <1>1, <1>5 DEF WeightedStats, Weighted
<1>7. CloseToSome(hz_stat[best].hz, history.rates)
  <2>1. SUFFICES ASSUME ~CloseToSome(hz_stat[best].hz, history.rates)
                 PROVE  FALSE
    OBVIOUS
  <2>2. best # FRH /\ history.agreed[best] <= history.wrong
    BY <1>5, <2>1 DEF TruthInv, ErrorsCounted, Counted
  <2>3. history.agreed[best] <= 1
    BY <1>1, <1>5, <2>2
  <2>4. hz_stat[best].weight * 2 <= 100
    BY <1>5, <1>6, <2>2, <2>3, AgreedWeighs
  <2>5. hz_stat[best].weight \in Nat
    BY <1>1, <1>5
  <2> QED BY <1>5, <2>4, <2>5
<1> QED BY <1>3, <1>6, <1>7, RateAssumption

\* Any file, right at every attempt since the last start and more than half sure, is
\* enough in the end, although another one errs once, whoever is waited for.
THEOREM SteadySourceIsEnough == Spec => SteadySourceSucceeds
<1> DEFINE Steady ==
      /\ pc = "detect" /\ pc' \in {"last", "over"} /\ history.wrong <= 1
      /\ \E src \in history.steady : 2 * attempt * src_weight[src] > ACCEPT_HZ_WEIGHT
<1>1. FpsInv /\ TruthInv /\ [Next]_vars
        => [Steady => pc' = "last" /\ \E r \in history.rates : IsClose(hz', r)]_vars
  <2> SUFFICES ASSUME FpsInv, TruthInv, Next, Steady
               PROVE  pc' = "last" /\ \E r \in history.rates : IsClose(hz', r)
    OBVIOUS
  <2>1. LastChance
    <3>1. ASSUME NEW m \in Movies, NEW r \in Sample, Start(m, r)
          PROVE  FALSE
      <4>1. pc' \in {"detect", "found"}
        BY <3>1 DEF Start, Take
      <4> QED BY <4>1
    <3>2. ASSUME NEW chunks \in Sample, NEW blocks \in Sample, NEW vdec \in Sample,
                 Attempt(chunks, blocks, vdec)
          PROVE  FALSE
      BY <3>2 DEF Attempt, Take
    <3>3. ~Ignored /\ ~Restored /\ ~Stop
      BY DEF Ignored, Restored, Stop
    <3> QED BY <3>1, <3>2, <3>3 DEF Next, Sample
  <2>2. PICK src \in history.steady : 2 * attempt * src_weight[src] > ACCEPT_HZ_WEIGHT
    OBVIOUS
  <2>3. /\ src \in Source /\ attempt \in Nat /\ history.agreed[src] \in Nat
        /\ WeightedStats(hz_stat, history)
    BY Typed, BoundsAssumption DEF FpsInv, HistoryType, AllWeighted
  <2>4. attempt >= 1
    <3>1. 2 * 0 * src_weight[src] = 0
      BY <2>3, SourceWeights
    <3> QED BY <2>2, <2>3, <3>1 DEF ACCEPT_HZ_WEIGHT
  <2>5. history.agreed[src] >= attempt
    BY <2>4 DEF TruthInv, SteadyAgrees
  <2>6. hz_stat[src].weight * 2 > 100
    <3>1. hz_stat[src].weight = history.agreed[src] * src_weight[src]
      BY <2>3 DEF WeightedStats, Weighted
    <3> QED BY <2>2, <2>3, <2>5, <3>1, AgreedWeighs DEF ACCEPT_HZ_WEIGHT
  <2>7. /\ BestFps(hz_stat, TRUE) # NoRate
        /\ CloseToSome(BestFps(hz_stat, TRUE), history.rates)
    BY <2>3, <2>6, LastChanceFinds
  <2> QED BY <2>1, <2>7 DEF LastChance, CloseToSome
<1>2. ASSUME FpsInv, TruthInv, [Next]_vars
      PROVE  [/\ pc = "detect" /\ pc' \in {"last", "over"} /\ history.wrong <= 1
              /\ \E src \in history.steady :
                   2 * attempt * src_weight[src] > ACCEPT_HZ_WEIGHT
              => pc' = "last" /\ \E r \in history.rates : IsClose(hz', r)]_vars
  BY <1>1, <1>2
<1> QED BY <1>2, AlwaysFps, AlwaysTruth, PTL DEF Spec, SteadySourceSucceeds
=============================================================================
