---------------------------- MODULE CatalogueProofs ----------------------------
(***************************************************************************)
(* Theorems about the decisions the pipeline keeps, and what is read of    *)
(* them, for any files, names, targets and policies, and any faults.       *)
(***************************************************************************)
EXTENDS CatalogueViews, SequenceTheorems, FiniteLemmas

--------------------------------------------------------------------------------
(* The engine.                                                               *)

LEMMA TargetTypes == Target \subseteq Nat \ {0} /\ IsFiniteSet(Target)
  <1>1. Target = 1 .. Len(Episode) /\ Len(Episode) \in Nat
    BY MatchingAssumption DEF Target
  <1>2. IsFiniteSet(1 .. Len(Episode))
    BY <1>1, FS_Interval
  <1>3. 1 .. Len(Episode) \subseteq Nat \ {0}
    OBVIOUS
  <1>4. QED
    BY <1>1, <1>2, <1>3

LEMMA RuleTypes ==
  ASSUME NEW p \in Policy
  PROVE  /\ DOMAIN Rules[p] \subseteq Nat \ {0} /\ IsFiniteSet(DOMAIN Rules[p])
         /\ \A i \in DOMAIN Rules[p] :
                Rules[p][i].tier \in DOMAIN TierRank /\ TierRank[Rules[p][i].tier] \in 0 .. 2
  <1>1. Rules[p] \in Seq([name : STRING, tier : DOMAIN TierRank])
    BY MatchingAssumption
  <1>2. DOMAIN Rules[p] = 1 .. Len(Rules[p]) /\ Len(Rules[p]) \in Nat
    BY <1>1
  <1>3. \A i \in DOMAIN Rules[p] : Rules[p][i].tier \in DOMAIN TierRank
    <2> DEFINE Rule == [name : STRING, tier : DOMAIN TierRank]
    <2>1. \A r \in Rule : r.tier \in DOMAIN TierRank
      OBVIOUS
    <2>2. Rules[p] \in Seq(Rule)
      BY <1>1
    <2> HIDE DEF Rule
    <2>3. \A i \in DOMAIN Rules[p] : Rules[p][i] \in Rule
      BY <1>2, <2>2, ElementOfSeq
    <2>4. QED
      BY <2>1, <2>3
  <1>4. \A tier \in DOMAIN TierRank : TierRank[tier] \in 0 .. 2
    BY DEF TierRank
  <1>5. IsFiniteSet(1 .. Len(Rules[p])) /\ 1 .. Len(Rules[p]) \subseteq Nat \ {0}
    BY <1>2, FS_Interval
  <1>6. QED
    BY <1>2, <1>3, <1>4, <1>5

\* The rank of a rule of a policy.
RankOf(p, i) == TierRank[Rules[p][i].tier]

LEMMA FirstRulesTypes ==
  ASSUME NEW p \in Policy, NEW t \in Target, NEW names \in SUBSET Name, NEW f \in Field
  PROVE  /\ FirstRules(p, t, names, f) \subseteq DOMAIN Rules[p]
         /\ \A n \in names \ Long : Fires[p][t][n][f] # {} =>
                /\ Min(Fires[p][t][n][f]) \in FirstRules(p, t, names, f)
                /\ Min(Fires[p][t][n][f]) \in Fires[p][t][n][f]
                /\ \A i \in Fires[p][t][n][f] : Min(Fires[p][t][n][f]) <= i
         /\ \A i \in FirstRules(p, t, names, f) : \E n \in names \ Long :
                i = Min(Fires[p][t][n][f]) /\ Fires[p][t][n][f] # {}
  <1>1. ASSUME NEW n \in names \ Long, Fires[p][t][n][f] # {}
        PROVE  /\ Min(Fires[p][t][n][f]) \in Fires[p][t][n][f]
               /\ \A i \in Fires[p][t][n][f] : Min(Fires[p][t][n][f]) <= i
               /\ Min(Fires[p][t][n][f]) \in DOMAIN Rules[p]
    <2>1. Fires[p][t][n][f] \in SUBSET DOMAIN Rules[p]
      BY MatchingAssumption
    <2>2. IsFiniteSet(Fires[p][t][n][f]) /\ Fires[p][t][n][f] \subseteq Int
      BY <2>1, RuleTypes, FS_Subset
    <2>3. QED
      BY <1>1, <2>1, <2>2, MinIsSmallest
  <1>2. \A i \in FirstRules(p, t, names, f) : \E n \in names \ Long :
            i = Min(Fires[p][t][n][f]) /\ Fires[p][t][n][f] # {}
    BY DEF FirstRules
  <1>3. \A n \in names \ Long : Fires[p][t][n][f] # {} =>
            Min(Fires[p][t][n][f]) \in FirstRules(p, t, names, f)
    BY DEF FirstRules
  <1>4. QED
    BY <1>1, <1>2, <1>3

\* Some rule beats all the others, and there is only one such rule.
LEMMA BestExists ==
  ASSUME NEW p \in Policy, NEW rules \in SUBSET DOMAIN Rules[p], rules # {}
  PROVE  \E i \in rules : \A j \in rules \ {i} : Beats(p, i, j)
  <1> DEFINE ranks == {RankOf(p, i) : i \in rules}
  <1>1. IsFiniteSet(rules) /\ rules \subseteq Int
    BY RuleTypes, FS_Subset
  <1>2. ranks \subseteq Int /\ IsFiniteSet(ranks) /\ ranks # {}
    <2>1. ranks \in SUBSET (0 .. 2)
      BY RuleTypes DEF RankOf
    <2>2. ranks # {}
      OBVIOUS
    <2>3. IsFiniteSet(0 .. 2)
      <3>1. 0 \in Int /\ 2 \in Int
        OBVIOUS
      <3>2. QED
        BY <3>1, FS_Interval, Zenon
    <2>4. 0 .. 2 \subseteq Int
      OBVIOUS
    <2> HIDE DEF ranks
    <2>5. QED
      BY <2>1, <2>2, <2>3, <2>4, FS_Subset
  <1>3. PICK r \in ranks : \A s \in ranks : r >= s
    <2> HIDE DEF ranks
    <2>1. QED
      BY <1>2, LargestExists
  <1> DEFINE top == {i \in rules : RankOf(p, i) = r}
  <1>4. top \in SUBSET rules /\ top # {}
    OBVIOUS
  <1>5. IsFiniteSet(top) /\ top \subseteq Int
    BY <1>1, <1>4, FS_Subset
  <1>6. PICK i \in top : \A j \in top : i <= j
    <2> HIDE DEF top
    <2>1. QED
      BY <1>4, <1>5, SmallestExists
  <1>7. ASSUME NEW j \in rules \ {i} PROVE Beats(p, i, j)
    <2>1. RankOf(p, i) = r /\ RankOf(p, j) \in ranks /\ RankOf(p, j) <= r
      BY <1>3, <1>6
    <2>2. RankOf(p, i) \in Int /\ RankOf(p, j) \in Int /\ i \in Int /\ j \in Int
      BY RuleTypes DEF RankOf
    <2>3. RankOf(p, j) = r => i < j
      BY <1>6, <2>2
    <2>4. RankOf(p, i) > RankOf(p, j) \/ (RankOf(p, i) = RankOf(p, j) /\ i < j)
      <3> HIDE DEF ranks, top
      <3>1. QED
        BY <2>1, <2>2, <2>3
    <2>5. QED
      BY <2>4 DEF Beats, RankOf
  <1>8. QED
    BY <1>6, <1>7

LEMMA BestRulesTypes ==
  ASSUME NEW p \in Policy, NEW names \in SUBSET Name, NEW f \in Field
  PROVE  LET best == BestRules(p, names, f)
         IN  /\ DOMAIN best = {u \in Target : FirstRules(p, u, names, f) # {}}
             /\ \A t \in DOMAIN best :
                    /\ best[t] \in FirstRules(p, t, names, f)
                    /\ best[t] \in DOMAIN Rules[p]
                    /\ \A j \in FirstRules(p, t, names, f) \ {best[t]} : Beats(p, best[t], j)
  <1> DEFINE best == BestRules(p, names, f)
  <1>1. DOMAIN best = {u \in Target : FirstRules(p, u, names, f) # {}}
    BY DEF BestRules
  <1>2. ASSUME NEW t \in DOMAIN best
        PROVE  /\ best[t] \in FirstRules(p, t, names, f)
               /\ best[t] \in DOMAIN Rules[p]
               /\ \A j \in FirstRules(p, t, names, f) \ {best[t]} : Beats(p, best[t], j)
    <2>1. t \in Target /\ FirstRules(p, t, names, f) # {}
      BY <1>1, <1>2
    <2>2. FirstRules(p, t, names, f) \in SUBSET DOMAIN Rules[p]
      BY <2>1, FirstRulesTypes
    <2>3. \E i \in FirstRules(p, t, names, f) :
                \A j \in FirstRules(p, t, names, f) \ {i} : Beats(p, i, j)
      BY <2>1, <2>2, BestExists
    <2>4. best[t] = CHOOSE i \in FirstRules(p, t, names, f) :
                        \A j \in FirstRules(p, t, names, f) \ {i} : Beats(p, i, j)
      BY <1>1, <1>2 DEF BestRules
    <2>5. QED
      BY <2>2, <2>3, <2>4
  <1>3. QED
    BY <1>1, <1>2

\* What the engine decides is a rule for each of some targets.
LEMMA EvaluateTypes ==
  ASSUME NEW p \in Policy, NEW names \in SUBSET Name, NEW f \in Field
  PROVE  LET fresh == Evaluate(p, names, f)
         IN  /\ DOMAIN fresh \subseteq Target
             /\ DOMAIN fresh \subseteq DOMAIN BestRules(p, names, f)
             /\ \A t \in DOMAIN fresh :
                    /\ fresh[t] = Rules[p][BestRules(p, names, f)[t]]
                    /\ fresh[t] \in Stored /\ fresh[t].tier \in DOMAIN TierRank
  <1> DEFINE best == BestRules(p, names, f)
             fresh == Evaluate(p, names, f)
  <1>1. DOMAIN best \subseteq Target /\ \A t \in DOMAIN best : best[t] \in DOMAIN Rules[p]
    <2>1. DOMAIN best = {u \in Target : FirstRules(p, u, names, f) # {}}
      BY BestRulesTypes
    <2>2. QED
      BY <2>1, BestRulesTypes
  <1>2. /\ DOMAIN fresh = (IF FanOut(p, best) # {} THEN FanOut(p, best) ELSE SingleWinner(p, best))
        /\ \A t \in DOMAIN fresh : fresh[t] = Rules[p][best[t]]
    BY DEF Evaluate
  <1>3. FanOut(p, best) \subseteq DOMAIN best /\ SingleWinner(p, best) \subseteq DOMAIN best
    BY DEF FanOut, SingleWinner
  <1>4. DOMAIN fresh \subseteq DOMAIN best
    BY <1>2, <1>3
  <1>5. \A t \in DOMAIN fresh : fresh[t] \in Stored /\ fresh[t].tier \in DOMAIN TierRank
    <2> SUFFICES ASSUME NEW t \in DOMAIN fresh
                 PROVE  fresh[t] \in Stored /\ fresh[t].tier \in DOMAIN TierRank
      OBVIOUS
    <2>1. best[t] \in DOMAIN Rules[p] /\ fresh[t] = Rules[p][best[t]]
      BY <1>1, <1>2, <1>4
    <2> HIDE DEF best, fresh
    <2>2. QED
      BY <2>1, RuleTypes DEF Stored, Range
  <1>6. QED
    BY <1>1, <1>2, <1>4, <1>5

--------------------------------------------------------------------------------
(* The rows to write.                                                        *)

Row == [target : Target, verdict : Stored]

\* The row of a target says what the engine decides, or that it decides nothing.
Right(h, t, fresh) ==
    IF t \in DOMAIN fresh THEN journal[h][t] = fresh[t]
                          ELSE journal[h][t] = NoRow \/ journal[h][t].tier = RetractedTier

\* Each row to write says what the engine decides of its target, a retraction when it
\* decides nothing; the decisions come first.
Todo(todo, fresh) ==
    /\ \A i \in DOMAIN todo : todo[i].verdict =
            IF todo[i].target \in DOMAIN fresh THEN fresh[todo[i].target] ELSE Retraction
    /\ \A i, j \in DOMAIN todo :
            i < j /\ todo[j].target \in DOMAIN fresh => todo[i].target \in DOMAIN fresh

LEMMA InOrderTypes ==
  ASSUME NEW targets \in SUBSET Target
  PROVE  /\ InOrder(targets) \in Seq(targets)
         /\ \A t \in targets : \E i \in DOMAIN InOrder(targets) : InOrder(targets)[i] = t
  <1> DEFINE N == Cardinality(targets)
             order == InOrder(targets)
  <1>a. IsFiniteSet(targets)
    BY TargetTypes, FS_Subset
  <1>1. IsFiniteSet(targets) /\ targets \subseteq Int /\ N \in Nat
    BY <1>a, TargetTypes, FS_CardinalityType
  <1>2. \E f \in [1 .. N -> targets] : Increasing(f)
    BY <1>1, SortedExists
  <1>3. order \in [1 .. N -> targets] /\ Increasing(order)
    BY <1>2 DEF InOrder, Increasing
  <1>4. \A t \in targets : \E i \in 1 .. N : order[i] = t
    BY <1>1, <1>3, SortedCovers
  <1> HIDE DEF order
  <1>5. order \in Seq(targets) /\ DOMAIN order = 1 .. N
    BY <1>1, <1>3, IsASeq
  <1>6. QED
    BY <1>4, <1>5 DEF order

LEMMA ToWriteTypes ==
  ASSUME NEW h, NEW fresh, DOMAIN fresh \in SUBSET Target,
         \A t \in DOMAIN fresh : fresh[t] \in Stored
  PROVE  LET todo == ToWrite(h, fresh)
         IN  /\ todo \in Seq(Row) /\ Todo(todo, fresh)
             /\ \A t \in Target : Right(h, t, fresh) \/ \E i \in DOMAIN todo : todo[i].target = t
  <1> DEFINE news == InOrder(Changed(h, fresh))
             gone == InOrder(Dropped(h, fresh))
             d == Decisions(h, fresh)
             r == Retractions(h, fresh)
             todo == ToWrite(h, fresh)
  <1>a. Changed(h, fresh) \in SUBSET DOMAIN fresh /\ DOMAIN LastDecisions(h) \in SUBSET Target
    BY DEF Changed, LastDecisions
  <1>b. Changed(h, fresh) \in SUBSET Target /\ Dropped(h, fresh) \in SUBSET Target
        /\ \A t \in Dropped(h, fresh) : t \notin DOMAIN fresh
    BY <1>a DEF Dropped
  <1>1. /\ news \in Seq(Changed(h, fresh)) /\ gone \in Seq(Dropped(h, fresh))
        /\ \A t \in Changed(h, fresh) : \E i \in DOMAIN news : news[i] = t
        /\ \A t \in Dropped(h, fresh) : \E i \in DOMAIN gone : gone[i] = t
    BY <1>b, InOrderTypes
  <1> HIDE DEF news, gone
  <1>2. /\ DOMAIN news = 1 .. Len(news) /\ Len(news) \in Nat
        /\ DOMAIN gone = 1 .. Len(gone) /\ Len(gone) \in Nat
        /\ \A i \in DOMAIN news : news[i] \in Changed(h, fresh)
        /\ \A i \in DOMAIN gone : gone[i] \in Dropped(h, fresh)
    BY <1>1, ElementOfSeq
  <1>3. /\ d = [i \in 1 .. Len(news) |-> [target |-> news[i], verdict |-> fresh[news[i]]]]
        /\ r = [i \in 1 .. Len(gone) |-> [target |-> gone[i], verdict |-> Retraction]]
        /\ todo = d \o r
    BY <1>2 DEF news, gone, Decisions, Retractions, ToWrite
  <1>4. Retraction \in Stored
    BY DEF Stored
  <1>5. /\ d \in Seq(Row) /\ Len(d) = Len(news)
        /\ \A i \in 1 .. Len(news) : d[i].target = news[i] /\ d[i].verdict = fresh[news[i]]
    <2>1. \A i \in 1 .. Len(news) : d[i] \in Row
      <3>1. \A i \in 1 .. Len(news) : news[i] \in Target /\ fresh[news[i]] \in Stored
        BY <1>a, <1>b, <1>2
      <3>2. QED
        BY <1>3, <3>1 DEF Row
    <2>2. d \in [1 .. Len(news) -> Row]
      BY <1>3, <2>1
    <2>3. d \in Seq(Row) /\ Len(d) = Len(news)
      BY <1>2, <2>2, IsASeq, LenProperties
    <2>4. QED
      BY <1>3, <2>3
  <1>6. /\ r \in Seq(Row) /\ Len(r) = Len(gone)
        /\ \A i \in 1 .. Len(gone) : r[i].target = gone[i] /\ r[i].verdict = Retraction
    <2>1. \A i \in 1 .. Len(gone) : r[i] \in Row
      <3>1. \A i \in 1 .. Len(gone) : gone[i] \in Target
        BY <1>b, <1>2
      <3>2. QED
        BY <1>3, <1>4, <3>1 DEF Row
    <2>2. r \in [1 .. Len(gone) -> Row]
      BY <1>3, <2>1
    <2>3. r \in Seq(Row) /\ Len(r) = Len(gone)
      BY <1>2, <2>2, IsASeq, LenProperties
    <2>4. QED
      BY <1>3, <2>3
  <1> HIDE DEF d, r, todo
  <1>7. /\ todo \in Seq(Row) /\ Len(todo) = Len(news) + Len(gone)
        /\ DOMAIN todo = 1 .. Len(news) + Len(gone)
        /\ \A i \in 1 .. Len(news) : todo[i] = d[i]
        /\ \A i \in 1 .. Len(gone) : todo[Len(news) + i] = r[i]
        /\ \A i \in 1 .. Len(news) + Len(gone) :
                i > Len(news) => i - Len(news) \in 1 .. Len(gone) /\ todo[i] = r[i - Len(news)]
    BY <1>2, <1>3, <1>5, <1>6
  <1>8. \A i \in DOMAIN todo :
            \/ /\ i <= Len(news) /\ todo[i].target \in DOMAIN fresh
               /\ todo[i].verdict = fresh[todo[i].target]
            \/ /\ i > Len(news) /\ todo[i].target \notin DOMAIN fresh
               /\ todo[i].verdict = Retraction
    <2> SUFFICES ASSUME NEW i \in DOMAIN todo
                 PROVE  \/ /\ i <= Len(news) /\ todo[i].target \in DOMAIN fresh
                           /\ todo[i].verdict = fresh[todo[i].target]
                        \/ /\ i > Len(news) /\ todo[i].target \notin DOMAIN fresh
                           /\ todo[i].verdict = Retraction
      OBVIOUS
    <2>1. CASE i <= Len(news)
      <3>1. i \in 1 .. Len(news)
        BY <1>2, <1>7, <2>1
      <3>2. QED
        BY <1>a, <1>2, <1>5, <1>7, <2>1, <3>1
    <2>2. CASE i > Len(news)
      <3>1. i - Len(news) \in 1 .. Len(gone) /\ todo[i] = r[i - Len(news)]
        BY <1>7, <2>2
      <3>2. QED
        BY <1>b, <1>2, <1>6, <2>2, <3>1
    <2>3. QED
      BY <1>2, <1>7, <2>1, <2>2
  <1>9. Todo(todo, fresh)
    BY <1>2, <1>7, <1>8 DEF Todo
  <1>10. ASSUME NEW t \in Target, ~\E i \in DOMAIN todo : todo[i].target = t
         PROVE  Right(h, t, fresh)
    <2>1. t \notin Changed(h, fresh)
      <3>1. SUFFICES ASSUME t \in Changed(h, fresh) PROVE FALSE
        OBVIOUS
      <3>2. PICK i \in 1 .. Len(news) : news[i] = t
        BY <1>1, <1>2, <3>1
      <3>3. i \in DOMAIN todo /\ todo[i].target = t
        BY <1>2, <1>5, <1>7, <3>2
      <3>4. QED
        BY <1>10, <3>3
    <2>2. t \notin Dropped(h, fresh)
      <3>1. SUFFICES ASSUME t \in Dropped(h, fresh) PROVE FALSE
        OBVIOUS
      <3>2. PICK i \in 1 .. Len(gone) : gone[i] = t
        BY <1>1, <1>2, <3>1
      <3>3. todo[Len(news) + i] = r[i] /\ r[i].target = t
        BY <1>6, <1>7, <3>2
      <3>4. Len(news) + i \in DOMAIN todo
        BY <1>2, <1>7
      <3>5. QED
        BY <1>10, <3>3, <3>4
    <2>3. /\ DOMAIN LastDecisions(h) = {u \in Target : journal[h][u] # NoRow}
          /\ \A u \in DOMAIN LastDecisions(h) : LastDecisions(h)[u] = journal[h][u]
      BY DEF LastDecisions
    <2>4. QED
      BY <2>1, <2>2, <2>3 DEF Changed, Dropped, Right
  <1>11. QED
    BY <1>7, <1>9, <1>10 DEF todo

--------------------------------------------------------------------------------
(* The types.                                                                *)

Jobs == [hash : Hash \cup {0}, step : {"idle", "judge", "write"}, field : Field \cup {0},
         todo : Seq(Row), whole : BOOLEAN]

Types ==
    /\ known \in [Hash -> SUBSET Name]
    /\ latest \in [Hash -> [name : Name \cup {0}, field : Field \cup {0}]]
    /\ journal \in [Hash -> [Target -> {NoRow} \cup Stored]]
    /\ judged \in [Hash -> [policy : Policy \cup {NoPolicy}, field : Field \cup {0}]]
    /\ {marker, policy, begun} \subseteq Policy \cup {NoPolicy}
    /\ rest \subseteq Hash /\ job \in Jobs /\ budget \in 0 .. FaultBound

\* What is kept about a file is about an observed file.
OfKnown ==
    /\ \A h \in Hash : latest[h] = NoObservation <=> known[h] = {}
    /\ \A h \in Hash : latest[h] # NoObservation =>
            latest[h].name \in known[h] /\ latest[h].field \in Field
    /\ \A h \in Hash, t \in Target : journal[h][t] # NoRow => known[h] # {}
    /\ \A h \in Hash : judged[h] # Never =>
            known[h] # {} /\ judged[h].policy \in Policy /\ judged[h].field \in Field
    /\ \A h \in rest : known[h] # {}

JobOn ==
    /\ job.hash \in Hash /\ known[job.hash] # {} /\ job.hash \notin rest
    /\ phase # "down" /\ job.field \in Field /\ job.step \in {"judge", "write"}
PhaseOK ==
    /\ phase \in {"down", "sweep", "loops"} /\ (phase # "down" => policy \in Policy)
    /\ phase # "sweep" => rest = {}
    /\ job = NoJob \/ JobOn

Base == Types /\ OfKnown /\ PhaseOK

LEMMA NoneTypes ==
  /\ NoJob \in Jobs /\ NoJob.step = "idle" /\ NoJob.hash = 0 /\ 0 \notin Hash
  /\ NoObservation \in [name : Name \cup {0}, field : Field \cup {0}]
  /\ Never \in [policy : Policy \cup {NoPolicy}, field : Field \cup {0}]
  /\ NoRow \notin Stored /\ Retraction \in Stored
  /\ \A h \in Hash, f \in Field :
        /\ Begun(h, f) \in Jobs /\ Begun(h, f).hash = h /\ Begun(h, f).step = "judge"
        /\ Begun(h, f).field = f /\ Begun(h, f).whole = TRUE
  /\ NoJob.whole = TRUE
  <1>1. <<>> \in Seq(Row)
    BY EmptySeq
  <1>2. 0 \notin Hash
    BY CatalogueAssumption DEF Hash
  <1>3. NoJob \in Jobs
    BY <1>1 DEF NoJob, Jobs
  <1>4. \A h \in Hash, f \in Field :
        /\ Begun(h, f) \in Jobs /\ Begun(h, f).hash = h /\ Begun(h, f).step = "judge"
        /\ Begun(h, f).field = f /\ Begun(h, f).whole = TRUE
    BY <1>1 DEF NoJob, Begun, Jobs
  <1>5. NoRow \notin Stored
    <2>1. SUFFICES ASSUME NoRow \in Stored PROVE FALSE
      OBVIOUS
    <2>2. NoRow # Retraction
      BY DEF NoRow, Retraction, RetractedTier
    <2>3. PICK p \in Policy : NoRow \in Range(Rules[p])
      BY <2>1, <2>2 DEF Stored
    <2>4. PICK i \in DOMAIN Rules[p] : NoRow = Rules[p][i]
      BY <2>3 DEF Range
    <2>5. NoRow.tier \in DOMAIN TierRank
      BY <2>4, RuleTypes
    <2>6. QED
      BY <2>5 DEF NoRow, TierRank
  <1>6. QED
    BY <1>2, <1>3, <1>4, <1>5 DEF NoObservation, Never, Stored, NoJob

LEMMA JobIs ==
  ASSUME Base
  PROVE  /\ job = NoJob <=> job.step = "idle"
         /\ job # NoJob => JobOn
         /\ job = NoJob <=> job.hash \notin Hash
  BY NoneTypes DEF Base, PhaseOK, JobOn

\* What is about to be written of a file.
LEMMA FreshTypes ==
  ASSUME Base, JobOn
  PROVE  LET fresh == Fresh(job.hash)
         IN  /\ fresh = Evaluate(policy, known[job.hash], job.field)
             /\ policy \in Policy /\ known[job.hash] \in SUBSET Name /\ job.field \in Field
             /\ DOMAIN fresh \in SUBSET Target
             /\ \A t \in DOMAIN fresh :
                    fresh[t] \in Stored /\ fresh[t].tier \in DOMAIN TierRank
  <1>1. policy \in Policy /\ known[job.hash] \in SUBSET Name /\ job.field \in Field
    BY DEF Base, Types, PhaseOK, JobOn
  <1>2. Fresh(job.hash) = Evaluate(policy, known[job.hash], job.field)
    BY DEF Fresh, KnownFilenames
  <1>3. LET fresh == Evaluate(policy, known[job.hash], job.field)
        IN  /\ DOMAIN fresh \subseteq Target
            /\ \A t \in DOMAIN fresh : fresh[t] \in Stored /\ fresh[t].tier \in DOMAIN TierRank
    BY <1>1, EvaluateTypes
  <1>4. QED
    BY <1>1, <1>2, <1>3

LEMMA InitBase == Init => Base
  BY NoneTypes, CatalogueAssumption DEF Init, Base, Types, OfKnown, PhaseOK

LEMMA NextBase ==
  ASSUME Base, [Next]_vars
  PROVE  Base'
  <1> USE DEF disk, history
  <1>a. Types /\ OfKnown /\ PhaseOK /\ FaultBound \in Nat
    BY CatalogueAssumption DEF Base
  <1>b. \A kind : Spend(kind) => budget' \in 0 .. FaultBound
    BY <1>a DEF Spend, Types
  <1>1. ASSUME NEW p \in Policy, Start(p) PROVE Base'
    <2>1. Types'
      BY <1>a, <1>1 DEF Start, Types, ReevaluationRows
    <2>2. OfKnown'
      BY <1>a, <1>1 DEF Start, OfKnown, ReevaluationRows
    <2>3. PhaseOK'
      BY <1>a, <1>1 DEF Start, PhaseOK, JobOn
    <2>4. QED
      BY <2>1, <2>2, <2>3 DEF Base
  <1>2. CASE SweepNext
    <2>1. rest # {} /\ rest \subseteq Int /\ IsFiniteSet(rest) /\ rest \in SUBSET Hash
      <3>1. IsFiniteSet(Hash) /\ Hash \subseteq Int
        BY CatalogueAssumption, FS_Interval DEF Hash
      <3>2. rest # {} /\ rest \in SUBSET Hash
        BY <1>a, <1>2 DEF SweepNext, Types
      <3>3. QED
        BY <3>1, <3>2, FS_Subset
    <2> DEFINE h == Min(rest)
    <2>2. h \in rest /\ h \in Hash
      BY <2>1, MinIsSmallest
    <2> HIDE DEF h
    <2>3. known[h] # {} /\ latest[h].field \in Field
      BY <1>a, <2>2 DEF OfKnown
    <2>4. job' = Begun(h, latest[h].field) /\ rest' = rest \ {h} /\ phase = "sweep"
      BY <1>2 DEF SweepNext, h
    <2>5. /\ job' \in Jobs /\ job'.hash = h /\ job'.step = "judge"
          /\ job'.field = latest[h].field
      BY <2>2, <2>3, <2>4, NoneTypes
    <2>6. Types'
      BY <1>a, <1>2, <2>4, <2>5 DEF SweepNext, Types
    <2>7. OfKnown'
      BY <1>a, <1>2, <2>4 DEF SweepNext, OfKnown
    <2>8. PhaseOK'
      BY <1>a, <1>2, <2>2, <2>3, <2>4, <2>5 DEF SweepNext, PhaseOK, JobOn
    <2>9. QED
      BY <2>6, <2>7, <2>8 DEF Base
  <1>3. CASE StoreMarker
    BY <1>a, <1>3 DEF StoreMarker, Base, Types, OfKnown, PhaseOK
  <1>4. ASSUME NEW h \in Hash, NEW seen \in SeenAs[h], Observe(h, seen[1], seen[2])
        PROVE  Base'
    <2> DEFINE n == seen[1]
               f == seen[2]
    <2>1. n \in Name /\ f \in Field
      BY CatalogueAssumption
    <2>2. Sighted(h, n, f) /\ job' = Begun(h, f)
      BY <1>4 DEF Observe
    <2> HIDE DEF n, f
    <2>3. /\ phase = "loops" /\ known' = [known EXCEPT ![h] = @ \cup {n}]
          /\ UNCHANGED <<journal, marker, phase, policy, rest, judged, begun>>
          /\ budget' \in 0 .. FaultBound
      BY <1>a, <1>b, <2>2 DEF Sighted, Latest, Hidden, Types
    <2>4. /\ known' \in [Hash -> SUBSET Name] /\ n \in known'[h]
          /\ \A g \in Hash : known[g] \subseteq known'[g] /\ (g # h => known'[g] = known[g])
      BY <1>a, <2>1, <2>3 DEF Types
    <2>5. job' \in Jobs /\ job'.hash = h /\ job'.step = "judge" /\ job'.field = f
      BY <2>1, <2>2, NoneTypes
    <2>6. /\ latest' \in [Hash -> [name : Name \cup {0}, field : Field \cup {0}]]
          /\ \A g \in Hash : g # h => latest'[g] = latest[g]
          /\ \/ latest'[h] = [name |-> n, field |-> f]
             \/ latest'[h] = latest[h] /\ latest[h] # NoObservation
      BY <1>a, <2>1, <2>2 DEF Sighted, Types
    <2>7. [name |-> n, field |-> f] # NoObservation
      BY <2>1, CatalogueAssumption DEF NoObservation
    <2>8. OfKnown'
      <3>1. \A g \in Hash : known[g] # {} => known'[g] # {}
        BY <2>4
      <3>2. \A g \in Hash : latest'[g] = NoObservation <=> known'[g] = {}
        BY <1>a, <2>4, <2>6, <2>7 DEF OfKnown
      <3>3. \A g \in Hash : latest'[g] # NoObservation =>
                latest'[g].name \in known'[g] /\ latest'[g].field \in Field
        <4> SUFFICES ASSUME NEW g \in Hash, latest'[g] # NoObservation
                     PROVE  latest'[g].name \in known'[g] /\ latest'[g].field \in Field
          OBVIOUS
        <4>1. CASE latest'[g] = latest[g]
          BY <1>a, <2>4, <4>1 DEF OfKnown
        <4>2. CASE g = h /\ latest'[h] = [name |-> n, field |-> f]
          BY <2>1, <2>4, <4>2
        <4>3. QED
          BY <2>6, <4>1, <4>2
      <3>4. QED
        BY <1>a, <2>3, <3>1, <3>2, <3>3 DEF OfKnown
    <2>9. Types'
      BY <1>a, <2>3, <2>4, <2>5, <2>6 DEF Types
    <2>10. PhaseOK'
      BY <1>a, <2>1, <2>3, <2>4, <2>5 DEF PhaseOK, JobOn
    <2>11. QED
      BY <2>8, <2>9, <2>10 DEF Base
  <1>5. CASE Judge
    <2>1. JobOn
      BY <1>5, JobIs, NoneTypes DEF Judge
    <2>2. /\ job' = [job EXCEPT !.step = "write", !.todo = ToWrite(job.hash, Fresh(job.hash))]
          /\ UNCHANGED <<disk, phase, policy, rest, budget, history>>
      BY <1>5 DEF Judge
    <2>3. ToWrite(job.hash, Fresh(job.hash)) \in Seq(Row)
      BY <2>1, FreshTypes, ToWriteTypes
    <2>4. job' \in Jobs /\ job'.hash = job.hash /\ job'.field = job.field /\ job'.step = "write"
      BY <1>a, <2>2, <2>3 DEF Types, Jobs
    <2>5. QED
      BY <1>a, <2>1, <2>2, <2>4 DEF Base, Types, OfKnown, PhaseOK, JobOn
  <1>6. CASE WriteRow
    <2>1. JobOn /\ job.todo \in Seq(Row) /\ job.todo # <<>>
      BY <1>a, <1>6, JobIs, NoneTypes DEF WriteRow, Types, Jobs
    <2> DEFINE next == Head(job.todo)
    <2>2. next \in Row /\ Tail(job.todo) \in Seq(Row)
      BY <2>1
    <2> HIDE DEF next
    <2>3. next.target \in Target /\ next.verdict \in Stored
      BY <2>2 DEF Row
    <2>4. /\ UNCHANGED <<known, latest, marker, phase, policy, rest, history>>
          /\ \/ journal' = [journal EXCEPT ![job.hash][next.target] = next.verdict]
             \/ UNCHANGED journal
          /\ \/ job' = [job EXCEPT !.todo = Tail(@)]
             \/ job' = [job EXCEPT !.todo = Tail(@), !.whole = FALSE]
          /\ budget' \in 0 .. FaultBound
      BY <1>a, <1>b, <1>6 DEF WriteRow, Latest, Hidden, Types, next
    <2>5. /\ job' \in Jobs /\ job'.hash = job.hash /\ job'.field = job.field
          /\ job'.step = job.step
      BY <1>a, <2>2, <2>4 DEF Types, Jobs
    <2>6. /\ journal' \in [Hash -> [Target -> {NoRow} \cup Stored]]
          /\ \A h \in Hash, t \in Target : h # job.hash => journal'[h][t] = journal[h][t]
      <3>1. CASE UNCHANGED journal
        BY <1>a, <3>1 DEF Types
      <3>2. CASE journal' = [journal EXCEPT ![job.hash][next.target] = next.verdict]
        <4>1. journal[job.hash] \in [Target -> {NoRow} \cup Stored]
          BY <1>a, <2>1 DEF Types, JobOn
        <4>2. [journal[job.hash] EXCEPT ![next.target] = next.verdict]
                 \in [Target -> {NoRow} \cup Stored]
          BY <2>3, <4>1
        <4>3. journal' = [journal EXCEPT ![job.hash] =
                             [journal[job.hash] EXCEPT ![next.target] = next.verdict]]
          BY <3>2
        <4>4. QED
          BY <1>a, <2>1, <4>2, <4>3 DEF Types, JobOn
      <3>3. QED
        BY <2>4, <3>1, <3>2
    <2>7. Types'
      BY <1>a, <2>4, <2>5, <2>6 DEF Types
    <2>8. OfKnown'
      BY <1>a, <2>1, <2>4, <2>6 DEF OfKnown, JobOn
    <2>9. PhaseOK'
      BY <1>a, <2>1, <2>4, <2>5 DEF PhaseOK, JobOn
    <2>10. QED
      BY <2>7, <2>8, <2>9 DEF Base
  <1>7. ASSUME NEW verdict \in {Never, [policy |-> policy, field |-> job.field]},
               JobOn, judged' = [judged EXCEPT ![job.hash] = verdict], job' = NoJob,
               UNCHANGED <<disk, phase, policy, rest, begun>>, budget' \in 0 .. FaultBound
        PROVE  Base'
    <2>1. verdict \in [policy : Policy \cup {NoPolicy}, field : Field \cup {0}]
      BY <1>a, <1>7, NoneTypes DEF JobOn, PhaseOK
    <2>2. Types'
      BY <1>a, <1>7, <2>1, NoneTypes DEF Types
    <2>3. OfKnown'
      <3>1. \A h \in Hash : judged'[h] = IF h = job.hash THEN verdict ELSE judged[h]
        BY <1>a, <1>7 DEF Types, JobOn
      <3>2. QED
        BY <1>a, <1>7, <3>1 DEF OfKnown, JobOn, PhaseOK
    <2>4. PhaseOK'
      BY <1>a, <1>7 DEF PhaseOK
    <2>5. QED
      BY <2>2, <2>3, <2>4 DEF Base
  <1>8. CASE Finish
    <2>1. JobOn
      BY <1>8, JobIs, NoneTypes DEF Finish
    <2>2. budget' \in 0 .. FaultBound
      BY <1>a, <1>8 DEF Finish, Types
    <2>3. QED
      BY <1>7, <1>8, <2>1, <2>2 DEF Finish
  <1>9. CASE JudgementRefused
    <2>1. JobOn
      BY <1>9, JobIs DEF JudgementRefused
    <2>2. QED
      BY <1>b, <1>7, <1>9, <2>1 DEF JudgementRefused, CutShort
  <1>10. CASE Stop
    <2>1. budget' \in 0 .. FaultBound
      BY <1>b, <1>10 DEF Stop
    <2>2. judged' \in [Hash -> [policy : Policy \cup {NoPolicy}, field : Field \cup {0}]]
      BY <1>a, <1>10, NoneTypes DEF Stop, CutShort, Types
    <2>3. \A h \in Hash : judged'[h] = judged[h] \/ judged'[h] = Never
      BY <1>a, <1>10 DEF Stop, CutShort, Types
    <2>4. Types'
      BY <1>a, <1>10, <2>1, <2>2, NoneTypes DEF Stop, CutShort, Types
    <2>5. OfKnown'
      BY <1>a, <1>10, <2>3 DEF Stop, CutShort, OfKnown
    <2>6. PhaseOK'
      BY <1>a, <1>10 DEF Stop, PhaseOK
    <2>7. QED
      BY <2>4, <2>5, <2>6 DEF Base
  <1>11. CASE UNCHANGED vars
    BY <1>a, <1>11 DEF vars, Base, Types, OfKnown, PhaseOK, JobOn
  <1>12. QED
    BY <1>1, <1>2, <1>3, <1>4, <1>5, <1>6, <1>8, <1>9, <1>10, <1>11 DEF Next, Observed

LEMMA BaseInvariance == Spec => []Base
  BY InitBase, NextBase, PTL DEF Spec

\* Every variable keeps its type, and the journals speak of observed files only
\* (catalog_repository.py, decisions.py, run_backfill.py).
THEOREM TypeCorrect == Spec => []TypeOK
  <1>1. Base => TypeOK
    BY DEF Base, Types, OfKnown, PhaseOK, JobOn, TypeOK
  <1>2. QED
    BY <1>1, BaseInvariance, PTL

--------------------------------------------------------------------------------
(* A judged file carries what the engine decides.                            *)

AllRight(h, fresh) == \A t \in Target : Right(h, t, fresh)

\* While the rows of a file are written, those not to be written any more are right.
WriteInv ==
    job.step = "write" /\ job.whole =>
        /\ Todo(job.todo, Fresh(job.hash))
        /\ \A t \in Target : \/ Right(job.hash, t, Fresh(job.hash))
                             \/ \E i \in DOMAIN job.todo : job.todo[i].target = t

SettledInv ==
    \A h \in Hash : judged[h] # Never /\ job.hash # h =>
        AllRight(h, Evaluate(judged[h].policy, known[h], judged[h].field))

LEMMA WriteRowKeeps ==
  ASSUME Base, WriteInv, WriteRow, job.whole, Latest
  PROVE  LET next == Head(job.todo)
         IN  /\ journal' = [journal EXCEPT ![job.hash][next.target] = next.verdict] => WriteInv'
             /\ next.target \in Target /\ next.verdict \in Stored
             /\ next.verdict = IF next.target \in DOMAIN Fresh(job.hash)
                               THEN Fresh(job.hash)[next.target] ELSE Retraction
  <1> DEFINE next == Head(job.todo)
             fresh == Fresh(job.hash)
  <1>1. JobOn /\ job.todo \in Seq(Row) /\ job.todo # <<>>
    BY JobIs, NoneTypes DEF Base, WriteRow, Types, Jobs
  <1>2. /\ Len(job.todo) \in Nat \ {0} /\ DOMAIN job.todo = 1 .. Len(job.todo)
        /\ next = job.todo[1] /\ next \in Row
        /\ Tail(job.todo) \in Seq(Row) /\ DOMAIN Tail(job.todo) = 1 .. Len(job.todo) - 1
        /\ \A i \in 1 .. Len(job.todo) - 1 :
                Tail(job.todo)[i] = job.todo[i + 1] /\ i + 1 \in DOMAIN job.todo
    BY <1>1
  <1>3. /\ Todo(job.todo, fresh)
        /\ \A t \in Target : \/ Right(job.hash, t, fresh)
                             \/ \E i \in DOMAIN job.todo : job.todo[i].target = t
    BY DEF WriteInv, WriteRow
  <1> HIDE DEF next
  <1>4. /\ next.target \in Target /\ next.verdict \in Stored
        /\ next.verdict = IF next.target \in DOMAIN fresh THEN fresh[next.target] ELSE Retraction
    <2>1. 1 \in DOMAIN job.todo
      BY <1>2
    <2>2. QED
      BY <1>2, <1>3, <2>1 DEF Row, Todo
  <1>5. ASSUME journal' = [journal EXCEPT ![job.hash][next.target] = next.verdict]
        PROVE  WriteInv'
    <2>1. SUFFICES ASSUME job'.step = "write", job'.whole PROVE WriteInv'
      BY DEF WriteInv
    <2>2. UNCHANGED <<known, policy>> /\ job \in Jobs /\ journal \in [Hash -> [Target -> {NoRow} \cup Stored]]
      BY DEF WriteRow, Base, Types
    <2>3. job' = [job EXCEPT !.todo = Tail(@)]
      BY <2>1, <2>2 DEF WriteRow, Jobs
    <2>4. job'.todo = Tail(job.todo) /\ job'.hash = job.hash /\ job'.field = job.field
      BY <2>2, <2>3 DEF Jobs
    <2>5. Fresh(job.hash)' = fresh
      BY <2>2, <2>4 DEF Fresh, KnownFilenames
    <2>6. Todo(Tail(job.todo), fresh)
      <3>1. ASSUME NEW i \in DOMAIN Tail(job.todo), NEW j \in DOMAIN Tail(job.todo), i < j
            PROVE  /\ i + 1 \in DOMAIN job.todo /\ j + 1 \in DOMAIN job.todo /\ i + 1 < j + 1
                   /\ Tail(job.todo)[i] = job.todo[i + 1] /\ Tail(job.todo)[j] = job.todo[j + 1]
        BY <1>2, <3>1
      <3>2. \A i \in DOMAIN Tail(job.todo) :
                i + 1 \in DOMAIN job.todo /\ Tail(job.todo)[i] = job.todo[i + 1]
        BY <1>2
      <3> HIDE DEF fresh
      <3>3. \A i, j \in DOMAIN Tail(job.todo) :
                i < j /\ Tail(job.todo)[j].target \in DOMAIN fresh
                    => Tail(job.todo)[i].target \in DOMAIN fresh
        BY <1>3, <3>1 DEF Todo
      <3>4. QED
        BY <1>3, <3>2, <3>3 DEF Todo
    <2>7. ASSUME NEW t \in Target
          PROVE  \/ Right(job.hash, t, fresh)'
                 \/ \E i \in DOMAIN Tail(job.todo) : Tail(job.todo)[i].target = t
      <3>0. job.hash \in Hash
        BY <1>1 DEF JobOn
      <3>1. CASE t = next.target
        <4>1. journal'[job.hash][t] = next.verdict
          BY <1>4, <1>5, <2>2, <3>0, <3>1
        <4>2. Retraction.tier = RetractedTier
          BY DEF Retraction
        <4>3. Right(job.hash, t, fresh)' <=>
                IF t \in DOMAIN fresh THEN next.verdict = fresh[t]
                                      ELSE next.verdict = NoRow \/ next.verdict.tier = RetractedTier
          BY <2>4, <2>5, <4>1 DEF Right
        <4>4. QED
          BY <1>4, <3>1, <4>2, <4>3
      <3>2. CASE t # next.target /\ Right(job.hash, t, fresh)
        <4>1. journal'[job.hash][t] = journal[job.hash][t]
          BY <1>5, <2>2, <3>0, <3>2
        <4>2. QED
          BY <2>4, <2>5, <3>2, <4>1 DEF Right
      <3>3. CASE t # next.target /\ \E i \in DOMAIN job.todo : job.todo[i].target = t
        <4>1. PICK i \in 1 .. Len(job.todo) : job.todo[i].target = t
          BY <1>2, <3>3
        <4>2. i # 1
          BY <1>2, <3>3, <4>1
        <4>3. i - 1 \in 1 .. Len(job.todo) - 1
          BY <1>2, <4>2
        <4>4. Tail(job.todo)[i - 1] = job.todo[i]
          BY <1>2, <4>3
        <4>5. QED
          BY <1>2, <4>1, <4>3, <4>4
      <3>4. QED
        BY <1>3, <3>1, <3>2, <3>3
    <2>8. QED
      BY <2>4, <2>5, <2>6, <2>7 DEF WriteInv
  <1>6. QED
    BY <1>4, <1>5 DEF next

\* The rows of the other files are left alone.
LEMMA WriteRowElsewhere ==
  ASSUME Base, WriteRow
  PROVE  /\ JobOn /\ UNCHANGED <<known, policy, judged>>
         /\ job'.hash = job.hash /\ job'.field = job.field /\ job'.step = "write"
         /\ \A h \in Hash, t \in Target : h # job.hash => journal'[h][t] = journal[h][t]
  <1>1. JobOn /\ job \in Jobs /\ journal \in [Hash -> [Target -> {NoRow} \cup Stored]]
    BY JobIs, NoneTypes DEF Base, WriteRow, Types
  <1>2. UNCHANGED <<known, policy, judged>>
    BY DEF WriteRow, history
  <1>3. /\ job.step = "write"
        /\ \/ journal' = [journal EXCEPT ![job.hash][Head(job.todo).target] = Head(job.todo).verdict]
           \/ UNCHANGED journal
        /\ \/ job' = [job EXCEPT !.todo = Tail(@)]
           \/ job' = [job EXCEPT !.todo = Tail(@), !.whole = FALSE]
    BY DEF WriteRow
  <1>4. job'.hash = job.hash /\ job'.field = job.field /\ job'.step = "write"
    BY <1>1, <1>3 DEF Jobs
  <1>5. \A h \in Hash, t \in Target : h # job.hash => journal'[h][t] = journal[h][t]
    BY <1>1, <1>3 DEF JobOn
  <1>6. QED
    BY <1>1, <1>2, <1>4, <1>5

LEMMA NextSettled ==
  ASSUME Base, WriteInv, SettledInv, [Next]_vars
  PROVE  WriteInv' /\ SettledInv'
  <1> USE DEF disk, history
  <1>a. job \in Jobs /\ judged \in [Hash -> [policy : Policy \cup {NoPolicy}, field : Field \cup {0}]]
    BY DEF Base, Types
  <1>b. NoJob.step = "idle" /\ NoJob.hash \notin Hash
    BY NoneTypes
  <1>1. ASSUME UNCHANGED <<journal, known, judged, job>>, job = NoJob PROVE WriteInv' /\ SettledInv'
    BY <1>1, <1>b DEF WriteInv, SettledInv, AllRight, Right
  \* A job begins.
  <1>2. ASSUME job = NoJob, job'.step = "judge", UNCHANGED <<journal, judged>>,
               \A h \in Hash : h # job'.hash => known'[h] = known[h]
        PROVE  WriteInv' /\ SettledInv'
    <2>1. \A h \in Hash : job.hash # h
      BY <1>2, <1>b
    <2>2. QED
      BY <1>2, <2>1 DEF WriteInv, SettledInv, AllRight, Right
  \* A job ends: what it leaves is right, or the file is not taken for judged.
  <1>3. ASSUME job' = NoJob, UNCHANGED <<journal, known>>,
               \A h \in Hash : \/ judged'[h] = judged[h] /\ job.hash # h
                               \/ judged'[h] = Never
                               \/ /\ job.hash = h /\ job.todo = <<>> /\ WriteInv /\ job.step = "write"
                                  /\ job.whole /\ judged'[h] = [policy |-> policy, field |-> job.field]
        PROVE  WriteInv' /\ SettledInv'
    <2>1. ASSUME NEW h \in Hash, judged'[h] # Never
          PROVE  AllRight(h, Evaluate(judged'[h].policy, known[h], judged'[h].field))
      <3>1. CASE judged'[h] = judged[h] /\ job.hash # h
        BY <2>1, <3>1 DEF SettledInv
      <3>2. CASE /\ job.hash = h /\ job.todo = <<>> /\ WriteInv /\ job.step = "write"
                 /\ job.whole /\ judged'[h] = [policy |-> policy, field |-> job.field]
        BY <3>2, EmptySeq DEF WriteInv, AllRight, Fresh, KnownFilenames
      <3>3. QED
        BY <1>3, <2>1, <3>1, <3>2
    <2>2. SettledInv'
      BY <1>3, <2>1 DEF SettledInv, AllRight, Right
    <2>3. QED
      BY <1>3, <1>b, <2>2 DEF WriteInv
  <1>4. ASSUME NEW p \in Policy, Start(p) PROVE WriteInv' /\ SettledInv'
    BY <1>1, <1>4 DEF Start, Base, PhaseOK, JobOn
  <1>5. CASE SweepNext
    BY <1>2, <1>5 DEF SweepNext, Begun, NoJob
  <1>6. CASE StoreMarker
    BY <1>1, <1>6 DEF StoreMarker
  <1>7. ASSUME NEW h \in Hash, NEW seen \in SeenAs[h], Observe(h, seen[1], seen[2])
        PROVE  WriteInv' /\ SettledInv'
    <2>1. /\ job = NoJob /\ known' = [known EXCEPT ![h] = @ \cup {seen[1]}]
          /\ job' = Begun(h, seen[2]) /\ UNCHANGED <<journal, judged>>
      BY <1>7 DEF Observe, Sighted
    <2>2. \A g \in Hash : g # h => known'[g] = known[g]
      BY <2>1 DEF Base, Types
    <2>3. job'.hash = h /\ job'.step = "judge"
      BY <2>1, NoneTypes, CatalogueAssumption
    <2>4. QED
      BY <1>2, <2>1, <2>2, <2>3
  <1>8. CASE Judge
    <2>1. JobOn
      BY <1>8, <1>b, JobIs DEF Judge
    <2>2. /\ job' = [job EXCEPT !.step = "write", !.todo = ToWrite(job.hash, Fresh(job.hash))]
          /\ UNCHANGED <<journal, known, policy, judged>>
      BY <1>8 DEF Judge
    <2>3. /\ job'.hash = job.hash /\ job'.field = job.field
          /\ job'.todo = ToWrite(job.hash, Fresh(job.hash))
      BY <1>a, <2>2 DEF Jobs
    <2>4. Fresh(job.hash)' = Fresh(job.hash)
      BY <2>2, <2>3 DEF Fresh, KnownFilenames
    <2>5. LET todo == ToWrite(job.hash, Fresh(job.hash))
          IN  /\ Todo(todo, Fresh(job.hash))
              /\ \A t \in Target : \/ Right(job.hash, t, Fresh(job.hash))
                                   \/ \E i \in DOMAIN todo : todo[i].target = t
      BY <2>1, FreshTypes, ToWriteTypes
    <2>7. WriteInv'
      BY <2>2, <2>3, <2>4, <2>5 DEF WriteInv, Right
    <2>8. SettledInv'
      BY <2>2, <2>3 DEF SettledInv, AllRight, Right
    <2>9. QED
      BY <2>7, <2>8
  <1>9. CASE WriteRow
    <2>1. SettledInv'
      BY <1>9, WriteRowElsewhere DEF SettledInv, AllRight, Right
    <2>2. WriteInv'
      <3>1. CASE ~job'.whole
        BY <3>1 DEF WriteInv
      <3>2. CASE job'.whole
        <4>1. /\ Latest /\ job' = [job EXCEPT !.todo = Tail(@)]
              /\ journal' = [journal EXCEPT ![job.hash][Head(job.todo).target] = Head(job.todo).verdict]
          BY <1>a, <1>9, <3>2 DEF WriteRow, Jobs
        <4>2. job.whole
          BY <1>a, <3>2, <4>1 DEF Jobs
        <4>3. QED
          BY <1>9, <4>1, <4>2, WriteRowKeeps
      <3>3. QED
        BY <3>1, <3>2
    <2>3. QED
      BY <2>1, <2>2
  <1>10. CASE Finish
    <2>1. job.hash \in Hash
      BY <1>10, <1>b, JobIs DEF Finish, JobOn
    <2>2. \A h \in Hash : judged'[h] =
            IF h # job.hash THEN judged[h]
            ELSE IF job.whole THEN [policy |-> policy, field |-> job.field] ELSE Never
      BY <1>a, <1>10, <2>1 DEF Finish
    <2>3. QED
      BY <1>3, <1>10, <2>2 DEF Finish
  <1>11. CASE JudgementRefused \/ Stop
    <2>1. UNCHANGED <<journal, known>> /\ job' = NoJob /\ CutShort
      BY <1>11 DEF JudgementRefused, Stop
    <2>2. \A h \in Hash : judged'[h] = Never \/ (judged'[h] = judged[h] /\ job.hash # h)
      BY <1>a, <1>b, <2>1 DEF CutShort
    <2>3. QED
      BY <1>3, <2>1, <2>2
  <1>12. CASE UNCHANGED vars
    <2>1. UNCHANGED <<journal, known, judged, job, policy>>
      BY <1>12 DEF vars
    <2>2. WriteInv'
      BY <2>1 DEF WriteInv, Right, Fresh, KnownFilenames
    <2>3. SettledInv'
      BY <2>1 DEF SettledInv, AllRight, Right
    <2>4. QED
      BY <2>2, <2>3
  <1>13. QED
    BY <1>4, <1>5, <1>6, <1>7, <1>8, <1>9, <1>10, <1>11, <1>12 DEF Next, Observed

LEMMA RightIsCurrent ==
  ASSUME Base, NEW h \in Hash, judged[h] # Never, job.hash # h, SettledInv
  PROVE  LET fresh == Evaluate(judged[h].policy, known[h], judged[h].field)
         IN  /\ Current(h) = DOMAIN fresh
             /\ \A t \in Current(h) : journal[h][t] = fresh[t]
  <1> DEFINE fresh == Evaluate(judged[h].policy, known[h], judged[h].field)
  <1>1. judged[h].policy \in Policy /\ judged[h].field \in Field /\ known[h] \in SUBSET Name
    BY DEF Base, OfKnown, Types
  <1>2. /\ DOMAIN fresh \subseteq Target
        /\ \A t \in DOMAIN fresh : fresh[t] \in Stored /\ fresh[t].tier \in DOMAIN TierRank
    BY <1>1, EvaluateTypes
  <1>3. AllRight(h, fresh)
    BY DEF SettledInv
  <1> HIDE DEF fresh
  <1>4. \A t \in DOMAIN fresh : fresh[t] # NoRow /\ fresh[t].tier # RetractedTier
    BY <1>2, NoneTypes DEF TierRank, RetractedTier
  <1>5. QED
    BY <1>2, <1>3, <1>4 DEF AllRight, Right, Current, fresh

\* The rows of a file judged to the end say what the engine decides, in every state.
LEMMA SettledInvariance == Spec => []SettledInv
  <1>1. Init => WriteInv /\ SettledInv
    BY NoneTypes DEF Init, WriteInv, SettledInv
  <1>2. Base /\ WriteInv /\ SettledInv /\ [Next]_vars => WriteInv' /\ SettledInv'
    BY NextSettled
  <1>3. QED
    BY <1>1, <1>2, BaseInvariance, PTL DEF Spec

\* A file judged to the end carries exactly what the engine decides on all its names, after
\* any history of names, retractions, policies, cut judgements and clocks set back
\* (decisions.py, record_decision_if_changed).
THEOREM SettledAreFresh == Spec => []SettledIsFresh
  <1>1. Base /\ SettledInv => SettledIsFresh
    BY RightIsCurrent DEF SettledIsFresh
  <1>2. QED
    BY <1>1, SettledInvariance, BaseInvariance, PTL

--------------------------------------------------------------------------------
(* The policy of the decisions.                                              *)

Under(h, p) == judged[h] = Never \/ judged[h].policy = p

\* The marker is the policy of the loops, and never that of a sweep under way; the files
\* a sweep has left behind are judged under its policy, and so are all of them when the
\* marker is the policy of the last sweep.
ReplayInv ==
    /\ phase = "loops" => marker = policy
    /\ phase = "sweep" =>
            /\ begun = policy /\ marker # policy
            /\ \A h \in Hash : h \notin rest /\ h # job.hash => Under(h, policy)
    /\ marker = begun => \A h \in Hash : Under(h, begun)

LEMMA NextReplay ==
  ASSUME Base, ReplayInv, [Next]_vars
  PROVE  ReplayInv'
  <1> USE DEF disk, history
  <1>a. judged \in [Hash -> [policy : Policy \cup {NoPolicy}, field : Field \cup {0}]]
    BY DEF Base, Types
  <1>b. NoJob.hash \notin Hash
    BY NoneTypes
  <1>1. ASSUME NEW p \in Policy, Start(p) PROVE ReplayInv'
    <2>1. \A h \in Hash : h \notin ReevaluationRows => judged[h] = Never
      BY DEF Base, OfKnown, ReevaluationRows
    <2>2. UNCHANGED <<judged, marker, job>> /\ policy' = p
      BY <1>1 DEF Start
    <2>3. CASE marker = p
      BY <1>1, <2>2, <2>3 DEF Start, ReplayInv, Under
    <2>4. CASE marker # p
      BY <1>1, <2>1, <2>2, <2>4 DEF Start, ReplayInv, Under
    <2>5. QED
      BY <2>3, <2>4
  <1>2. CASE SweepNext
    <2>1. job' = Begun(Min(rest), latest[Min(rest)].field) /\ rest' = rest \ {Min(rest)}
      BY <1>2 DEF SweepNext
    <2>2. job'.hash = Min(rest)
      BY <2>1 DEF Begun, NoJob
    <2>3. \A h \in Hash : h \notin rest' /\ h # job'.hash => h \notin rest /\ h # job.hash
      BY <1>2, <1>b, <2>1, <2>2 DEF SweepNext
    <2>4. QED
      BY <1>2, <2>3 DEF SweepNext, ReplayInv, Under
  <1>3. CASE StoreMarker
    BY <1>3, <1>b DEF StoreMarker, ReplayInv, Under
  <1>4. ASSUME NEW h \in Hash, NEW seen \in SeenAs[h], Observe(h, seen[1], seen[2])
        PROVE  ReplayInv'
    BY <1>4 DEF Observe, Sighted, ReplayInv, Under
  <1>5. CASE Judge \/ WriteRow
    <2>1. job'.hash = job.hash
      BY <1>5 DEF Judge, WriteRow, Base, Types, Jobs
    <2>2. UNCHANGED <<phase, policy, marker, begun, rest, judged>>
      BY <1>5 DEF Judge, WriteRow
    <2>3. QED
      BY <2>1, <2>2 DEF ReplayInv, Under
  <1>6. CASE Finish
    <2>1. UNCHANGED <<phase, policy, marker, begun, rest>> /\ phase # "down"
      BY <1>6, JobIs, NoneTypes DEF Finish, JobOn
    <2>2. \A h \in Hash : \/ judged'[h] = Never \/ judged'[h].policy = policy
                          \/ judged'[h] = judged[h] /\ h # job.hash
      BY <1>a, <1>6 DEF Finish
    <2>3. QED
      BY <2>1, <2>2 DEF ReplayInv, Under, Base, PhaseOK
  <1>7. CASE JudgementRefused \/ Stop
    <2>1. UNCHANGED <<policy, marker, begun>> /\ CutShort
      <3>1. CASE JudgementRefused
        BY <3>1 DEF JudgementRefused, CutShort
      <3>2. CASE Stop
        BY <3>2 DEF Stop, CutShort
      <3>3. QED
        BY <1>7, <3>1, <3>2
    <2>2. \A h \in Hash : judged'[h] = Never \/ (judged'[h] = judged[h] /\ job.hash # h)
      BY <1>a, <1>b, <2>1 DEF CutShort
    <2>3. phase' = "down" \/ UNCHANGED <<phase, rest>>
      BY <1>7 DEF JudgementRefused, Stop
    <2>4. QED
      BY <2>1, <2>2, <2>3 DEF ReplayInv, Under
  <1>8. CASE UNCHANGED vars
    BY <1>8 DEF vars, ReplayInv, Under
  <1>9. QED
    BY <1>1, <1>2, <1>3, <1>4, <1>5, <1>6, <1>7, <1>8 DEF Next, Observed

\* Once the loops run, every decision is of the policy they run under, however often a
\* sweep was cut short, unless the operator went back to the policy of the marker
\* (run_backfill.py: the marker is stored after the sweep).
THEOREM CutSweepsAreReplayed == Spec => []CutSweepIsReplayed
  <1>1. Init => ReplayInv
    BY DEF Init, ReplayInv, Under
  <1>2. ReplayInv => CutSweepIsReplayed
    BY DEF ReplayInv, Under, CutSweepIsReplayed, JudgedUnderPolicy
  <1>3. Base /\ ReplayInv /\ [Next]_vars => ReplayInv'
    BY NextReplay
  <1>4. QED
    BY <1>1, <1>2, <1>3, BaseInvariance, PTL DEF Spec

--------------------------------------------------------------------------------
(* A policy in order: one more name never lowers what the engine decides.    *)

\* In order, the rule that beats another one is the one before it.
LEMMA OrderedBeats ==
  ASSUME NEW p \in Policy, Ordered(p), NEW i \in DOMAIN Rules[p], NEW j \in DOMAIN Rules[p]
  PROVE  /\ Beats(p, i, j) <=> i < j
         /\ i <= j => RankOf(p, i) >= RankOf(p, j)
  <1>1. i \in Nat /\ j \in Nat /\ RankOf(p, i) \in Int /\ RankOf(p, j) \in Int
    BY RuleTypes DEF RankOf
  <1>2. /\ i < j => RankOf(p, i) >= RankOf(p, j)
        /\ j < i => RankOf(p, j) >= RankOf(p, i)
    BY DEF Ordered, RankOf
  <1>3. Beats(p, i, j) <=>
            RankOf(p, i) > RankOf(p, j) \/ (RankOf(p, i) = RankOf(p, j) /\ i < j)
    BY DEF Beats, RankOf
  <1>4. i = j => RankOf(p, i) = RankOf(p, j)
    OBVIOUS
  <1>5. QED
    BY <1>1, <1>2, <1>3, <1>4

\* The best rule of a target is the first that any name fires.
LEMMA OrderedBest ==
  ASSUME NEW p \in Policy, Ordered(p), NEW names \in SUBSET Name, NEW f \in Field
  PROVE  LET best == BestRules(p, names, f)
         IN  /\ DOMAIN best \subseteq Target
             /\ \A t \in DOMAIN best :
                    /\ best[t] \in DOMAIN Rules[p]
                    /\ \E n \in names \ Long : best[t] \in Fires[p][t][n][f]
             /\ \A t \in Target, n \in names \ Long : \A i \in Fires[p][t][n][f] :
                    t \in DOMAIN best /\ best[t] <= i
  <1> DEFINE best == BestRules(p, names, f)
  <1>1. /\ DOMAIN best = {u \in Target : FirstRules(p, u, names, f) # {}}
        /\ \A t \in DOMAIN best :
               /\ best[t] \in FirstRules(p, t, names, f)
               /\ best[t] \in DOMAIN Rules[p]
               /\ \A j \in FirstRules(p, t, names, f) \ {best[t]} : Beats(p, best[t], j)
    BY BestRulesTypes
  <1> HIDE DEF best
  <1>2. ASSUME NEW t \in DOMAIN best
        PROVE  \E n \in names \ Long : best[t] \in Fires[p][t][n][f]
    <2>1. t \in Target /\ best[t] \in FirstRules(p, t, names, f)
      BY <1>1
    <2>2. PICK n \in names \ Long : best[t] = Min(Fires[p][t][n][f]) /\ Fires[p][t][n][f] # {}
      BY <2>1, FirstRulesTypes
    <2>3. Min(Fires[p][t][n][f]) \in Fires[p][t][n][f]
      BY <2>1, <2>2, FirstRulesTypes
    <2>4. QED
      BY <2>2, <2>3
  <1>3. ASSUME NEW t \in Target, NEW n \in names \ Long, NEW i \in Fires[p][t][n][f]
        PROVE  t \in DOMAIN best /\ best[t] <= i
    <2> DEFINE first == Min(Fires[p][t][n][f])
    <2>1. first \in FirstRules(p, t, names, f) /\ first <= i
      BY FirstRulesTypes
    <2>2. t \in DOMAIN best
      BY <1>1, <2>1
    <2>3. FirstRules(p, t, names, f) \subseteq DOMAIN Rules[p]
      BY FirstRulesTypes
    <2>4. i \in DOMAIN Rules[p]
      BY MatchingAssumption
    <2> HIDE DEF first
    <2>5. first \in Nat /\ i \in Nat /\ best[t] \in Nat /\ best[t] \in DOMAIN Rules[p]
          /\ first \in DOMAIN Rules[p]
      BY <1>1, <2>1, <2>2, <2>3, <2>4, RuleTypes
    <2>6. best[t] = first \/ Beats(p, best[t], first)
      BY <1>1, <2>1, <2>2
    <2>7. best[t] <= first
      BY <2>5, <2>6, OrderedBeats
    <2>8. QED
      BY <2>1, <2>2, <2>5, <2>7
  <1>4. QED
    BY <1>1, <1>2, <1>3 DEF best

\* When nothing fans out, the single winner of a match exists and no rule is before its own.
LEMMA WinnerExists ==
  ASSUME NEW p \in Policy, Ordered(p), NEW best, DOMAIN best \in SUBSET Target,
         \A t \in DOMAIN best : best[t] \in DOMAIN Rules[p], DOMAIN best # {}
  PROVE  \E w \in SingleWinner(p, best) : \A t \in DOMAIN best : best[w] <= best[t]
  <1> DEFINE rules == {best[t] : t \in DOMAIN best}
  <1>1. rules \in SUBSET DOMAIN Rules[p] /\ rules # {}
    OBVIOUS
  <1>2. PICK r \in rules : \A s \in rules : r <= s
    <2>1. rules \subseteq Int /\ IsFiniteSet(rules)
      <3> HIDE DEF rules
      <3>1. QED
        BY <1>1, RuleTypes, FS_Subset
    <2> HIDE DEF rules
    <2>2. QED
      BY <1>1, <2>1, SmallestExists
  <1> DEFINE first == {t \in DOMAIN best : best[t] = r}
  <1>3. first \in SUBSET Target /\ first # {}
    OBVIOUS
  <1>4. PICK w \in first : \A t \in first : w <= t
    <2> HIDE DEF first
    <2>1. first \subseteq Int /\ IsFiniteSet(first)
      <3>1. IsFiniteSet(Target) /\ Target \subseteq Int
        BY TargetTypes
      <3>2. QED
        BY ONLY <1>3, <3>1, FS_Subset
    <2>2. QED
      BY <1>3, <2>1, SmallestExists
  <1>5. w \in DOMAIN best /\ best[w] = r
    OBVIOUS
  <1>6. ASSUME NEW t \in DOMAIN best
        PROVE  /\ best[w] <= best[t]
               /\ t # w => Beats(p, best[w], best[t]) \/ (best[w] = best[t] /\ w < t)
    <2>1. best[w] <= best[t]
      BY <1>2, <1>5
    <2>2. best[t] = best[w] => w <= t
      BY <1>4, <1>5
    <2>3. best[w] \in Nat /\ best[t] \in Nat /\ w \in Nat /\ t \in Nat
      BY <1>5, RuleTypes, TargetTypes
    <2>4. best[w] < best[t] => Beats(p, best[w], best[t])
      BY <1>5, OrderedBeats
    <2> HIDE DEF first, rules
    <2>5. QED
      BY <2>1, <2>2, <2>3, <2>4
  <1>7. w \in SingleWinner(p, best)
    BY <1>5, <1>6 DEF SingleWinner
  <1>8. QED
    BY <1>6, <1>7

\* What the engine decides on more names: no target is decided lower, and one that it
\* decides no more gives way to another at least as strong (engine.py: the pinned segments
\* of an episode, the single winner of the catch-alls).
LEMMA MoreNamesDecideHigher ==
  ASSUME NEW p \in Policy, Ordered(p), NEW more \in SUBSET Name, NEW names \in SUBSET more,
         NEW f \in Field, NEW t \in DOMAIN Evaluate(p, names, f)
  PROVE  LET rank == TierRank[Evaluate(p, names, f)[t].tier]
             fresh == Evaluate(p, more, f)
         IN  /\ t \in DOMAIN fresh => rank <= TierRank[fresh[t].tier]
             /\ \E u \in DOMAIN fresh : rank <= TierRank[fresh[u].tier]
  <1> DEFINE old == BestRules(p, names, f)
             best == BestRules(p, more, f)
             fresh == Evaluate(p, more, f)
             fanned == FanOut(p, best)
             i == old[t]
             j == best[t]
  <1>a. names \in SUBSET Name
    OBVIOUS
  <1>1. /\ DOMAIN old \subseteq Target /\ t \in DOMAIN old
        /\ Evaluate(p, names, f)[t] = Rules[p][i]
        /\ i \in DOMAIN Rules[p] /\ \E n \in names \ Long : i \in Fires[p][t][n][f]
    <2>1. t \in DOMAIN old /\ Evaluate(p, names, f)[t] = Rules[p][i]
      BY <1>a, EvaluateTypes
    <2>2. /\ DOMAIN old \subseteq Target
          /\ \A u \in DOMAIN old :
                 /\ old[u] \in DOMAIN Rules[p]
                 /\ \E n \in names \ Long : old[u] \in Fires[p][u][n][f]
          /\ \A u \in Target, n \in names \ Long : \A k \in Fires[p][u][n][f] :
                 u \in DOMAIN old /\ old[u] <= k
      BY <1>a, OrderedBest
    <2> HIDE DEF old
    <2>3. QED
      BY <2>1, <2>2
  <1>2. /\ DOMAIN best \in SUBSET Target /\ \A u \in DOMAIN best : best[u] \in DOMAIN Rules[p]
        /\ \A u \in DOMAIN best : \E n \in more \ Long : best[u] \in Fires[p][u][n][f]
        /\ \A u \in Target, n \in more \ Long : \A k \in Fires[p][u][n][f] :
                u \in DOMAIN best /\ best[u] <= k
    <2>1. /\ DOMAIN best \subseteq Target
          /\ \A u \in DOMAIN best :
                 /\ best[u] \in DOMAIN Rules[p]
                 /\ \E n \in more \ Long : best[u] \in Fires[p][u][n][f]
          /\ \A u \in Target, n \in more \ Long : \A k \in Fires[p][u][n][f] :
                 u \in DOMAIN best /\ best[u] <= k
      BY OrderedBest
    <2> HIDE DEF best
    <2>2. QED
      BY <2>1
  <1>3. /\ DOMAIN fresh = IF fanned # {} THEN fanned ELSE SingleWinner(p, best)
        /\ \A u \in DOMAIN fresh : fresh[u] = Rules[p][best[u]]
    BY DEF Evaluate
  <1>4. fanned \subseteq DOMAIN best /\ SingleWinner(p, best) \subseteq DOMAIN best
    BY DEF FanOut, SingleWinner
  <1>5. t \in DOMAIN best /\ j <= i /\ j \in DOMAIN Rules[p] /\ t \in Target
    <2>1. PICK n \in names \ Long : i \in Fires[p][t][n][f]
      BY <1>1
    <2>2. n \in more \ Long /\ t \in Target
      BY <1>1
    <2>3. QED
      BY <1>2, <2>1, <2>2
  <1> DEFINE Level(k) == TierRank[Rules[p][k].tier]
  <1>6. \A k \in DOMAIN Rules[p] : k \in Nat /\ Level(k) \in Int /\ Level(k) = RankOf(p, k)
    BY RuleTypes DEF RankOf
  <1>7. \A k, l \in DOMAIN Rules[p] : k <= l => Level(k) >= Level(l)
    BY <1>6, OrderedBeats
  <1> HIDE DEF old, best, fresh, fanned, i, j, Level
  <1>8. Level(i) <= Level(j)
    BY <1>1, <1>5, <1>6, <1>7
  <1>9. \A u \in DOMAIN best : best[u] <= j => Level(i) <= Level(best[u])
    BY <1>1, <1>2, <1>5, <1>6, <1>7, <1>8
  <1>10. t \in DOMAIN fresh => fresh[t] = Rules[p][j]
    BY <1>3 DEF j
  <1>11. \E u \in DOMAIN fresh : best[u] <= j
    <2>1. CASE t \in DOMAIN fresh
      BY <1>5, <1>6, <2>1 DEF j
    <2>2. CASE t \notin DOMAIN fresh /\ fanned = {}
      <3>1. DOMAIN best # {}
        BY <1>5
      <3>2. PICK w \in SingleWinner(p, best) : \A u \in DOMAIN best : best[w] <= best[u]
        BY <1>2, <3>1, WinnerExists
      <3>3. QED
        BY <1>3, <1>5, <2>2, <3>2 DEF j
    <2>3. CASE t \notin DOMAIN fresh /\ fanned # {} /\ Rules[p][j].name \in EpisodeLevel
      <3>1. t \notin fanned
        BY <1>3, <2>3
      <3>2. PICK u \in DOMAIN best : Rules[p][best[u]].name \in SegmentLevel /\ Episode[u] = Episode[t]
        BY <1>5, <2>3, <3>1 DEF FanOut, fanned, j
      <3>3. u \in DOMAIN fresh /\ u \in Target
        BY <1>2, <1>3, <2>3, <3>2 DEF FanOut, fanned
      <3>4. PICK n \in more \ Long : j \in Fires[p][t][n][f]
        BY <1>2, <1>5 DEF j
      <3>5. n \in Name
        OBVIOUS
      <3>6. j \in Fires[p][u][n][f]
        BY <1>5, <2>3, <3>2, <3>3, <3>4, <3>5 DEF Ordered
      <3>7. QED
        BY <1>2, <3>3, <3>4, <3>6
    <2>4. CASE t \notin DOMAIN fresh /\ fanned # {} /\ Rules[p][j].name \notin EpisodeLevel
      <3>1. PICK u \in fanned : TRUE
        BY <2>4
      <3>2. u \in DOMAIN fresh /\ u \in DOMAIN best
            /\ Rules[p][best[u]].name \in SegmentLevel \cup EpisodeLevel
        BY <1>3, <1>4, <2>4, <3>1 DEF FanOut, fanned
      <3>3. Rules[p][j].name \notin SegmentLevel
        BY <1>3, <1>5, <2>4 DEF FanOut, fanned, j
      <3>4. ~(j < best[u])
        BY <1>2, <1>5, <2>4, <3>2, <3>3 DEF Ordered
      <3>5. QED
        BY <1>2, <1>5, <1>6, <3>2, <3>4
    <2>5. QED
      BY <2>1, <2>2, <2>3, <2>4
  <1>12. \A u \in DOMAIN fresh : u \in DOMAIN best /\ TierRank[fresh[u].tier] = Level(best[u])
    BY <1>3, <1>4 DEF Level
  <1>13. TierRank[Evaluate(p, names, f)[t].tier] = Level(i)
    BY <1>1 DEF Level
  <1>14. QED
    BY <1>8, <1>9, <1>10, <1>11, <1>12, <1>13 DEF fresh, j, Level

--------------------------------------------------------------------------------
(* A name more never demotes a file.                                         *)

\* The rows of a file, and the tiers of those that are current.
CurrentRows(rows) == {t \in Target : rows[t] # NoRow /\ rows[t].tier # RetractedTier}
Ranks(rows) == {-1} \cup {TierRank[rows[t].tier] : t \in CurrentRows(rows)}

LEMMA RanksTypes ==
  ASSUME NEW rows \in [Target -> {NoRow} \cup Stored]
  PROVE  /\ Ranks(rows) \subseteq -1 .. 2
         /\ Max(Ranks(rows)) \in Ranks(rows) /\ \A r \in Ranks(rows) : r <= Max(Ranks(rows))
  <1>1. ASSUME NEW t \in CurrentRows(rows) PROVE TierRank[rows[t].tier] \in 0 .. 2
    <2>1. rows[t] \in Stored /\ rows[t] # Retraction
      <3>1. t \in Target /\ rows[t] # NoRow /\ rows[t].tier # RetractedTier
        BY DEF CurrentRows
      <3>2. Retraction.tier = RetractedTier
        BY DEF Retraction
      <3>3. QED
        BY <3>1, <3>2
    <2>2. PICK p \in Policy : rows[t] \in Range(Rules[p])
      BY <2>1 DEF Stored
    <2>3. PICK i \in DOMAIN Rules[p] : rows[t] = Rules[p][i]
      BY <2>2 DEF Range
    <2>4. QED
      BY <2>3, RuleTypes
  <1>2. Ranks(rows) \in SUBSET (-1 .. 2) /\ Ranks(rows) # {}
    BY <1>1 DEF Ranks
  <1>3. IsFiniteSet(-1 .. 2) /\ -1 .. 2 \subseteq Int
    <2>1. -1 \in Int /\ 2 \in Int
      OBVIOUS
    <2>2. IsFiniteSet(-1 .. 2)
      BY <2>1, FS_Interval, Zenon
    <2>3. QED
      BY <2>2
  <1>4. Ranks(rows) \subseteq Int /\ IsFiniteSet(Ranks(rows))
    BY <1>2, <1>3, FS_Subset
  <1>5. QED
    BY <1>2, <1>4, MaxIsLargest

LEMMA NotDemoted ==
  ASSUME NEW old \in [Target -> {NoRow} \cup Stored], NEW new \in [Target -> {NoRow} \cup Stored],
         \A t \in CurrentRows(old) : \E u \in CurrentRows(new) :
            TierRank[old[t].tier] <= TierRank[new[u].tier]
  PROVE  ~(Max(Ranks(new)) < Max(Ranks(old)))
  <1> DEFINE high == Max(Ranks(old))
             low == Max(Ranks(new))
  <1>1. /\ Ranks(old) \subseteq -1 .. 2 /\ Ranks(new) \subseteq -1 .. 2
        /\ high \in Ranks(old) /\ low \in Ranks(new) /\ \A r \in Ranks(new) : r <= low
    BY RanksTypes
  <1> HIDE DEF high, low
  <1>2. high \in Int /\ low \in Int
    BY <1>1
  <1>3. CASE high = -1
    <2>1. -1 \in Ranks(new)
      BY DEF Ranks
    <2>2. -1 <= low
      BY <1>1, <2>1
    <2>3. QED
      BY <1>2, <1>3, <2>2 DEF high, low
  <1>4. CASE high # -1
    <2>1. PICK t \in CurrentRows(old) : high = TierRank[old[t].tier]
      BY <1>1, <1>4 DEF Ranks
    <2>2. PICK u \in CurrentRows(new) : high <= TierRank[new[u].tier]
      BY <2>1
    <2>3. TierRank[new[u].tier] \in Ranks(new)
      BY DEF Ranks
    <2>4. TierRank[new[u].tier] \in Int /\ TierRank[new[u].tier] <= low
      BY <1>1, <2>3
    <2>5. high <= low
      BY <1>2, <2>2, <2>4
    <2>6. QED
      BY <1>2, <2>5 DEF high, low
  <1>5. QED
    BY <1>3, <1>4

\* No current row of a file is above what will replace it, or above what stays.
Climbs(h, fresh) ==
    \A t \in CurrentRows(journal[h]) :
        /\ t \in DOMAIN fresh => TierRank[journal[h][t].tier] <= TierRank[fresh[t].tier]
        /\ \E u \in DOMAIN fresh : TierRank[journal[h][t].tier] <= TierRank[fresh[u].tier]

\* A file judged again under the policy and the fields of its last judgement carries what
\* the engine decided on some of its names, until its rows are written; then it only climbs.
ClimbInv ==
    job # NoJob /\ judged[job.hash] = [policy |-> policy, field |-> job.field] =>
        /\ job.step = "judge" =>
              \E names \in SUBSET known[job.hash] :
                  AllRight(job.hash, Evaluate(policy, names, job.field))
        /\ job.step = "write" /\ job.whole => Climbs(job.hash, Fresh(job.hash))

\* The rows of a file after one of them was written.
Follows(rows, h, t, fresh) ==
    /\ rows[t] = IF t \in DOMAIN fresh THEN fresh[t] ELSE Retraction
    /\ \A x \in Target : x # t => rows[x] = journal[h][x]

\* What the writing of one row keeps.
LEMMA RowClimbs ==
  ASSUME NEW h \in Hash, NEW fresh, NEW t \in Target, NEW rows, Climbs(h, fresh),
         Follows(rows, h, t, fresh), \A u \in DOMAIN fresh : fresh[u].tier \in DOMAIN TierRank
  PROVE  \A x \in CurrentRows(rows) :
            /\ x \in DOMAIN fresh => TierRank[rows[x].tier] <= TierRank[fresh[x].tier]
            /\ \E u \in DOMAIN fresh : TierRank[rows[x].tier] <= TierRank[fresh[u].tier]
  <1> SUFFICES ASSUME NEW x \in CurrentRows(rows)
               PROVE  /\ x \in DOMAIN fresh => TierRank[rows[x].tier] <= TierRank[fresh[x].tier]
                      /\ \E u \in DOMAIN fresh : TierRank[rows[x].tier] <= TierRank[fresh[u].tier]
    OBVIOUS
  <1>1. x \in Target /\ rows[x] # NoRow /\ rows[x].tier # RetractedTier
    BY DEF CurrentRows
  <1>2. CASE x = t
    <2>1. x \in DOMAIN fresh /\ rows[x] = fresh[x]
      <3>1. Retraction.tier = RetractedTier
        BY DEF Retraction
      <3>2. t \in DOMAIN fresh
        BY <1>1, <1>2, <3>1 DEF Follows
      <3>3. QED
        BY <1>2, <3>2 DEF Follows
    <2>2. TierRank[fresh[x].tier] \in Int
      BY <2>1 DEF TierRank
    <2>3. QED
      BY <2>1, <2>2
  <1>3. CASE x # t
    <2>1. rows[x] = journal[h][x] /\ x \in CurrentRows(journal[h])
      BY <1>1, <1>3 DEF CurrentRows, Follows
    <2>2. QED
      BY <2>1 DEF Climbs
  <1>4. QED
    BY <1>2, <1>3

\* The current rows are retracted when what the engine decides is all written.
LEMMA RowDemotesNothing ==
  ASSUME NEW h \in Hash, NEW fresh, NEW t \in Target, NEW rows,
         journal \in [Hash -> [Target -> {NoRow} \cup Stored]], Climbs(h, fresh),
         DOMAIN fresh \in SUBSET Target, \A u \in DOMAIN fresh : fresh[u] \in Stored,
         \A u \in DOMAIN fresh : fresh[u].tier \in DOMAIN TierRank,
         t \in DOMAIN fresh \/ \A u \in DOMAIN fresh : journal[h][u] = fresh[u],
         rows = [journal[h] EXCEPT ![t] = IF t \in DOMAIN fresh THEN fresh[t] ELSE Retraction]
  PROVE  \A x \in CurrentRows(journal[h]) : \E u \in CurrentRows(rows) :
            TierRank[journal[h][x].tier] <= TierRank[rows[u].tier]
  <1>a. \A u \in DOMAIN fresh :
            /\ fresh[u] # NoRow /\ fresh[u].tier # RetractedTier
            /\ TierRank[fresh[u].tier] \in Int
    BY NoneTypes DEF TierRank, RetractedTier
  <1>c. ASSUME NEW x \in CurrentRows(journal[h])
        PROVE  TierRank[journal[h][x].tier] \in Int
    <2>1. journal[h] \in [Target -> {NoRow} \cup Stored]
      OBVIOUS
    <2>2. TierRank[journal[h][x].tier] \in Ranks(journal[h])
      BY DEF Ranks
    <2>3. Ranks(journal[h]) \subseteq -1 .. 2
      BY <2>1, RanksTypes
    <2>4. QED
      BY <2>2, <2>3
  <1> SUFFICES ASSUME NEW x \in CurrentRows(journal[h])
               PROVE  \E u \in CurrentRows(rows) :
                        TierRank[journal[h][x].tier] <= TierRank[rows[u].tier]
    OBVIOUS
  <1>1. CASE x # t
    <2>1. rows[x] = journal[h][x] /\ x \in CurrentRows(rows)
      BY <1>1 DEF CurrentRows
    <2>2. QED
      BY <1>c, <2>1
  <1>2. CASE x = t /\ t \in DOMAIN fresh
    <2>1. rows[x] = fresh[x] /\ x \in CurrentRows(rows)
      BY <1>2, <1>a DEF CurrentRows
    <2>2. TierRank[journal[h][x].tier] <= TierRank[fresh[x].tier]
      BY <1>2 DEF Climbs
    <2>3. QED
      BY <2>1, <2>2
  <1>3. CASE x = t /\ t \notin DOMAIN fresh
    <2>1. PICK u \in DOMAIN fresh : TierRank[journal[h][x].tier] <= TierRank[fresh[u].tier]
      BY DEF Climbs
    <2>2. journal[h][u] = fresh[u] /\ u \in Target
      BY <1>3
    <2>3. rows[u] = fresh[u]
      BY <1>3, <2>2
    <2>4. u \in CurrentRows(rows)
      BY <1>a, <2>2, <2>3 DEF CurrentRows
    <2>5. QED
      BY <2>1, <2>3, <2>4
  <1>4. QED
    BY <1>1, <1>2, <1>3

LEMMA NextClimbs ==
  ASSUME \A p \in Policy : Ordered(p), Base, Base', WriteInv, SettledInv, ClimbInv, [Next]_vars
  PROVE  /\ ClimbInv'
         /\ \A h \in Hash : Strongest(h)' < Strongest(h) =>
                ~job.whole \/ judged[h] # [policy |-> policy, field |-> job.field]
  <1> USE DEF disk, history
  <1> DEFINE Kept == \A h \in Hash : Strongest(h)' < Strongest(h) =>
                        ~job.whole \/ judged[h] # [policy |-> policy, field |-> job.field]
  <1>a. /\ job \in Jobs /\ known \in [Hash -> SUBSET Name]
        /\ journal \in [Hash -> [Target -> {NoRow} \cup Stored]]
        /\ journal' \in [Hash -> [Target -> {NoRow} \cup Stored]]
    BY DEF Base, Types
  <1>b. NoJob.step = "idle" /\ NoJob.hash \notin Hash
    BY NoneTypes
  <1>c. /\ \A h \in Hash : Strongest(h) = Max(Ranks(journal[h]))
        /\ \A h \in Hash : Strongest(h)' = Max(Ranks(journal'[h]))
        /\ \A h \in Hash : Current(h) = CurrentRows(journal[h])
    BY DEF Strongest, Current, Ranks, CurrentRows
  <1>d. \A h \in Hash : journal'[h] = journal[h] => ~(Strongest(h)' < Strongest(h))
    <2> SUFFICES ASSUME NEW h \in Hash, journal'[h] = journal[h]
                 PROVE  ~(Max(Ranks(journal'[h])) < Max(Ranks(journal[h])))
      BY <1>c
    <2>1. Max(Ranks(journal[h])) \in Int
      <3>1. journal[h] \in [Target -> {NoRow} \cup Stored]
        BY <1>a
      <3>2. Max(Ranks(journal[h])) \in -1 .. 2
        BY <3>1, RanksTypes
      <3>3. QED
        BY <3>2
    <2>2. QED
      BY <2>1
  <1>e. journal' = journal => Kept
    BY <1>d
  <1> SUFFICES ClimbInv' /\ Kept
    OBVIOUS
  <1> HIDE DEF Kept
  \* A job begins on a file that was judged, or was not.
  <1>1. ASSUME job = NoJob, job'.step = "judge", job'.hash \in Hash,
               UNCHANGED <<journal, judged, policy>>,
               \A h \in Hash : known[h] \subseteq known'[h]
        PROVE  ClimbInv'
    <2>a. PICK h \in Hash : h = job'.hash
      BY <1>1
    <2>b. PICK f : f = job'.field
      OBVIOUS
    <2>1. CASE judged[h] # [policy |-> policy, field |-> f]
      BY <1>1, <2>a, <2>b, <2>1 DEF ClimbInv
    <2>2. CASE judged[h] = [policy |-> policy, field |-> f]
      <3>1. policy \in Policy
        BY <1>1, <1>b DEF Base, PhaseOK, JobOn
      <3>2. judged[h] # Never /\ job.hash # h
        BY <1>1, <1>b, <2>2, <3>1, NoPolicyAssumption DEF Never
      <3>3. AllRight(h, Evaluate(policy, known[h], f))
        BY <2>2, <3>2 DEF SettledInv
      <3>4. \E old : old = Evaluate(policy, known[h], f) /\ AllRight(h, old)'
        <4>0. PICK old : old = Evaluate(policy, known[h], f)
          OBVIOUS
        <4>1. \A t \in Target : Right(h, t, old)
          BY <3>3, <4>0 DEF AllRight
        <4>2. \A t \in Target : IF t \in DOMAIN old THEN journal'[h][t] = old[t]
                                ELSE journal'[h][t] = NoRow \/ journal'[h][t].tier = RetractedTier
          BY <1>1, <4>1 DEF Right
        <4>3. \A t \in Target : Right(h, t, old)'
          BY <4>2 DEF Right
        <4>4. AllRight(h, old)'
          BY <4>3 DEF AllRight
        <4>5. QED
          BY <4>0, <4>4
      <3>5. known[h] \in SUBSET known'[h]
        BY <1>1
      <3>6. QED
        BY <1>1, <2>a, <2>b, <3>4, <3>5 DEF ClimbInv
    <2>3. QED
      BY <2>1, <2>2
  <1>2. ASSUME UNCHANGED <<journal, job>>, job = NoJob PROVE ClimbInv'
    BY <1>2 DEF ClimbInv
  <1>3. ASSUME job' = NoJob PROVE ClimbInv'
    BY <1>3 DEF ClimbInv
  <1>4. ASSUME NEW p \in Policy, Start(p) PROVE ClimbInv' /\ Kept
    BY <1>2, <1>e, <1>4 DEF Start, Base, PhaseOK, JobOn
  <1>5. CASE SweepNext
    <2>1. job = NoJob /\ UNCHANGED <<journal, judged, policy, known>>
      BY <1>5 DEF SweepNext
    <2>2. job'.step = "judge"
      BY <1>5 DEF SweepNext, Begun, NoJob
    <2>3. job'.hash \in Hash
      BY <1>b, <2>2 DEF Base, PhaseOK, JobOn
    <2>4. QED
      BY <1>1, <1>e, <2>1, <2>2, <2>3
  <1>6. CASE StoreMarker
    BY <1>2, <1>e, <1>6 DEF StoreMarker
  <1>7. ASSUME NEW h \in Hash, NEW seen \in SeenAs[h], Observe(h, seen[1], seen[2])
        PROVE  ClimbInv' /\ Kept
    <2>1. /\ job = NoJob /\ known' = [known EXCEPT ![h] = @ \cup {seen[1]}]
          /\ job' = Begun(h, seen[2]) /\ UNCHANGED <<journal, judged, policy>>
      BY <1>7 DEF Observe, Sighted
    <2>2. \A g \in Hash : known[g] \subseteq known'[g]
      BY <1>a, <2>1
    <2>3. job'.hash \in Hash /\ job'.step = "judge"
      BY <2>1, NoneTypes, CatalogueAssumption
    <2>4. QED
      BY <1>1, <1>e, <2>1, <2>2, <2>3
  <1>8. CASE Judge
    <2> DEFINE h == job.hash
               fresh == Fresh(h)
    <2>1. JobOn /\ job # NoJob /\ job.step = "judge"
      BY <1>8, <1>b, JobIs DEF Judge
    <2>2. /\ job' = [job EXCEPT !.step = "write", !.todo = ToWrite(job.hash, Fresh(job.hash))]
          /\ UNCHANGED <<journal, known, policy, judged>>
      BY <1>8 DEF Judge
    <2>3. job'.hash = h /\ job'.field = job.field /\ job'.step = "write"
      BY <1>a, <2>2 DEF Jobs
    <2>4. Fresh(h)' = fresh
      BY <2>2, <2>3 DEF Fresh, KnownFilenames
    <2>5. /\ fresh = Evaluate(policy, known[h], job.field)
          /\ policy \in Policy /\ known[h] \in SUBSET Name /\ job.field \in Field
      BY <2>1, FreshTypes
    <2>6. ASSUME judged[h] = [policy |-> policy, field |-> job.field] PROVE Climbs(h, fresh)
      <3>1. PICK names \in SUBSET known[h] : AllRight(h, Evaluate(policy, names, job.field))
        BY <2>1, <2>6 DEF ClimbInv
      <3> SUFFICES ASSUME NEW t \in CurrentRows(journal[h])
                   PROVE  /\ t \in DOMAIN fresh =>
                                TierRank[journal[h][t].tier] <= TierRank[fresh[t].tier]
                          /\ \E u \in DOMAIN fresh :
                                TierRank[journal[h][t].tier] <= TierRank[fresh[u].tier]
        BY DEF Climbs
      <3> DEFINE old == Evaluate(policy, names, job.field)
      <3>2. t \in Target /\ Right(h, t, old) /\ journal[h][t] # NoRow
            /\ journal[h][t].tier # RetractedTier
        BY <3>1 DEF AllRight, CurrentRows
      <3>3. t \in DOMAIN old /\ journal[h][t] = old[t]
        BY <3>2 DEF Right
      <3>4. Ordered(policy)
        BY <2>5
      <3>5. QED
        BY <2>5, <3>3, <3>4, MoreNamesDecideHigher
    <2>7. ClimbInv'
      BY <2>2, <2>3, <2>4, <2>6 DEF ClimbInv, Climbs
    <2>8. QED
      BY <1>e, <2>2, <2>7
  <1>9. CASE WriteRow
    <2> DEFINE next == Head(job.todo)
    <2>a. JobOn /\ job # NoJob
      BY <1>9, <1>b, JobIs DEF WriteRow
    <2>b. PICK h \in Hash : h = job.hash
      BY <2>a DEF JobOn
    <2>c. PICK fresh : fresh = Fresh(h)
      OBVIOUS
    <2>1. job.step = "write" /\ job.todo \in Seq(Row) /\ job.todo # <<>>
      BY <1>a, <1>9 DEF WriteRow, Jobs
    <2>2. /\ DOMAIN fresh \in SUBSET Target
          /\ \A u \in DOMAIN fresh : fresh[u] \in Stored /\ fresh[u].tier \in DOMAIN TierRank
      BY <2>a, <2>b, <2>c, FreshTypes
    <2>3. /\ UNCHANGED <<known, policy, judged>> /\ job'.hash = h /\ job'.field = job.field
          /\ job'.step = "write"
          /\ \A g \in Hash, t \in Target : g # h => journal'[g][t] = journal[g][t]
      BY <1>9, <2>b, WriteRowElsewhere
    <2>4. Fresh(h)' = fresh
      BY <2>3, <2>c DEF Fresh, KnownFilenames
    <2>5. \A g \in Hash : g # h => journal'[g] = journal[g]
      BY <1>a, <2>3
    <2>6. CASE UNCHANGED journal
      <3>1. job'.whole => job.whole
        BY <1>9, <1>a DEF WriteRow, Jobs
      <3>2. ClimbInv'
        BY <2>a, <2>b, <2>c, <2>1, <2>3, <2>4, <2>6, <3>1 DEF ClimbInv, Climbs
      <3>3. QED
        BY <1>e, <2>6, <3>2
    <2>7. CASE /\ Latest /\ job' = [job EXCEPT !.todo = Tail(@)]
               /\ journal' = [journal EXCEPT ![job.hash][next.target] = next.verdict]
      <3>1. job'.whole = job.whole
        BY <1>a, <2>7 DEF Jobs
      <3>2. CASE ~job.whole
        BY <2>3, <3>1, <3>2 DEF ClimbInv, Kept
      <3>3. CASE job.whole
        <4>1. /\ next.target \in Target
              /\ next.verdict = IF next.target \in DOMAIN fresh
                                THEN fresh[next.target] ELSE Retraction
          BY <1>9, <2>b, <2>c, <2>7, <3>3, WriteRowKeeps
        <4>2. journal'[h] = [journal[h] EXCEPT ![next.target] =
                                IF next.target \in DOMAIN fresh
                                THEN fresh[next.target] ELSE Retraction]
          BY <1>a, <2>b, <2>7, <4>1
        <4>3. /\ Todo(job.todo, fresh)
              /\ \A u \in Target : \/ Right(h, u, fresh)
                                   \/ \E i \in DOMAIN job.todo : job.todo[i].target = u
          BY <2>b, <2>c, <2>1, <3>3 DEF WriteInv
        <4>4. CASE judged[h] # [policy |-> policy, field |-> job.field]
          <5>1. ClimbInv'
            BY <2>3, <4>4 DEF ClimbInv
          <5>2. Kept
            BY <1>d, <2>5, <4>4 DEF Kept
          <5>3. QED
            BY <5>1, <5>2
        <4>5. CASE judged[h] = [policy |-> policy, field |-> job.field]
          <5>1. Climbs(h, fresh)
            BY <2>a, <2>b, <2>c, <2>1, <3>3, <4>5 DEF ClimbInv
          <5>a. journal'[h] \in [Target -> {NoRow} \cup Stored] /\ journal[h] \in [Target -> {NoRow} \cup Stored]
            BY <1>a
          <5> HIDE DEF next
          <5>2. \A x \in CurrentRows(journal'[h]) :
                   /\ x \in DOMAIN fresh =>
                         TierRank[journal'[h][x].tier] <= TierRank[fresh[x].tier]
                   /\ \E u \in DOMAIN fresh :
                         TierRank[journal'[h][x].tier] <= TierRank[fresh[u].tier]
            <6> DEFINE t == next.target
                       rows == journal'[h]
            <6>1. t \in Target /\ Follows(rows, h, t, fresh)
              BY <1>a, <4>1, <4>2 DEF Follows
            <6>2. \A u \in DOMAIN fresh : fresh[u].tier \in DOMAIN TierRank
              BY <2>2
            <6> HIDE DEF t, rows
            <6>3. \A x \in CurrentRows(rows) :
                     /\ x \in DOMAIN fresh => TierRank[rows[x].tier] <= TierRank[fresh[x].tier]
                     /\ \E u \in DOMAIN fresh : TierRank[rows[x].tier] <= TierRank[fresh[u].tier]
              BY <5>1, <6>1, <6>2, RowClimbs
            <6>4. QED
              BY <6>3 DEF rows
          <5>b. PICK t \in Target : t = next.target
            BY <4>1
          <5>c. PICK rows : rows = journal'[h]
            OBVIOUS
          <5>d. rows = [journal[h] EXCEPT ![t] = IF t \in DOMAIN fresh THEN fresh[t] ELSE Retraction]
            BY <4>2, <5>b, <5>c
          <5>3. \A x \in CurrentRows(journal[h]) : \E u \in CurrentRows(journal'[h]) :
                   TierRank[journal[h][x].tier] <= TierRank[journal'[h][u].tier]
            <6>1. t \in DOMAIN fresh \/ \A u \in DOMAIN fresh : journal[h][u] = fresh[u]
              <7>1. SUFFICES ASSUME t \notin DOMAIN fresh, NEW u \in DOMAIN fresh
                             PROVE  journal[h][u] = fresh[u]
                OBVIOUS
              <7>2. 1 \in DOMAIN job.todo /\ job.todo[1].target = t
                BY <2>1, <5>b DEF next
              <7>3. ASSUME NEW i \in DOMAIN job.todo, job.todo[i].target = u PROVE FALSE
                <8>1. i \in Nat /\ i # 1 /\ i >= 1
                  BY <2>1, <7>1, <7>2, <7>3
                <8>2. QED
                  BY <4>3, <7>1, <7>2, <7>3, <8>1 DEF Todo
              <7>4. QED
                BY <2>2, <4>3, <7>1, <7>3 DEF Right
            <6>2. \A x \in CurrentRows(journal[h]) : \E u \in CurrentRows(rows) :
                     TierRank[journal[h][x].tier] <= TierRank[rows[u].tier]
              BY <1>a, <2>2, <5>1, <5>d, <6>1, RowDemotesNothing
            <6>3. QED
              BY <5>c, <6>2
          <5>4. ~(Strongest(h)' < Strongest(h))
            BY <1>c, <5>a, <5>3, NotDemoted
          <5>5. Kept
            BY <1>d, <2>5, <5>4 DEF Kept
          <5>6. ClimbInv'
            BY <2>3, <2>4, <5>2 DEF ClimbInv, Climbs
          <5>7. QED
            BY <5>5, <5>6
        <4>6. QED
          BY <4>4, <4>5
      <3>4. QED
        BY <1>a, <3>2, <3>3 DEF Jobs
    <2>8. QED
      BY <1>9, <2>6, <2>7 DEF WriteRow
  <1>10. CASE Finish \/ JudgementRefused \/ Stop
    <2>1. job' = NoJob /\ journal' = journal
      BY <1>10 DEF Finish, JudgementRefused, Stop
    <2>2. QED
      BY <1>3, <1>e, <2>1
  <1>11. CASE UNCHANGED vars
    <2>1. UNCHANGED <<journal, known, judged, job, policy>>
      BY <1>11 DEF vars
    <2>2. ClimbInv'
      BY <2>1 DEF ClimbInv, Climbs, AllRight, Right, Fresh, KnownFilenames
    <2>3. QED
      BY <1>e, <2>1, <2>2
  <1>12. QED
    BY <1>4, <1>5, <1>6, <1>7, <1>8, <1>9, <1>10, <1>11 DEF Next, Observed

\* Under policies in order, as the one that is deployed, one more name of a file never takes
\* its strongest tier, at no moment of the rewriting of its rows: only another policy or
\* other fields do, or a clock set back (decisions.py: the decisions are written before the
\* retractions; engine.py: the whole set of names is judged at once).
THEOREM NamesDemoteNothing ==
  ASSUME \A p \in Policy : Ordered(p)
  PROVE  Spec => NeverDemotedByAName
  <1>1. Init => WriteInv /\ SettledInv /\ ClimbInv
    BY NoneTypes DEF Init, WriteInv, SettledInv, ClimbInv
  <1>2. Base /\ WriteInv /\ SettledInv /\ ClimbInv /\ [Next]_vars
            => WriteInv' /\ SettledInv' /\ ClimbInv'
    BY NextBase, NextSettled, NextClimbs
  <1>3. Base /\ WriteInv /\ SettledInv /\ ClimbInv /\ [Next]_vars
            => [\A h \in Hash : Strongest(h)' < Strongest(h) =>
                   ~job.whole \/ judged[h] # [policy |-> policy, field |-> job.field]]_vars
    BY NextBase, NextClimbs
  <1>4. QED
    BY <1>1, <1>2, <1>3, BaseInvariance, PTL DEF Spec, NeverDemotedByAName

--------------------------------------------------------------------------------
(* What the web UI reads of the journals.                                    *)

\* The files to list have a name to sort by, and their current decisions a tier.
LEMMA RowsTypes ==
  ASSUME Base
  PROVE  /\ Hash \subseteq Nat /\ IsFiniteSet(Hash) /\ Cardinality(Hash) = LastHash
         /\ \A h \in Hash : Strongest(h) \in Int
         /\ \A h \in ReevaluationRows : h \in Hash /\ latest[h].name \in Name
         /\ \A h \in Hash : \A t \in Current(h) :
                /\ h \in ReevaluationRows /\ t \in Target
                /\ Tier(h, t) \in DOMAIN TierRank /\ TierRank[Tier(h, t)] \in 0 .. 2
  <1>1. Hash \subseteq Nat /\ IsFiniteSet(Hash) /\ Cardinality(Hash) = LastHash
    <2>1. LastHash \in Nat /\ 1 \in Int /\ LastHash \in Int
      BY CatalogueAssumption
    <2>2. IsFiniteSet(1 .. LastHash)
          /\ Cardinality(1 .. LastHash) = IF 1 > LastHash THEN 0 ELSE LastHash - 1 + 1
      BY <2>1, FS_Interval
    <2>3. QED
      BY <2>1, <2>2 DEF Hash
  <1>2. ASSUME NEW h \in Hash PROVE Strongest(h) \in Int
    <2>1. journal[h] \in [Target -> {NoRow} \cup Stored]
      BY DEF Base, Types
    <2>2. Strongest(h) = Max(Ranks(journal[h]))
      BY DEF Strongest, Ranks, Current, CurrentRows
    <2>3. Max(Ranks(journal[h])) \in -1 .. 2
      BY <2>1, RanksTypes
    <2>4. QED
      BY <2>2, <2>3
  <1>3. ASSUME NEW h \in ReevaluationRows PROVE h \in Hash /\ latest[h].name \in Name
    BY DEF ReevaluationRows, Base, OfKnown, Types
  <1>4. ASSUME NEW h \in Hash, NEW t \in Current(h)
        PROVE  /\ h \in ReevaluationRows /\ t \in Target
               /\ Tier(h, t) \in DOMAIN TierRank /\ TierRank[Tier(h, t)] \in 0 .. 2
    <2>1. t \in Target /\ journal[h][t] # NoRow /\ journal[h][t].tier # RetractedTier
      BY DEF Current
    <2>2. journal[h][t] \in Stored /\ journal[h][t] # Retraction
      <3>1. journal[h][t] \in {NoRow} \cup Stored
        BY <2>1 DEF Base, Types
      <3>2. Retraction.tier = RetractedTier
        BY DEF Retraction
      <3>3. QED
        BY <2>1, <3>1, <3>2
    <2>3. PICK p \in Policy : journal[h][t] \in Range(Rules[p])
      BY <2>2 DEF Stored
    <2>4. PICK i \in DOMAIN Rules[p] : journal[h][t] = Rules[p][i]
      BY <2>3 DEF Range
    <2>5. Tier(h, t) \in DOMAIN TierRank /\ TierRank[Tier(h, t)] \in 0 .. 2
      BY <2>4, RuleTypes DEF Tier
    <2>6. h \in ReevaluationRows
      BY <2>1 DEF ReevaluationRows, Base, OfKnown
    <2>7. QED
      BY <2>1, <2>5, <2>6
  <1>5. QED
    BY <1>1, <1>2, <1>3, <1>4

\* What a sort puts before a file: a strict total order, the hash settling the ties.
LEMMA SortsAreOrders ==
  ASSUME Base, NEW listed \in SUBSET ReevaluationRows, NEW sort \in Sorts
  PROVE  /\ \A g, h \in listed : g # h => Before(sort, g, h) \/ Before(sort, h, g)
         /\ \A f, g, h \in listed :
                f # g /\ g # h /\ Before(sort, f, g) /\ Before(sort, g, h)
                    => f # h /\ Before(sort, f, h)
  <1> DEFINE Key(h) == SortKey(sort.column, h)
  <1>1. \A h \in listed : Key(h) \in Int /\ h \in Int
    <2> SUFFICES ASSUME NEW h \in listed PROVE Key(h) \in Int /\ h \in Int
      OBVIOUS
    <2>1. h \in Hash /\ h \in Nat /\ latest[h].name \in Nat /\ Strongest(h) \in Int
      BY RowsTypes, ViewsAssumption
    <2>2. QED
      BY <2>1 DEF SortKey
  <1>2. \A g, h : Before(sort, g, h) <=>
            IF Key(g) = Key(h) THEN g < h
                               ELSE (sort.direction = "asc") <=> (Key(g) < Key(h))
    BY DEF Before
  <1> HIDE DEF Key
  <1>3. CASE sort.direction = "asc"
    <2>1. \A g, h : Before(sort, g, h) <=>
              IF Key(g) = Key(h) THEN g < h ELSE Key(g) < Key(h)
      BY <1>2, <1>3
    <2>2. QED
      BY <1>1, <2>1
  <1>4. CASE sort.direction # "asc"
    <2>1. \A g, h : Before(sort, g, h) <=>
              IF Key(g) = Key(h) THEN g < h ELSE ~(Key(g) < Key(h))
      BY <1>2, <1>4
    <2>2. QED
      BY <1>1, <2>1
  <1>5. QED
    BY <1>3, <1>4

\* A page holds the files whose position is in its interval; it is full as long as there are
\* as many files, so the next links lead to the page of every position.
LEMMA PagesCover == ASSUME Base PROVE PagesCoverTheList
  <1> SUFFICES ASSUME NEW listed \in SUBSET ReevaluationRows, NEW sort \in Sorts
               PROVE  LET page == [p \in 1 .. LastHash + 1 |-> ListFiles(sort, p, listed)]
                          reached == {p \in DOMAIN page : \A q \in 1 .. p - 1 : HasNext(page[q])}
                      IN  /\ UNION {page[p] : p \in reached} = listed
                          /\ \A p \in reached : Cardinality(page[p]) <= PageSize
                          /\ \A p, q \in reached : p # q => page[p] \cap page[q] = {}
    BY Zenon DEF PagesCoverTheList
  <1> DEFINE page == [p \in 1 .. LastHash + 1 |-> ListFiles(sort, p, listed)]
             reached == {p \in DOMAIN page : \A q \in 1 .. p - 1 : HasNext(page[q])}
             below == [h \in listed |-> {g \in listed \ {h} : Before(sort, g, h)}]
             rank == [h \in listed |-> Cardinality(below[h])]
             n == Cardinality(listed)
  <1>1. IsFiniteSet(listed) /\ n \in Nat /\ n <= LastHash
    <2>1. listed \in SUBSET Hash
      BY DEF ReevaluationRows
    <2>2. QED
      BY <2>1, RowsTypes, FS_Subset, FS_CardinalityType
  <1>2. rank \in Bijection(listed, 0 .. n - 1)
    <2>1. below \in [listed -> SUBSET listed]
      OBVIOUS
    <2>2. \A h \in listed : h \notin below[h]
      OBVIOUS
    <2>3. \A g, h \in listed : g \in below[h] => below[g] \subseteq below[h]
      BY SortsAreOrders
    <2>4. \A g, h \in listed : g = h \/ g \in below[h] \/ h \in below[g]
      BY SortsAreOrders
    <2> HIDE DEF below
    <2>5. QED
      BY <1>1, <2>1, <2>2, <2>3, <2>4, RanksAreDense
  <1>3. \A p \in DOMAIN page :
            page[p] = {h \in listed : rank[h] \in (p - 1) * PageSize .. p * PageSize - 1}
    BY DEF ListFiles, Position
  <1>4. DOMAIN page = 1 .. LastHash + 1 /\ LastHash \in Nat /\ PageSize \in Nat \ {0}
    BY CatalogueAssumption, ViewsAssumption
  <1>5. \A h \in listed : rank[h] \in 0 .. n - 1
    BY <1>2 DEF Bijection, Injection
  <1> HIDE DEF page, rank, n, below
  <1>6. ASSUME NEW p \in DOMAIN page
        PROVE  /\ Cardinality(page[p]) \in Nat /\ Cardinality(page[p]) <= PageSize
               /\ p * PageSize <= n => HasNext(page[p])
    <2> DEFINE a == (p - 1) * PageSize
               b == p * PageSize - 1
    <2>1. p \in Nat /\ p - 1 \in Nat /\ a \in Nat /\ b \in Int /\ b - a + 1 = PageSize
      <3>1. p \in Nat /\ p - 1 \in Nat
        BY <1>4
      <3>2. p * PageSize \in Nat /\ a \in Nat /\ a = p * PageSize - PageSize
        BY <1>4, <3>1, Intervals
      <3> HIDE DEF a
      <3>3. QED
        BY <1>4, <3>1, <3>2
    <2>2. page[p] = {h \in listed : rank[h] \in a .. b}
      BY <1>3
    <2>3. p * PageSize <= n => b < n
      BY <1>1, <1>4, <2>1
    <2>4. a <= b + 1
      BY <1>4, <2>1
    <2> HIDE DEF a, b
    <2>5. /\ Cardinality(page[p]) \in Nat /\ Cardinality(page[p]) <= b - a + 1
          /\ b < n => Cardinality(page[p]) = b - a + 1
      <3>1. n \in Nat /\ a \in Nat /\ b \in Int
        BY <1>1, <2>1
      <3>2. QED
        BY <1>1, <1>2, <2>2, <2>4, <3>1, RankedInterval
    <2>6. QED
      BY <1>4, <2>1, <2>3, <2>5 DEF HasNext
  <1>7. ASSUME NEW p \in DOMAIN page, NEW q \in DOMAIN page, p < q
        PROVE  page[p] \cap page[q] = {}
    <2>1. p \in Nat /\ q - 1 \in Nat /\ p <= q - 1
      BY <1>4, <1>7
    <2>2. p * PageSize <= (q - 1) * PageSize /\ p * PageSize \in Nat /\ (q - 1) * PageSize \in Nat
      BY <1>4, <2>1, Intervals
    <2>3. \A h \in listed : rank[h] \in Int
      BY <1>1, <1>5
    <2> DEFINE a == (q - 1) * PageSize
               b == p * PageSize
    <2>4. page[p] \subseteq {h \in listed : rank[h] < b} /\ page[q] \subseteq {h \in listed : a <= rank[h]}
      <3>1. \A h \in page[p] : h \in listed /\ rank[h] \in (p - 1) * PageSize .. b - 1
        BY <1>3
      <3>2. \A h \in page[q] : h \in listed /\ rank[h] \in a .. q * PageSize - 1
        BY <1>3
      <3>3. \A h \in page[p] : rank[h] <= b - 1
        BY <3>1
      <3>4. \A h \in page[q] : a <= rank[h]
        BY <3>2
      <3>5. b \in Int /\ a \in Int
        BY <2>2
      <3> HIDE DEF a, b
      <3>6. QED
        BY <2>3, <3>1, <3>2, <3>3, <3>4, <3>5
    <2>5. b <= a /\ b \in Int /\ a \in Int
      BY <2>2
    <2> HIDE DEF a, b
    <2>6. QED
      BY <2>3, <2>4, <2>5
  <1>8. ASSUME NEW h \in listed PROVE \E p \in reached : h \in page[p]
    <2>1. rank[h] \in Nat /\ rank[h] < n
      BY <1>1, <1>5
    <2>2. PICK p \in 1 .. rank[h] + 1 : rank[h] \in (p - 1) * PageSize .. p * PageSize - 1
      BY <1>4, <2>1, Intervals
    <2>3. p \in DOMAIN page
      BY <1>1, <1>4, <2>1, <2>2
    <2>4. h \in page[p]
      BY <1>3, <2>2, <2>3
    <2>5. ASSUME NEW q \in 1 .. p - 1 PROVE HasNext(page[q])
      <3>1. q \in DOMAIN page /\ q \in Nat /\ p - 1 \in Nat /\ q <= p - 1
        BY <1>4, <2>3
      <3>2. q * PageSize <= (p - 1) * PageSize /\ q * PageSize \in Nat /\ (p - 1) * PageSize \in Nat
        BY <1>4, <3>1, Intervals
      <3>3. (p - 1) * PageSize <= rank[h]
        BY <2>2
      <3>4. q * PageSize <= n
        BY <1>1, <2>1, <3>2, <3>3
      <3>5. QED
        BY <1>6, <3>1, <3>4
    <2>6. p \in reached
      BY <2>3, <2>5
    <2>7. QED
      BY <2>4, <2>6
  <1>9. reached \subseteq DOMAIN page
    OBVIOUS
  <1> HIDE DEF reached
  <1>10. UNION {page[p] : p \in reached} = listed
    <2>1. \A p \in reached : page[p] \subseteq listed
      BY <1>3, <1>9
    <2>2. QED
      BY <1>8, <2>1
  <1>11. \A p, q \in reached : p # q => page[p] \cap page[q] = {}
    <2> SUFFICES ASSUME NEW p \in reached, NEW q \in reached, p # q
                 PROVE  page[p] \cap page[q] = {}
      OBVIOUS
    <2>1. p \in DOMAIN page /\ q \in DOMAIN page /\ (p < q \/ q < p)
      BY <1>4, <1>9
    <2>2. QED
      BY <1>7, <2>1
  <1>12. \A p \in reached : Cardinality(page[p]) <= PageSize
    BY <1>6, <1>9
  <1>13. QED
    BY <1>10, <1>11, <1>12 DEF page, reached

\* The filters of the target and of the name, alone.
Narrowed(target, query) == Filtered([target |-> target, tier |-> AnyTier, query |-> query])

\* A facet opens the files that hold its tier, all of them matched.
LEMMA FacetsOpenTheirFiles ==
  ASSUME NEW target, NEW query, NEW tier \in DOMAIN TierRank
  PROVE  LET held == {h \in Narrowed(target, query) : Holds(h, tier)}
         IN  CountFiles([target |-> target, tier |-> tier, query |-> query])
                = [total |-> Cardinality(held), matched |-> Cardinality(held)]
  <1> DEFINE filter == [target |-> target, tier |-> tier, query |-> query]
             held == {h \in Narrowed(target, query) : Holds(h, tier)}
  <1>1. tier # AnyTier
    BY DEF TierRank, AnyTier
  <1>2. Filtered(filter) = held
    BY <1>1 DEF Filtered, Narrowed
  <1>3. \A h \in held : IsMatched(h)
    BY DEF Holds, IsMatched
  <1>4. Listed(filter, FALSE) = held /\ Listed(filter, TRUE) = held
    BY <1>2, <1>3 DEF Listed
  <1>5. QED
    BY <1>4 DEF CountFiles

\* Hence its number is their number, and a tier without facet opens nothing.
LEMMA FacetsAreLists ==
  ASSUME NEW target, NEW query
  PROVE  LET counts == TierCounts(target, query)
             Opened(tier) == CountFiles([target |-> target, tier |-> tier, query |-> query])
         IN  /\ \A tier \in DOMAIN counts :
                    Opened(tier) = [total |-> counts[tier], matched |-> counts[tier]]
             /\ \A tier \in DOMAIN TierRank \ DOMAIN counts : Opened(tier).total = 0
  <1> DEFINE files == Narrowed(target, query)
             counts == TierCounts(target, query)
             Opened(tier) == CountFiles([target |-> target, tier |-> tier, query |-> query])
             Held(tier) == {h \in files : Holds(h, tier)}
  <1>1. counts = [tier \in {k \in DOMAIN TierRank : \E h \in files : Holds(h, k)} |->
                    Cardinality(Held(tier))]
    BY DEF TierCounts, Narrowed
  <1>2. \A tier \in DOMAIN TierRank :
            Opened(tier) = [total |-> Cardinality(Held(tier)), matched |-> Cardinality(Held(tier))]
    BY FacetsOpenTheirFiles
  <1> HIDE DEF counts, Opened, Held, files
  <1>3. \A tier \in DOMAIN counts : tier \in DOMAIN TierRank /\ counts[tier] = Cardinality(Held(tier))
    BY <1>1
  <1>4. ASSUME NEW tier \in DOMAIN TierRank \ DOMAIN counts PROVE Opened(tier).total = 0
    <2>1. Held(tier) = {}
      BY <1>1 DEF Held
    <2>2. Opened(tier).total = Cardinality(Held(tier))
      BY <1>2
    <2>3. QED
      BY <2>1, <2>2, FS_EmptySet
  <1>5. QED
    BY <1>2, <1>3, <1>4 DEF counts, Opened

\* The dashboard counts, of a target, the files its list holds, and reads the best of them.
LEMMA CoverageIsAList ==
  ASSUME Base, NEW t \in Target
  PROVE  /\ CoverageFor(t).file_count =
                CountFiles([target |-> t, tier |-> AnyTier, query |-> AnyName]).total
         /\ CoverageFor(t).status = "found" <=> \E h \in Hash : <<h, t>> \in DownloadDecisions
  <1> DEFINE filter == [target |-> t, tier |-> AnyTier, query |-> AnyName]
             identified == {h \in TargetCoverage(t) : Tier(h, t) # "catalog"}
             ranks == {-1} \cup {TierRank[Tier(h, t)] : h \in identified}
             best == Max(ranks)
  <1>1. CoverageFor(t) = [status |-> IF identified = {} THEN "none"
                             ELSE IF best = TierRank["download"] THEN "found" ELSE "partial",
                          file_count |-> Cardinality(identified)]
    BY Zenon DEF CoverageFor
  <1>2. t # AnyTarget
    BY TargetTypes DEF AnyTarget
  <1>3. \A h \in identified : /\ h \in Hash /\ t \in Current(h) /\ h \in ReevaluationRows
                              /\ latest[h].name \in Name
                              /\ Tier(h, t) \in DOMAIN TierRank /\ TierRank[Tier(h, t)] \in 0 .. 2
    BY RowsTypes DEF TargetCoverage
  <1>4. Listed(filter, FALSE) = identified
    <2>1. \A h \in identified : h \in Filtered(filter)
      BY <1>2, <1>3 DEF Filtered, OfTarget, AnyName, AnyTier
    <2>2. \A h \in Filtered(filter) : h \in identified
      BY <1>2 DEF Filtered, OfTarget, TargetCoverage, ReevaluationRows
    <2>3. Listed(filter, FALSE) = Filtered(filter)
      BY DEF Listed
    <2> HIDE DEF filter, identified
    <2>4. QED
      BY <2>1, <2>2, <2>3
  <1>5. CountFiles(filter).total = Cardinality(identified)
    BY <1>4 DEF CountFiles
  <1>6. TierRank["download"] = 2 /\ TierRank["notify"] = 1 /\ TierRank["catalog"] = 0
        /\ DOMAIN TierRank = {"catalog", "notify", "download"}
    BY DEF TierRank
  <1>7. ranks \subseteq Int /\ IsFiniteSet(ranks) /\ ranks # {}
    <2>1. ranks \in SUBSET (-1 .. 2) /\ ranks # {}
      BY <1>3
    <2>2. IsFiniteSet(-1 .. 2) /\ -1 .. 2 \subseteq Int
      <3>1. -1 \in Int /\ 2 \in Int
        OBVIOUS
      <3>2. IsFiniteSet(-1 .. 2)
        BY <3>1, FS_Interval, Zenon
      <3>3. QED
        BY <3>2
    <2> HIDE DEF ranks
    <2>3. QED
      BY <2>1, <2>2, FS_Subset
  <1>8. best \in ranks /\ \A r \in ranks : best >= r
    <2> HIDE DEF ranks
    <2>1. QED
      BY <1>7, MaxIsLargest
  <1>9. best = 2 <=> \E h \in identified : Tier(h, t) = "download"
    <2>1. ASSUME best = 2 PROVE \E h \in identified : Tier(h, t) = "download"
      <3>1. 2 \in ranks
        BY <1>8, <2>1
      <3>2. PICK h \in identified : TierRank[Tier(h, t)] = 2
        BY <3>1
      <3>3. QED
        BY <1>3, <1>6, <3>2
    <2>2. ASSUME NEW h \in identified, Tier(h, t) = "download" PROVE best = 2
      <3>1. 2 \in ranks
        BY <1>6, <2>2
      <3>2. \A r \in ranks : r \in -1 .. 2
        BY <1>3
      <3> HIDE DEF ranks, best
      <3>3. QED
        BY <1>8, <3>1, <3>2
    <2>3. QED
      BY <2>1, <2>2
  <1>10. (\E h \in identified : Tier(h, t) = "download")
            <=> \E h \in Hash : <<h, t>> \in DownloadDecisions
    <2>1. \A h \in Hash : <<h, t>> \in DownloadDecisions <=> Tier(h, t) = "download"
      BY DEF DownloadDecisions, Tier
    <2>2. \A h \in Hash : Tier(h, t) = "download" => h \in identified
      <3> SUFFICES ASSUME NEW h \in Hash, Tier(h, t) = "download" PROVE h \in identified
        OBVIOUS
      <3>1. journal[h][t] # NoRow /\ journal[h][t].tier # RetractedTier
        BY DEF Tier, NoRow, RetractedTier
      <3>2. t \in Current(h)
        BY <3>1 DEF Current
      <3>3. QED
        BY <3>2 DEF TargetCoverage
    <2>3. \A h \in identified : h \in Hash
      BY <1>3
    <2> HIDE DEF identified
    <2>4. QED
      BY <2>1, <2>2, <2>3
  <1> HIDE DEF identified, best, filter
  <1>11. CoverageFor(t).status = "found" <=> identified # {} /\ best = 2
    BY <1>1, <1>6
  <1>12. CoverageFor(t).file_count = Cardinality(identified)
    BY <1>1
  <1>13. QED
    BY <1>5, <1>9, <1>10, <1>11, <1>12 DEF filter

\* Every number is the length of a list.
LEMMA NumbersAre == ASSUME Base PROVE NumbersAreLists
  BY FacetsAreLists, CoverageIsAList DEF NumbersAreLists

\* The only name that was judged is the latest one, so it fires the rule that was chosen.
LEMMA DetailExplains == ASSUME Base, SettledInv PROVE DetailExplainsTheRule
  <1> SUFFICES ASSUME NEW h \in Hash, known[h] = {latest[h].name}, Current(h) # {}, job.hash # h,
                      judged[h] = [policy |-> policy, field |-> latest[h].field]
               PROVE  \E i \in Explanation(h) : Rules[policy][i] = journal[h][Min(Current(h))]
    BY DEF DetailExplainsTheRule
  <1> DEFINE t == Min(Current(h))
             n == latest[h].name
             f == latest[h].field
             fresh == Evaluate(policy, known[h], f)
             best == BestRules(policy, known[h], f)
  <1>1. /\ known[h] \in SUBSET Name /\ h \in ReevaluationRows
        /\ n \in known[h] /\ f \in Field
    <2>1. h \in ReevaluationRows
      BY RowsTypes
    <2>2. QED
      BY <2>1 DEF Base, Types, OfKnown, ReevaluationRows
  <1>2. known[h] = {n}
    OBVIOUS
  <1>3. judged[h] # Never /\ judged[h].policy = policy /\ judged[h].field = f
    BY <1>1, CatalogueAssumption DEF Never
  <1>4. policy \in Policy
    BY <1>3 DEF Base, OfKnown
  <1>5. Current(h) = DOMAIN fresh /\ \A u \in Current(h) : journal[h][u] = fresh[u]
    BY <1>3, RightIsCurrent
  <1>6. t \in Current(h) /\ t \in Target
    <2>1. Current(h) \in SUBSET Target
      BY DEF Current
    <2>2. Current(h) \subseteq Int /\ IsFiniteSet(Current(h))
      <3>1. Target \subseteq Int /\ IsFiniteSet(Target)
        BY TargetTypes
      <3>2. QED
        BY <2>1, <3>1, FS_Subset
    <2>3. QED
      BY <2>1, <2>2, MinIsSmallest
  <1> HIDE DEF n, f, t
  <1>7. t \in DOMAIN best /\ journal[h][t] = Rules[policy][best[t]]
    <2>1. /\ DOMAIN fresh \subseteq DOMAIN best
          /\ \A u \in DOMAIN fresh : fresh[u] = Rules[policy][best[u]]
      <3>1. policy \in Policy /\ known[h] \in SUBSET Name /\ f \in Field
        BY <1>1, <1>4
      <3>2. QED
        BY <3>1, EvaluateTypes
    <2> HIDE DEF fresh, best
    <2>2. QED
      BY <1>5, <1>6, <2>1
  <1>8. best[t] \in FirstRules(policy, t, known[h], f)
    BY <1>1, <1>4, <1>7, BestRulesTypes
  <1>9. PICK m \in known[h] \ Long :
                best[t] = Min(Fires[policy][t][m][f]) /\ Fires[policy][t][m][f] # {}
    <2>1. \A i \in FirstRules(policy, t, known[h], f) : \E m \in known[h] \ Long :
                i = Min(Fires[policy][t][m][f]) /\ Fires[policy][t][m][f] # {}
      BY DEF FirstRules
    <2> HIDE DEF best
    <2>2. QED
      BY <1>8, <2>1
  <1>10. best[t] \in Fires[policy][t][m][f]
    <2>1. Min(Fires[policy][t][m][f]) \in Fires[policy][t][m][f]
      BY <1>1, <1>4, <1>6, <1>9, FirstRulesTypes
    <2>2. QED
      BY <1>9, <2>1
  <1>11. Explanation(h) = Fires[policy][t][n][f]
    BY <1>6 DEF Explanation, RulesFired, t, n, f
  <1>12. m = n
    BY <1>2
  <1>13. QED
    BY <1>7, <1>10, <1>11, <1>12 DEF t

\* What the web UI reads is one catalogue, whatever was stopped, refused or stamped before
\* its time: the pages reached by their next links hold every file of any list once, in
\* every sort; a facet and the dashboard count the files their lists open; a decision is
\* explained by the rule that made it (catalog_read.py, coverage.py, explain).
THEOREM ReadersAgree == Spec => []ViewsAgree
  <1>1. Base /\ SettledInv => ViewsAgree
    BY PagesCover, NumbersAre, DetailExplains DEF ViewsAgree
  <1>2. QED
    BY <1>1, SettledInvariance, BaseInvariance, PTL

================================================================================
