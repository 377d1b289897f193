-------------------------------- MODULE Matching --------------------------------
(***************************************************************************)
(* The evaluation engine of packages/matching (engine.py): which targets a *)
(* file known under several names is decided for, and by which rule.  The  *)
(* trees of matchers are abstracted to the rules that fire.                *)
(***************************************************************************)
EXTENDS Integers, FiniteSets, FiniteSetsExt, Sequences

CONSTANTS
    Episode,  \* the absolute number of each target; targets are numbered by target_id
    Name,     \* file names
    Long,     \* the names above max_filename_length
    Field,    \* the other fields of a candidate (size, duration, bitrate)
    Policy,   \* what matcher.yml may say
    Rules,    \* the rules of each policy in order, each with a name and a tier
    Fires     \* Fires[p][t][n][f]: the rules of p that are true, for target t, of a
              \* candidate with name n and fields f

Target == DOMAIN Episode
TierRank == [catalog |-> 0, notify |-> 1, download |-> 2]

ASSUME MatchingAssumption ==
    /\ Episode \in Seq(Nat) /\ Long \subseteq Name
    /\ \A p \in Policy : Rules[p] \in Seq([name : STRING, tier : DOMAIN TierRank])
    /\ \A p \in Policy, t \in Target, n \in Name, f \in Field :
            Fires[p][t][n][f] \subseteq DOMAIN Rules[p]

SegmentLevel == {"id_segment_exact", "title_confirmed", "title_review"}
EpisodeLevel == {"numero_nu_confirmed", "numero_nu"}

\* The order in which matches win: the highest tier, then the first rule.
Beats(policy, i, j) ==
    LET rank(k) == TierRank[Rules[policy][k].tier]
    IN  rank(i) > rank(j) \/ (rank(i) = rank(j) /\ i < j)

\* The first matching rule of each name that is short enough to be looked at.
FirstRules(policy, t, names, field) ==
    {Min(fired) : fired \in {Fires[policy][t][n][field] : n \in names \ Long} \ {{}}}

\* The best rule of each target over all the names, for the targets that match at all.
BestRules(policy, names, field) ==
    [t \in {u \in Target : FirstRules(policy, u, names, field) # {}} |->
        LET rules == FirstRules(policy, t, names, field)
        IN  CHOOSE i \in rules : \A j \in rules \ {i} : Beats(policy, i, j)]

\* Per episode, the segments that are pinned; when none is, all its segments.
FanOut(policy, best) ==
    LET At(level) == {t \in DOMAIN best : Rules[policy][best[t]].name \in level}
        Pinned(t) == \E u \in At(SegmentLevel) : Episode[u] = Episode[t]
    IN  At(SegmentLevel) \cup {t \in At(EpisodeLevel) : ~Pinned(t)}

\* One catch-all decision: the best match, the smallest target among equals.
SingleWinner(policy, best) ==
    {t \in DOMAIN best : \A u \in DOMAIN best \ {t} :
        Beats(policy, best[t], best[u]) \/ (best[t] = best[u] /\ t < u)}

\* evaluate_all: the decided targets, each with the rule and the tier to record.
Evaluate(policy, names, field) ==
    LET best == BestRules(policy, names, field)
        fanned == FanOut(policy, best)
    IN  [t \in IF fanned # {} THEN fanned ELSE SingleWinner(policy, best) |->
            Rules[policy][best[t]]]

\* explain: the rules one name fires for one target, none when the policy drops it.
RulesFired(policy, t, n, field) == Fires[policy][t][n][field]

================================================================================
