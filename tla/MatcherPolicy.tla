----------------------------- MODULE MatcherPolicy ------------------------------
(***************************************************************************)
(* matcher.yml and targets.yaml of packages/matching: what is accepted at  *)
(* the start (validation.py), and which rules a file fires under what was  *)
(* accepted (resolver.py, combinators.py, matchers.py).  A mapping of the  *)
(* file is a record with the same keys; a bare token name is the operand   *)
(* [token |-> name].  Fractions are percents.                              *)
(***************************************************************************)
EXTENDS Integers, FiniteSets, SequencesExt

CONSTANTS
    Matched,      \* the targets and names that each keyword or regex matches
    Score,        \* Score[text][fuzz][name]: the coverage of a text by a name
    Title,        \* the title of each target
    Attribute,    \* Attribute[f][a]: the attribute a of fields f, or Missing
    Uncompilable, \* the patterns re.compile or the interpolation refuses
    MaxDepth      \* _DEFAULT_MAX_DEPTH

Missing == -1
ConditionKeys == {"all", "any", "not"}
LeafKeys == {"keyword", "regex", "coverage", "attr_between"}
AttrNames == {"size_mb", "duration_sec", "bitrate_kbps"}
Tiers == {"catalog", "notify", "download"}

Has(raw, keys) == DOMAIN raw \cap keys # {}
One(raw, keys) == Cardinality(DOMAIN raw \cap keys) = 1

\* The operands of a condition; a leaf and a reference have none.
Operands(raw) ==
    CASE "all" \in DOMAIN raw -> raw.all
      [] "any" \in DOMAIN raw -> raw.any
      [] "not" \in DOMAIN raw -> <<raw["not"]>>
      [] OTHER -> <<>>

--------------------------------------------------------------------------------
(* The schema: parse_matcher_config, parse_targets.                          *)

UnitFraction(raw, key) == key \in DOMAIN raw => raw[key] \in 0 .. 100

IsTokenRef(raw) == "token" \in DOMAIN raw /\ UnitFraction(raw, "min") /\ UnitFraction(raw, "fuzz")

\* Exactly one of the three keys, and no empty list: all([]) is true, any([]) never.
RECURSIVE IsCondition(_)
IsCondition(raw) ==
    /\ One(raw, ConditionKeys) /\ Operands(raw) # <<>>
    /\ \A operand \in ToSet(Operands(raw)) :
            IF Has(operand, ConditionKeys) THEN IsCondition(operand) ELSE IsTokenRef(operand)

\* Keys of a leaf beside those of a condition are ignored.
IsTokenDef(raw) ==
    \/ IsCondition(raw)
    \/ /\ ~Has(raw, ConditionKeys) /\ One(raw, LeafKeys)
       /\ "coverage" \in DOMAIN raw =>
            "min" \in DOMAIN raw /\ UnitFraction(raw, "min") /\ UnitFraction(raw, "fuzz")
       /\ "attr_between" \in DOMAIN raw =>
            raw.attr_between \in AttrNames /\ ({"min", "max"} \subseteq DOMAIN raw => raw.min <= raw.max)

IsRule(raw) == raw.name # "" /\ raw.tier \in Tiers /\ IsCondition(raw)

\* The segments of the episodes in order, refused when two have one target_id.
ParseTargets(episodes) ==
    FlattenSeq([e \in DOMAIN episodes |-> [s \in DOMAIN episodes[e].segments |->
        [absolute |-> episodes[e].absolute, segment |-> episodes[e].segments[s]]]])
TargetsAccepted(segments, Upper) ==
    IsInjective([i \in DOMAIN segments |-> <<segments[i].absolute, Upper[segments[i].segment]>>])

--------------------------------------------------------------------------------
(* The graph of the references: validate_config.                             *)

\* The names a definition refers to directly, in order, and those it overrides.
RECURSIVE Refs(_)
Refs(raw) ==
    IF "token" \in DOMAIN raw THEN <<raw.token>>
    ELSE FlattenSeq([i \in DOMAIN Operands(raw) |-> Refs(Operands(raw)[i])])
RECURSIVE Overridden(_)
Overridden(raw) ==
    IF "token" \in DOMAIN raw THEN IF Has(raw, {"min", "fuzz"}) THEN {raw.token} ELSE {}
    ELSE UNION {Overridden(operand) : operand \in ToSet(Operands(raw))}

Definitions(config) == Range(config.tokens) \cup ToSet(config.rules)

ReferencesExist(config) ==
    \A raw \in Definitions(config) : ToSet(Refs(raw)) \subseteq DOMAIN config.tokens
OverridesTargetCoverage(config) ==
    \A raw \in Definitions(config) : \A name \in Overridden(raw) :
        "coverage" \in DOMAIN config.tokens[name]
RegexesCompile(config) ==
    \A raw \in Range(config.tokens) : "regex" \in DOMAIN raw => raw.regex \notin Uncompilable

\* walk: a token that is done is not walked again, whatever the depth it is met at.
RECURSIVE Walk(_, _, _, _)
Walk(config, depth, s, name) ==
    CASE s.verdict # "ok" \/ name \in s.done -> s
      [] s.verdict = "ok" /\ name \in ToSet(s.stack) -> [s EXCEPT !.verdict = "cycle"]
      [] s.verdict = "ok" /\ name \notin ToSet(s.stack) \cup s.done /\ Len(s.stack) >= depth ->
            [s EXCEPT !.verdict = "depth"]
      [] OTHER ->
            LET inside == FoldLeft(LAMBDA t, ref : Walk(config, depth, t, ref),
                                   [s EXCEPT !.stack = Append(@, name)], Refs(config.tokens[name]))
            IN  [inside EXCEPT !.stack = s.stack, !.done = @ \cup {name}]
CheckAcyclic(config, depth) ==
    FoldLeft(LAMBDA s, name : Walk(config, depth, s, name),
             [stack |-> <<>>, done |-> {}, verdict |-> "ok"], config.order).verdict

\* _max_resolution_depth, of a graph without a cycle: a leaf is one deep.
RECURSIVE Depth(_, _)
Depth(config, name) ==
    1 + Max({0} \cup {Depth(config, ref) : ref \in ToSet(Refs(config.tokens[name]))})

\* The error a config is refused with, in the order of the checks.
ValidateConfig(config, depth) ==
    CASE ~ReferencesExist(config) -> "unknown token"
      [] ReferencesExist(config) /\ ~OverridesTargetCoverage(config) -> "override"
      [] OTHER ->
            LET verdict == CheckAcyclic(config, depth)
            IN  CASE verdict # "ok" -> verdict
                  [] verdict = "ok" /\ \E name \in DOMAIN config.tokens : Depth(config, name) > depth -> "depth"
                  [] OTHER -> IF RegexesCompile(config) THEN "ok" ELSE "regex"

ParseMatcherConfig(config) ==
    IF /\ \A raw \in Range(config.tokens) : IsTokenDef(raw)
       /\ \A i \in DOMAIN config.rules : IsRule(config.rules[i])
    THEN ValidateConfig(config, MaxDepth) ELSE "schema"

--------------------------------------------------------------------------------
(* The trees: MatcherResolver and the matchers, for the candidate c of a     *)
(* target, a name and fields.                                                *)

\* The override of a reference stands in for the parameter of the coverage it points to.
Parameter(raw, ref, key, default) ==
    CASE key \in DOMAIN ref -> ref[key]
      [] key \notin DOMAIN ref /\ key \in DOMAIN raw -> raw[key]
      [] OTHER -> default

Covered(raw, ref, c) ==
    LET text == IF raw.coverage = "title" THEN Title[c.target] ELSE raw.coverage
    IN  Score[text][Parameter(raw, ref, "fuzz", 85)][c.name] >= Parameter(raw, ref, "min", 0)

\* A missing attribute is between no bounds, open ones included.
Between(raw, c) ==
    LET value == Attribute[c.field][raw.attr_between]
    IN  /\ value # Missing
        /\ "min" \in DOMAIN raw => value >= raw.min
        /\ "max" \in DOMAIN raw => value <= raw.max

RECURSIVE Matches(_, _, _, _)
Matches(config, raw, ref, c) ==
    LET Of(operand) == IF "token" \in DOMAIN operand
                       THEN Matches(config, config.tokens[operand.token], operand, c)
                       ELSE Matches(config, operand, [token |-> ""], c)
    IN  CASE "all" \in DOMAIN raw -> \A operand \in ToSet(raw.all) : Of(operand)
          [] "any" \in DOMAIN raw -> \E operand \in ToSet(raw.any) : Of(operand)
          [] "not" \in DOMAIN raw -> ~Of(raw["not"])
          [] "keyword" \in DOMAIN raw -> <<c.target, c.name>> \in Matched[raw.keyword]
          [] "regex" \in DOMAIN raw -> <<c.target, c.name>> \in Matched[raw.regex]
          [] "coverage" \in DOMAIN raw -> Covered(raw, ref, c)
          [] "attr_between" \in DOMAIN raw -> Between(raw, c)

\* The trees of the rules are kept by name: of two rules of one name the last is the tree
\* of both.
Tree(config, i) ==
    config.rules[Max({j \in DOMAIN config.rules : config.rules[j].name = config.rules[i].name})]

RulesTrue(config, c) ==
    {i \in DOMAIN config.rules : Matches(config, Tree(config, i), [token |-> ""], c)}

================================================================================
