------------------------------ MODULE MCCatalogue -------------------------------
(* Instances of Catalogue and its views for TLC, under the policy of deploy/matcher.yml. *)
EXTENDS CatalogueViews, MatcherPolicy

--------------------------------------------------------------------------------
(* The targets and the names.                                                *)

\* Two segments of one episode and one segment of another.
Segments == ParseTargets(<< [absolute |-> 72, segments |-> <<"a", "b">>],
                            [absolute |-> 73, segments |-> <<"a">>] >>)
Episodes == [t \in DOMAIN Segments |-> Segments[t].absolute]
Titles == <<"title 1", "title 2", "title 3">>

\* The names: a catch-all, a bare number with a source marker, a number with its letter, the
\* same of the other episode, and a name too long to be looked at.
Names == 1 .. 5

\* The patterns that are found, for all targets or for the one they are interpolated with.
Patterns ==
    LET Everywhere(names) == (1 .. 3) \X names
    IN  [keroro |-> Everywhere(Names), titar |-> {}, foreign_lang |-> {}, not_episode |-> {},
         teletoon |-> {}, idf1 |-> {}, vf |-> Everywhere({2}),
         segment_id |-> {<<1, 3>>, <<3, 4>>} \cup Everywhere({5}),
         segment_id_loose |-> {<<1, 2>>, <<2, 2>>},
         episode_number |-> Everywhere({2, 5}),
         is_video |-> Everywhere(Names), is_archive |-> {}]
Scores == [text \in Range(Titles) |-> [fuzz \in {85} |-> [n \in Names |-> 0]]]

\* The size of the first fields is not known.
Attributes == <<[size_mb |-> Missing], [size_mb |-> 200]>>

--------------------------------------------------------------------------------
(* The policies.                                                             *)

Ref(name) == [token |-> name]
AllOf(names) == [all |-> [i \in DOMAIN names |-> Ref(names[i])]]
AnyOf(names) == [any |-> [i \in DOMAIN names |-> Ref(names[i])]]
NotOf(name) == [not |-> Ref(name)]
Rule(name, tier, operands) == [name |-> name, tier |-> tier, all |-> operands]
Refd(names) == [i \in DOMAIN names |-> Ref(names[i])]

Tokens ==
    [keroro |-> [keyword |-> "keroro"], titar |-> [keyword |-> "titar"],
     keroro_titar |-> AnyOf(<<"keroro", "titar">>),
     foreign_lang |-> [regex |-> "foreign_lang"], french_safe |-> NotOf("foreign_lang"),
     is_keroro |-> AllOf(<<"french_safe", "keroro_titar">>),
     not_episode |-> [regex |-> "not_episode"],
     is_episode |-> [all |-> <<Ref("is_keroro"), NotOf("not_episode")>>],
     teletoon |-> [regex |-> "teletoon"], idf1 |-> [regex |-> "idf1"], vf |-> [regex |-> "vf"],
     source_marker |-> AnyOf(<<"teletoon", "idf1", "vf">>),
     segment_id |-> [regex |-> "segment_id"], segment_id_loose |-> [regex |-> "segment_id_loose"],
     episode_number |-> [regex |-> "episode_number"],
     title_hit |-> [coverage |-> "title", min |-> 60],
     is_video |-> [regex |-> "is_video"], is_archive |-> [regex |-> "is_archive"],
     sized |-> [attr_between |-> "size_mb", min |-> 30]]

\* The rules of deploy/matcher.yml, but that keroro_large asks for a size.
ShippedRules ==
    << Rule("id_segment_exact", "download", Refd(<<"is_episode", "is_video", "segment_id">>)),
       Rule("title_confirmed", "download",
            Refd(<<"is_episode", "is_video", "title_hit", "source_marker">>)),
       Rule("numero_nu_confirmed", "download",
            Refd(<<"is_episode", "is_video", "segment_id_loose", "source_marker">>)),
       Rule("title_review", "notify", Refd(<<"is_episode", "is_video", "title_hit">>)),
       Rule("numero_nu", "notify", Refd(<<"is_episode", "is_video", "segment_id_loose">>)),
       Rule("archive_candidate", "notify",
            <<Ref("is_episode"), Ref("is_archive"), AnyOf(<<"segment_id", "title_hit", "source_marker">>)>>),
       Rule("keroro_large", "catalog",
            <<Ref("is_episode"), AnyOf(<<"is_video", "is_archive">>), NotOf("episode_number"), Ref("sized")>>) >>

\* The second policy no longer takes vf for a mark of its source.
ConfigOf ==
    LET order == <<"keroro", "titar", "keroro_titar", "foreign_lang", "french_safe", "is_keroro",
                   "not_episode", "is_episode", "teletoon", "idf1", "vf", "source_marker",
                   "segment_id", "segment_id_loose", "episode_number", "title_hit", "is_video",
                   "is_archive", "sized">>
        Config(tokens) == [order |-> order, tokens |-> tokens, rules |-> ShippedRules]
    IN  [marked |-> Config(Tokens),
         bare |-> Config([Tokens EXCEPT !["source_marker"] = AnyOf(<<"teletoon", "idf1">>)])]

RulesOf ==
    [p \in DOMAIN ConfigOf |->
        [i \in DOMAIN ShippedRules |-> [name |-> ShippedRules[i].name, tier |-> ShippedRules[i].tier]]]

\* The rules each name fires, as a table: assumption TreesFire is that the trees give it.
\* The first fields fire no rule that asks for a size.
FiredBy(name, t) ==
    CASE name = 1 -> {7}
      [] name = 2 -> IF t < 3 THEN {3, 5} ELSE {}
      [] name = 3 -> IF t = 1 THEN {1, 7} ELSE {7}
      [] name = 4 -> IF t = 3 THEN {1, 7} ELSE {7}
      [] name = 5 -> {1}
FiresUnder(dropped) ==
    [t \in 1 .. 3 |-> [n \in Names |-> [f \in 1 .. 2 |->
        (FiredBy(n, t) \ dropped) \ (IF f = 1 THEN {7} ELSE {})]]]
FiresOf == [marked |-> FiresUnder({}), bare |-> FiresUnder({3})]

\* Each file has names that decide it alike and differently; the second comes without the
\* fields its rule asks for, and with them.
Sightings == << {<<2, 2>>, <<3, 2>>}, {<<1, 1>>, <<4, 2>>, <<5, 2>>} >>

--------------------------------------------------------------------------------
(* What TLC evaluates before a run: the algorithms of MatcherPolicy.         *)

\* The policies of the runs are accepted, and so are the targets; a letter in the other
\* case is one too many.
Upper == [a |-> "A", b |-> "B", A |-> "A"]
ASSUME PoliciesAccepted ==
    /\ \A p \in DOMAIN ConfigOf : ParseMatcherConfig(ConfigOf[p]) = "ok"
    /\ TargetsAccepted(Segments, Upper)
    /\ ~TargetsAccepted(ParseTargets(<< [absolute |-> 72, segments |-> <<"a", "A">>] >>), Upper)

\* The trees built from each policy fire the rules of the table, for every target and name.
ASSUME TreesFire ==
    \A p \in DOMAIN ConfigOf, t \in 1 .. 3, n \in Names, f \in 1 .. 2 :
        FiresOf[p][t][n][f] = RulesTrue(ConfigOf[p], [target |-> t, name |-> n, field |-> f])

\* The policies of the runs are in order: the theorems that ask for it speak of them.
ASSUME PoliciesOrdered == \A p \in Policy : Ordered(p)

\* Every graph of three tokens, walked in any order: walk() keeps tokens done at one depth
\* and meets them again at another, and yet a config is accepted if, and only if, no chain
\* of references is longer than the bound, and "cycle" is said of a cycle only.
Vertex == {"x", "y", "z"}
GraphConfig(graph, order) ==
    [order |-> order, rules |-> <<>>,
     tokens |-> [v \in Vertex |-> IF graph[v] = {} THEN [keyword |-> v]
                                  ELSE AnyOf(SetToSeq(graph[v]))]]
Chains(graph, n) ==
    {chain \in [1 .. n -> Vertex] : \A i \in 1 .. n - 1 : chain[i + 1] \in graph[chain[i]]}
ASSUME ValidationIsExact ==
    \A graph \in [Vertex -> SUBSET Vertex], order \in SetToSeqs(Vertex), depth \in 1 .. 4 :
        LET verdict == ValidateConfig(GraphConfig(graph, order), depth)
        IN  /\ verdict \in {"ok", "cycle", "depth"}
            /\ (verdict = "ok") <=> (Chains(graph, depth + 1) = {})
            /\ verdict = "cycle" => Chains(graph, 4) # {}

================================================================================
