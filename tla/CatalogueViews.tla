----------------------------- MODULE CatalogueViews -----------------------------
(***************************************************************************)
(* What the web UI reads from the catalogue (webui/adapters/               *)
(* catalog_read.py, webui/domain/coverage.py) and shows of it              *)
(* (webui/composition/app.py): pages of files, counts, facets, coverage.   *)
(* Each operator is one query, at one moment of the journals.              *)
(***************************************************************************)
EXTENDS Catalogue

CONSTANTS
    PageSize,  \* PAGE_SIZE
    Queries    \* what is searched for, as the sets of names that contain it

\* The names are numbered in the order they sort in.
ASSUME ViewsAssumption ==
    /\ PageSize \in Nat \ {0} /\ Name \subseteq Nat
    /\ Queries \subseteq SUBSET Name

AnyTarget == 0
AnyTier == "any"
AnyName == Name

Tier(h, t) == journal[h][t].tier
Holds(h, tier) == \E t \in Current(h) : Tier(h, t) = tier
IsMatched(h) == Current(h) # {}

--------------------------------------------------------------------------------
(* The filter clauses and the reads built on them.                           *)

\* A catch-all decision is pinned to a target without being about it.
OfTarget(h, t) == t \in Current(h) /\ Tier(h, t) # "catalog"

Filtered(filter) ==
    {h \in ReevaluationRows :
        /\ filter.target # AnyTarget => OfTarget(h, filter.target)
        /\ filter.tier # AnyTier => Holds(h, filter.tier)
        /\ latest[h].name \in filter.query}

Listed(filter, matchedOnly) == {h \in Filtered(filter) : matchedOnly => IsMatched(h)}

\* ORDER BY the column (a file without decision has the least tier), then the hash.
SortKey(column, h) == IF column = "tier" THEN Strongest(h) ELSE latest[h].name
Before(sort, g, h) ==
    LET a == SortKey(sort.column, g)  b == SortKey(sort.column, h)
    IN  IF a = b THEN g < h ELSE (sort.direction = "asc") <=> (a < b)

Position(sort, h, listed) == Cardinality({g \in listed \ {h} : Before(sort, g, h)})

\* LIMIT and OFFSET, on the files listed.
ListFiles(sort, page, listed) ==
    {h \in listed : Position(sort, h, listed) \in (page - 1) * PageSize .. page * PageSize - 1}

\* The next link, rendered when the page is full.
HasNext(rows) == Cardinality(rows) >= PageSize

CountFiles(filter) ==
    [total |-> Cardinality(Listed(filter, FALSE)), matched |-> Cardinality(Listed(filter, TRUE))]

\* Variant to refute: a facet counts decisions.
TierCountsOfDecisions(target, query) ==
    LET files == Filtered([target |-> target, tier |-> AnyTier, query |-> query])
    IN  [tier \in {k \in DOMAIN TierRank : \E h \in files : Holds(h, k)} |->
            Cardinality({pair \in files \X Target :
                pair[2] \in Current(pair[1]) /\ Tier(pair[1], pair[2]) = tier})]

\* The facet of a tier counts files, under the other filters only; a tier nobody holds has
\* no facet.
TierCounts(target, query) ==
    LET files == Filtered([target |-> target, tier |-> AnyTier, query |-> query])
    IN  [tier \in {k \in DOMAIN TierRank : \E h \in files : Holds(h, k)} |->
            Cardinality({h \in files : Holds(h, tier)})]

--------------------------------------------------------------------------------
(* The dashboard and the page of a file.                                     *)

TargetCoverage(t) == {h \in Hash : t \in Current(h)}

CoverageFor(t) ==
    LET identified == {h \in TargetCoverage(t) : Tier(h, t) # "catalog"}
        best == Max({-1} \cup {TierRank[Tier(h, t)] : h \in identified})
    IN  [status |-> IF identified = {} THEN "none"
                    ELSE IF best = TierRank["download"] THEN "found" ELSE "partial",
         file_count |-> Cardinality(identified)]

\* The rules that the latest name fires for the first of the current decisions.
Explanation(h) ==
    IF Current(h) = {} THEN {}
    ELSE RulesFired(policy, Min(Current(h)), latest[h].name, latest[h].field)

--------------------------------------------------------------------------------
(* Properties, of every state the pipeline may leave the journals in.        *)

Sorts == [column : {"name", "tier"}, direction : {"asc", "desc"}]

\* Following the next links from the first page shows every file of the list once, in any
\* order and whatever files the filter keeps: a page is never short before the last one (list_files and
\* _page_nav: "the ed2k_hash tiebreak keeps paging stable").
PagesCoverTheList ==
    \A listed \in SUBSET ReevaluationRows, sort \in Sorts :
        LET page == [p \in 1 .. LastHash + 1 |-> ListFiles(sort, p, listed)]
            \* Those a reader gets to: the pages up to the first that offers no next.
            reached == {p \in DOMAIN page : \A q \in 1 .. p - 1 : HasNext(page[q])}
        IN  /\ UNION {page[p] : p \in reached} = listed
            /\ \A p \in reached : Cardinality(page[p]) <= PageSize
            /\ \A p, q \in reached : p # q => page[p] \cap page[q] = {}

\* Every number of a page is the length of the list behind it: the facet of a tier opens
\* as many files as it announces, with the files without a match shown or not; the
\* dashboard counts for a target the files that its filter lists, and calls it found when,
\* and only when, the download loop is given a file of it (coverage_for and list_files
\* against download_decisions: three readers of one journal).
NumbersAreLists ==
    /\ \A target \in Target \cup {AnyTarget}, query \in Queries \cup {AnyName} :
            LET counts == TierCounts(target, query)
                Opened(tier) == CountFiles([target |-> target, tier |-> tier, query |-> query])
            IN  /\ \A tier \in DOMAIN counts :
                        Opened(tier) = [total |-> counts[tier], matched |-> counts[tier]]
                /\ \A tier \in DOMAIN TierRank \ DOMAIN counts : Opened(tier).total = 0
    /\ \A t \in Target :
            /\ CoverageFor(t).file_count =
                    CountFiles([target |-> t, tier |-> AnyTier, query |-> AnyName]).total
            /\ CoverageFor(t).status = "found" <=> \E h \in Hash : <<h, t>> \in DownloadDecisions

\* The page of a file explains a settled decision by the rule that made it, when the file
\* has no other name and the policy is the one it was judged under (handle_file_detail).
DetailExplainsTheRule ==
    \A h \in Hash :
        (/\ known[h] = {latest[h].name} /\ Current(h) # {} /\ job.hash # h
         /\ judged[h] = [policy |-> policy, field |-> latest[h].field])
            => \E i \in Explanation(h) : Rules[policy][i] = journal[h][Min(Current(h))]

\* What the pages show is one and the same catalogue, in every state a stop, a refused
\* write or a clock set back may leave the journals in: the pages of a list cover it, every
\* number is the length of the list behind it, and a decision is explained by its rule.
ViewsAgree == PagesCoverTheList /\ NumbersAreLists /\ DetailExplainsTheRule

================================================================================
