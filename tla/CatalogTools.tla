------------------------------ MODULE CatalogTools ------------------------------
(***************************************************************************)
(* The offline tools of the operator over the catalogues of a node and of  *)
(* those it exchanges with: the migration of a catalogue when it is opened *)
(* (adapters/persistence_sqlite/connection.py), the merge (merge/), the    *)
(* compaction (compact/, domain/retention/buckets.py), and the operator    *)
(* who deletes, swaps and starts again.  A step is one SQLite transaction. *)
(***************************************************************************)
EXTENDS Integers, FiniteSets, FiniteSetsExt, Bags, SequencesExt

CONSTANTS
    Path,      \* where a catalogue may be
    Live,      \* the catalogue of this node, which its crawler opens
    Other,     \* the copy of another node's
    Row,       \* the observations there may be, of this node and of the other
    Here,      \* this node
    Release,   \* the versions of the other node's catalogue
    LastDay,   \* bound: days
    RunBound   \* bound: runs of a tool

\* A row stands for its whole natural key; null is whether a column of it is NULL.
RowType == [hash : STRING, day : Nat, at : Nat, node : STRING, name : STRING,
            sources : Nat, aich : STRING, null : BOOLEAN]

Nowhere == "nowhere"
Latest == 3       \* the scripts: 1 creates the tables, 2 the one of the ranges, 3 the rest
Newer == Latest + 1
Needed == {1, 2}  \* the tables the tools copy

ASSUME CatalogToolsAssumption ==
    /\ {Live, Other} \subseteq Path /\ Live # Other
    /\ Release \subseteq 1 .. Newer
    /\ Row \subseteq RowType /\ LastDay \in Nat \ {0} /\ RunBound \in Nat

VARIABLES
    disk,      \* the catalogue at each path, if any
    tool,      \* the merge or the compaction that runs
    crawler,   \* the opening of the live catalogue by the crawler
    today, runs,
    swappable, \* the output that may replace the live catalogue
    \* History.
    taken,     \* the observations each catalogue ever took in
    grouped,   \* the groups of observations its buckets were made of
    twice      \* the catalogues in which one observation came in two different rows

history == <<taken, grouped, twice>>
vars == <<disk, tool, crawler, today, runs, swappable, history>>

\* A run of a tool: whole, when the live catalogue is among its sources and at rest.
Run(kind, output, rest, cutoff, whole) ==
    [kind |-> kind, step |-> "idle", output |-> output, rest |-> rest, next |-> 0,
     cutoff |-> cutoff, whole |-> whole]
NoTool == Run("none", Live, <<>>, 0, FALSE)
Down == [step |-> "down", next |-> 0]

\* What SQLite has in a file: the version, the scripts whose tables are there, the rows.
Catalogue(version) ==
    [version |-> version, tables |-> 1 .. version, files |-> <<>>,
     raw |-> EmptyBag, ranges |-> EmptyBag]
Absent == Catalogue(-1)
There(p) == disk[p] # Absent

\* The other node may run an older or a newer release, and so did this one.
Init ==
    /\ \E mine \in {Absent, Catalogue(1)}, version \in Release :
        disk = [p \in Path |-> IF p = Live THEN mine
                               ELSE IF p = Other THEN Catalogue(version) ELSE Absent]
    /\ tool = NoTool /\ crawler = Down /\ today = 1 /\ runs = 0 /\ swappable = Nowhere
    /\ taken = [p \in Path |-> {}] /\ grouped = [p \in Path |-> {}] /\ twice = {}

--------------------------------------------------------------------------------
(* The rows.                                                                 *)

Group(rows, h, d) == {o \in BagToSet(rows) : o.hash = h /\ o.day = d}
Groups(rows) == {Group(rows, o.hash, o.day) : o \in BagToSet(rows)}

SumOf(f) == MapThenSumSet(LAMBDA x : f[x], DOMAIN f)

\* _json_sorted_set, min, max and sum over one (hash, day), whatever the nodes.
Bucket(rows, h, d) ==
    LET group == Group(rows, h, d)
        times == {o.at : o \in group}
        counts == {o.sources : o \in group}
    IN  [hash |-> h, day |-> d,
         names |-> {o.name : o \in group}, nodes |-> {o.node : o \in group},
         count |-> SumOf([o \in group |-> rows[o]]),
         first |-> Min(times), last |-> Max(times),
         min |-> Min(counts), max |-> Max(counts),
         sum |-> SumOf([o \in group |-> o.sources * rows[o]])]
Bucketize(rows) == {Bucket(rows, o.hash, o.day) : o \in BagToSet(rows)}

\* The cutoff is a date: a whole day is old, or none of it.
\* Variant to refute: the day of the cutoff is on neither side.
RecentStrict(rows, cutoff) == Restrict(rows, {o \in DOMAIN rows : o.day > cutoff})
Old(rows, cutoff) == Restrict(rows, {o \in DOMAIN rows : o.day < cutoff})
Recent(rows, cutoff) == Restrict(rows, {o \in DOMAIN rows : o.day >= cutoff})

\* INSERT ... SELECT DISTINCT ... WHERE NOT EXISTS, comparing with IS.
\* Variant to refute: comparing with =, which no NULL satisfies.
CopyJournalEqual(rows, source) ==
    rows (+) SetToBag({o \in BagToSet(source) : ~BagIn(o, rows) \/ ("null" \in DOMAIN o /\ o.null)})
CopyJournal(rows, source) == rows (+) SetToBag(BagToSet(source) \ BagToSet(rows))

\* INSERT OR IGNORE: the first sighting of a file wins.
FirstSightings(files, more) ==
    [h \in DOMAIN files \cup DOMAIN more |-> IF h \in DOMAIN files THEN files[h] ELSE more[h]]

\* One source into the output.
MergeInto(c, source) ==
    [c EXCEPT !.files = FirstSightings(c.files, source.files),
              !.raw = CopyJournal(c.raw, source.raw),
              !.ranges = CopyJournal(c.ranges, source.ranges)]

\* The source into an output that is taken for empty: no row is compared with any.
Compacted(c, source, cutoff) ==
    [c EXCEPT !.files = FirstSightings(c.files, source.files),
              !.raw = c.raw (+) Recent(source.raw, cutoff),
              !.ranges = c.ranges (+) source.ranges (+) SetToBag(Bucketize(Old(source.raw, cutoff)))]

\* The rows that speak of an observation.
Covers(r, o) ==
    /\ r.hash = o.hash /\ r.day = o.day /\ o.name \in r.names /\ o.node \in r.nodes
    /\ o.at \in r.first .. r.last /\ o.sources \in r.min .. r.max
Carriers(c, o) ==
    {q \in BagToSet(c.raw) : q = o} \cup {r \in BagToSet(c.ranges) : Covers(r, o)}

--------------------------------------------------------------------------------
(* Opening a catalogue: _open, _apply_migrations, _run_scripts.              *)

\* The file exists as soon as it is connected to; its version is read outside of any
\* transaction.
Connect(p) == IF There(p) THEN disk[p] ELSE Catalogue(0)

\* A script and its stamp are one transaction; it fails on a table that is there.
\* Variant to refute: the scripts create what is not there yet.
AppliesAnyway(c, v) == v \in 1 .. Latest
Applies(c, v) == v \notin c.tables
Applied(c, v) == [c EXCEPT !.tables = @ \cup {v}, !.version = v]

--------------------------------------------------------------------------------
(* The crawler of the node.                                                  *)

CrawlerStarts ==
    /\ crawler = Down
    /\ LET c == Connect(Live)
       IN  /\ disk' = [disk EXCEPT ![Live] = c]
           /\ crawler' = IF c.version > Latest THEN Down ELSE [step |-> "open", next |-> c.version + 1]
    /\ swappable' = Nowhere /\ tool' = [tool EXCEPT !.whole = FALSE]
    /\ UNCHANGED <<today, runs, history>>

CrawlerMigrates ==
    /\ crawler.step = "open"
    /\ LET v == crawler.next
           c == disk[Live]
       IN  \/ /\ v > Latest
              /\ crawler' = [step |-> "up", next |-> 0] /\ UNCHANGED disk
           \/ /\ v <= Latest /\ Applies(c, v)
              /\ disk' = [disk EXCEPT ![Live] = Applied(c, v)]
              /\ crawler' = [crawler EXCEPT !.next = v + 1]
           \/ /\ v <= Latest /\ ~Applies(c, v)
              /\ crawler' = Down /\ UNCHANGED disk
    /\ UNCHANGED <<tool, today, runs, swappable, history>>

CrawlerStops ==
    /\ crawler # Down /\ crawler' = Down
    /\ UNCHANGED <<disk, tool, today, runs, swappable, history>>

Recorded(c, o) ==
    [c EXCEPT !.raw = @ (+) SetToBag({o}), !.files = FirstSightings(@, [h \in {o.hash} |-> o.aich])]

\* A row of today, stamped by a clock that does not go back.
Observe(o) ==
    /\ crawler.step = "up" /\ o.node = Here /\ o.day = today
    /\ \A q \in taken[Live] : q.node = Here => q.at < o.at
    /\ disk' = [disk EXCEPT ![Live] = Recorded(@, o)]
    /\ taken' = [taken EXCEPT ![Live] = @ \cup {o}]
    /\ UNCHANGED <<tool, crawler, today, runs, swappable, grouped, twice>>

\* A newer copy of the other node's catalogue.
Receive(o) ==
    /\ tool = NoTool /\ o.node # Here /\ o.day <= today /\ o \notin taken[Other]
    /\ \A q \in taken[Other] : q.node # Here
    /\ disk' = [disk EXCEPT ![Other] = Recorded(@, o)]
    /\ taken' = [taken EXCEPT ![Other] = @ \cup {o}]
    /\ UNCHANGED <<tool, crawler, today, runs, swappable, grouped, twice>>

--------------------------------------------------------------------------------
(* The merge and the compaction.                                             *)

\* The output is opened; one newer than the code is refused.
OpenOutput(run) ==
    LET c == Connect(run.output)
    IN  /\ disk' = [disk EXCEPT ![run.output] = c]
        /\ tool' = IF c.version > Latest THEN NoTool
                   ELSE [run EXCEPT !.step = "open", !.next = c.version + 1]

Started ==
    /\ tool = NoTool /\ runs < RunBound /\ runs' = runs + 1
    /\ swappable' = Nowhere
    /\ UNCHANGED <<crawler, today, history>>

\* _resolve_destination: --output is new, unless --force; --into is one of the sources,
\* which is then not copied into itself.
MergeStarts(output, sources, into, force) ==
    /\ Started
    /\ \A i \in DOMAIN sources : There(sources[i])
    /\ IF into THEN ~force /\ output \in ToSet(sources) ELSE There(output) => force
    /\ OpenOutput(Run(IF into THEN "into" ELSE "merge", output, sources, 0,
                      crawler = Down /\ Live \in ToSet(sources)))

CompactStarts(source, output, keep) ==
    /\ Started
    /\ There(source) /\ ~There(output)
    /\ OpenOutput(Run("compact", output, <<source>>, today - keep,
                      crawler = Down /\ source = Live))

Fails == tool' = NoTool

ToolMigrates ==
    /\ tool.step = "open"
    /\ LET v == tool.next
           c == disk[tool.output]
       IN  \/ /\ v > Latest
              /\ tool' = [tool EXCEPT !.step = "copy", !.next = 0] /\ UNCHANGED disk
           \/ /\ v <= Latest /\ Applies(c, v)
              /\ disk' = [disk EXCEPT ![tool.output] = Applied(c, v)]
              /\ tool' = [tool EXCEPT !.next = v + 1]
           \/ v <= Latest /\ ~Applies(c, v) /\ Fails /\ UNCHANGED disk
    /\ UNCHANGED <<crawler, today, runs, swappable, history>>

\* History: what stands for an observation, its own row or the groups it is in; an
\* observation for which something else stands in the one and in the other.
StandsFor(p, o) == <<{o} \cap BagToSet(disk[p].raw), {g \in grouped[p] : o \in g}>>
Clash(p, q) == \E o \in taken[p] \cap taken[q] : StandsFor(p, o) # StandsFor(q, o)

Commit(c, source, groups) ==
    /\ disk' = [disk EXCEPT ![tool.output] = c]
    /\ taken' = [taken EXCEPT ![tool.output] = @ \cup taken[source]]
    /\ grouped' = [grouped EXCEPT ![tool.output] = @ \cup grouped[source] \cup groups]
    /\ tool' = [tool EXCEPT !.rest = Tail(@)]
    /\ twice' = IF source \in twice \/ Clash(tool.output, source)
                THEN twice \cup {tool.output} ELSE twice

\* The destination is passed over among the sources of --into; _merge_one refuses a source
\* of another version before its transaction.
MergeOne ==
    /\ tool.kind \in {"merge", "into"} /\ tool.step = "copy" /\ tool.rest # <<>>
    /\ LET source == Head(tool.rest)
           itself == tool.kind = "into" /\ source = tool.output
       IN  \/ itself /\ tool' = [tool EXCEPT !.rest = Tail(@)] /\ UNCHANGED <<disk, history>>
           \/ ~itself /\ disk[source].version # Latest /\ Fails /\ UNCHANGED <<disk, history>>
           \/ /\ ~itself /\ disk[source].version = Latest
              /\ Commit(MergeInto(disk[tool.output], disk[source]), source, {})
    /\ UNCHANGED <<crawler, today, runs, swappable>>

\* _compact_one: there is no look at the version, only a table that may be missing, or a
\* file that is in the output already.
CompactOne ==
    /\ tool.kind = "compact" /\ tool.step = "copy" /\ tool.rest # <<>>
    /\ LET source == Head(tool.rest)
       IN  IF \/ ~(Needed \subseteq disk[source].tables)
              \/ DOMAIN disk[source].files \cap DOMAIN disk[tool.output].files # {}
           THEN Fails /\ UNCHANGED <<disk, history>>
           ELSE Commit(Compacted(disk[tool.output], disk[source], tool.cutoff), source,
                        Groups(Old(disk[source].raw, tool.cutoff)))
    /\ UNCHANGED <<crawler, today, runs, swappable>>

\* Exit code 0.
ToolEnds ==
    /\ tool.step = "copy" /\ tool.rest = <<>>
    /\ swappable' = IF tool.whole /\ tool.output \notin {Live, Other} THEN tool.output ELSE Nowhere
    /\ tool' = NoTool
    /\ UNCHANGED <<disk, crawler, today, runs, history>>

\* The tool is killed, or SQLite refuses a statement: the open transaction is lost, the
\* committed ones stay.
ToolStops ==
    /\ tool # NoTool /\ Fails
    /\ UNCHANGED <<disk, crawler, today, runs, swappable, history>>

--------------------------------------------------------------------------------
(* The operator and the days.                                                *)

\* docs/operate.md: the crawler is stopped from the start of the tool to the swap, which
\* is the operator's.
Swap ==
    /\ swappable # Nowhere /\ tool = NoTool
    /\ disk' = [disk EXCEPT ![Live] = disk[swappable], ![swappable] = Absent]
    /\ taken' = [taken EXCEPT ![Live] = @ \cup taken[swappable], ![swappable] = {}]
    /\ grouped' = [grouped EXCEPT ![Live] = grouped[swappable], ![swappable] = {}]
    /\ twice' = IF swappable \in twice THEN (twice \cup {Live}) \ {swappable} ELSE twice \ {Live}
    /\ swappable' = Nowhere
    /\ UNCHANGED <<tool, crawler, today, runs>>

Delete(p) ==
    /\ tool = NoTool /\ p \notin {Live, Other} /\ There(p)
    /\ disk' = [disk EXCEPT ![p] = Absent]
    /\ taken' = [taken EXCEPT ![p] = {}] /\ grouped' = [grouped EXCEPT ![p] = {}]
    /\ twice' = twice \ {p} /\ swappable' = IF swappable = p THEN Nowhere ELSE swappable
    /\ UNCHANGED <<tool, crawler, today, runs>>

NextDay ==
    /\ today < LastDay /\ today' = today + 1
    /\ UNCHANGED <<disk, tool, crawler, runs, swappable, history>>

Next ==
    \/ CrawlerStarts \/ CrawlerMigrates \/ CrawlerStops
    \/ \E o \in Row : Observe(o) \/ Receive(o)
    \/ \E output \in Path, sources \in {<<p>> : p \in Path} \cup {<<p, q>> : p, q \in Path},
          into, force \in BOOLEAN : MergeStarts(output, sources, into, force)
    \/ \E source, output \in Path, keep \in 0 .. LastDay - 1 : CompactStarts(source, output, keep)
    \/ ToolMigrates \/ MergeOne \/ CompactOne \/ ToolEnds \/ ToolStops
    \/ Swap \/ NextDay \/ \E p \in Path : Delete(p)

Spec == Init /\ [][Next]_vars

--------------------------------------------------------------------------------
(* Properties.                                                               *)

\* The type invariant, with the schema of every file: whoever opened it, together with
\* whom, and wherever they were cut, the version of a catalogue names exactly the scripts
\* whose tables it has (_run_scripts: "the loser fails cleanly, never corruption"), and
\* every row is of a file the catalogue knows.
TypeOK ==
    /\ \A p \in {q \in Path : There(q)} :
        /\ disk[p].version \in 0 .. Newer /\ disk[p].tables = 1 .. disk[p].version
        /\ BagToSet(disk[p].raw) \subseteq Row
        /\ {r.hash : r \in BagToSet(disk[p].raw) \cup BagToSet(disk[p].ranges)}
             \subseteq DOMAIN disk[p].files
    /\ tool.kind \in {"none", "merge", "into", "compact"} /\ tool.step \in {"idle", "open", "copy"}
    /\ crawler.step \in {"down", "open", "up"} /\ today \in 1 .. LastDay /\ runs \in 0 .. RunBound
    /\ swappable \in {Nowhere} \cup (Path \ {Live}) /\ (swappable # Nowhere => crawler = Down)

\* No observation is ever forgotten: through merges, compactions, their failures, their
\* repetitions and the swap, every observation a catalogue took in is still told by it, as
\* a row of its own or by a bucket of its file and day that holds its name, its node and
\* its number of sources (compactor.py, merger.py: "A half-copied source is never
\* committed").
NothingForgotten ==
    \A p \in {q \in Path : There(q)} : \A o \in taken[p] : Carriers(disk[p], o) # {}

\* Every observation is counted once: whatever was merged again, compacted again or done
\* again after a failure, the rows and the buckets of a file and day add up to the
\* observations the catalogue took in, in number and in sources, unless the operator
\* merged a catalogue with another in which a bucket stands for some of its observations,
\* and not the same bucket (docs/operate.md: merge first, then compact).
CountedOnce ==
    \A p \in {q \in Path : There(q)} \ twice : \A key \in {<<o.hash, o.day>> : o \in taken[p]} :
        LET Of(S) == {r \in S : <<r.hash, r.day>> = key}
            c == disk[p]
            rows == Of(BagToSet(c.raw))  buckets == Of(BagToSet(c.ranges))  all == Of(taken[p])
        IN  /\ SumOf([o \in rows |-> c.raw[o]]) + SumOf([r \in buckets |-> r.count * c.ranges[r]])
               = Cardinality(all)
            /\ SumOf([o \in rows |-> o.sources * c.raw[o]])
                 + SumOf([r \in buckets |-> r.sum * c.ranges[r]])
               = SumOf([o \in all |-> o.sources])

================================================================================
