--------------------------- MODULE CatalogToolsProofs ---------------------------
(***************************************************************************)
(* What merges, compactions, migrations and swaps keep, for any paths,     *)
(* observations and days, wherever the tools are cut.                      *)
(***************************************************************************)
EXTENDS CatalogTools, FiniteLemmas

--------------------------------------------------------------------------------
(* One catalogue.                                                            *)

IsCatalogue(c) ==
    c = [version |-> c.version, tables |-> c.tables, files |-> c.files,
         raw |-> c.raw, ranges |-> c.ranges]

RowsFit(files, raw, ranges) ==
    /\ DOMAIN raw \in SUBSET Row /\ IsFiniteSet(DOMAIN raw)
    /\ \A r \in DOMAIN raw \cup DOMAIN ranges : r.hash \in DOMAIN files

\* A file, or the absence of one: the version names its tables, its rows are observations
\* of files it knows.
Sound(c) ==
    /\ IsCatalogue(c)
    /\ c.version \in -1 .. Newer /\ c.tables = 1 .. c.version
    /\ c.version = -1 => c = Absent
    /\ RowsFit(c.files, c.raw, c.ranges)

Told(c, seen) == \A o \in seen : Carriers(c, o) # {}

LEMMA CarriersAre ==
  \A c, o : Carriers(c, o) # {} <=> o \in DOMAIN c.raw \/ \E r \in DOMAIN c.ranges : Covers(r, o)
  BY DEF Carriers, BagToSet

LEMMA CatalogueSound ==
  \A v \in -1 .. Newer :
     /\ Sound(Catalogue(v)) /\ Catalogue(v).version = v
     /\ Catalogue(v) = Absent <=> v = -1
     /\ \A o : Carriers(Catalogue(v), o) = {}
  <1> SUFFICES ASSUME NEW v \in -1 .. Newer
               PROVE  /\ Sound(Catalogue(v)) /\ Catalogue(v).version = v
                      /\ Catalogue(v) = Absent <=> v = -1
                      /\ \A o : Carriers(Catalogue(v), o) = {}
    OBVIOUS
  <1>1. /\ IsCatalogue(Catalogue(v)) /\ Catalogue(v).version = v /\ Catalogue(v).tables = 1 .. v
        /\ Catalogue(v).raw = EmptyBag /\ Catalogue(v).ranges = EmptyBag
    BY DEF IsCatalogue, Catalogue
  <1>2. DOMAIN EmptyBag = {}
    BY DEF EmptyBag, SetToBag
  <1>3. Catalogue(v) = Absent <=> v = -1
    BY <1>1 DEF Absent, Catalogue
  <1>4. IsFiniteSet({})
    BY FS_EmptySet
  <1>5. Sound(Catalogue(v))
    BY <1>1, <1>2, <1>3, <1>4 DEF Sound, RowsFit
  <1>6. \A o : Carriers(Catalogue(v), o) = {}
    BY <1>1, <1>2 DEF Carriers, BagToSet
  <1>7. QED
    BY <1>1, <1>3, <1>5, <1>6

\* The rows of a catalogue are replaced.
Refilled(d, c, files, raw, ranges) ==
    d = [c EXCEPT !.files = files, !.raw = raw, !.ranges = ranges]

LEMMA RefilledIs ==
  ASSUME NEW c, IsCatalogue(c), NEW files, NEW raw, NEW ranges,
         NEW d, Refilled(d, c, files, raw, ranges)
  PROVE  /\ d.version = c.version /\ d.tables = c.tables /\ d.files = files
         /\ d.raw = raw /\ d.ranges = ranges /\ IsCatalogue(d)
  <1>1. c = [version |-> c.version, tables |-> c.tables, files |-> c.files,
             raw |-> c.raw, ranges |-> c.ranges]
    BY DEF IsCatalogue
  <1> DEFINE e == [c EXCEPT !.files = files]
             g == [e EXCEPT !.raw = raw]
  <1>2. e = [version |-> c.version, tables |-> c.tables, files |-> files,
             raw |-> c.raw, ranges |-> c.ranges]
    BY <1>1
  <1>3. d = [g EXCEPT !.ranges = ranges]
    BY DEF Refilled
  <1> HIDE DEF e
  <1>4. g = [version |-> c.version, tables |-> c.tables, files |-> files,
             raw |-> raw, ranges |-> c.ranges]
    BY <1>2
  <1> HIDE DEF g
  <1>5. d = [version |-> c.version, tables |-> c.tables, files |-> files,
             raw |-> raw, ranges |-> ranges]
    BY <1>3, <1>4
  <1>6. QED
    BY <1>5 DEF IsCatalogue

\* What a catalogue becomes when rows are added to it.
LEMMA Grown ==
  ASSUME NEW c, Sound(c), NEW files, NEW raw, NEW ranges,
         c.version # -1, RowsFit(files, raw, ranges),
         NEW d, Refilled(d, c, files, raw, ranges)
  PROVE  Sound(d) /\ d.version = c.version /\ d.raw = raw /\ d.ranges = ranges
  <1>1. /\ d.version = c.version /\ d.tables = c.tables /\ d.files = files
        /\ d.raw = raw /\ d.ranges = ranges /\ IsCatalogue(d)
    BY RefilledIs DEF Sound
  <1>2. Sound(d)
    BY <1>1 DEF Sound
  <1>3. QED
    BY <1>1, <1>2

\* A merge adds the rows of the source, and only those (merger.py, _copy_journal).
LEMMA MergeTells ==
  ASSUME NEW c, NEW source, Sound(c), Sound(source), c.version # -1
  PROVE  /\ Sound(MergeInto(c, source)) /\ MergeInto(c, source).version = c.version
         /\ \A o : Carriers(c, o) # {} \/ Carriers(source, o) # {}
                     => Carriers(MergeInto(c, source), o) # {}
  <1> DEFINE files == FirstSightings(c.files, source.files)
             raw == CopyJournal(c.raw, source.raw)
             ranges == CopyJournal(c.ranges, source.ranges)
             d == MergeInto(c, source)
  <1>1. /\ DOMAIN raw = DOMAIN c.raw \cup DOMAIN source.raw
        /\ DOMAIN ranges = DOMAIN c.ranges \cup DOMAIN source.ranges
        /\ DOMAIN files = DOMAIN c.files \cup DOMAIN source.files
    BY DEF CopyJournal, (+), SetToBag, BagToSet, FirstSightings
  <1>2. Refilled(d, c, files, raw, ranges)
    BY DEF MergeInto, Refilled
  <1> HIDE DEF files, raw, ranges, d
  <1>3. IsFiniteSet(DOMAIN raw)
    <2>1. IsFiniteSet(DOMAIN c.raw) /\ IsFiniteSet(DOMAIN source.raw)
      BY DEF Sound, RowsFit
    <2>2. IsFiniteSet(DOMAIN c.raw \cup DOMAIN source.raw)
      BY <2>1, FS_Union
    <2>3. QED
      BY <1>1, <2>2
  <1>4. RowsFit(files, raw, ranges)
    BY <1>1, <1>3 DEF Sound, RowsFit
  <1>5. Sound(d) /\ d.version = c.version /\ d.raw = raw /\ d.ranges = ranges
    BY <1>2, <1>4, Grown
  <1>6. QED
    BY <1>1, <1>5, CarriersAre DEF d

\* The bucket of a file and day covers every row it stands for (buckets.py, bucketize).
LEMMA BucketCovers ==
  ASSUME NEW rows, DOMAIN rows \in SUBSET Row, IsFiniteSet(DOMAIN rows), NEW o \in DOMAIN rows
  PROVE  Covers(Bucket(rows, o.hash, o.day), o)
  <1> DEFINE group == Group(rows, o.hash, o.day)
             times == {q.at : q \in group}
             counts == {q.sources : q \in group}
             b == Bucket(rows, o.hash, o.day)
  <1>1. o \in group /\ group \in SUBSET Row /\ IsFiniteSet(group)
    <2>1. group \in SUBSET DOMAIN rows /\ o \in group
      BY DEF BagToSet, Group
    <2> HIDE DEF group
    <2>2. QED
      BY <2>1, FS_Subset
  <1>2. \A q \in group : q.at \in Nat /\ q.sources \in Nat
    BY <1>1, CatalogToolsAssumption DEF RowType
  <1>3. /\ b.hash = o.hash /\ b.day = o.day
        /\ b.names = {q.name : q \in group} /\ b.nodes = {q.node : q \in group}
        /\ b.first = Min(times) /\ b.last = Max(times)
        /\ b.min = Min(counts) /\ b.max = Max(counts)
    BY DEF Bucket
  <1> HIDE DEF group, b
  <1>4. IsFiniteSet(times) /\ IsFiniteSet(counts)
    <2> DEFINE at == [q \in group |-> q.at]
               sources == [q \in group |-> q.sources]
    <2>1. times = {at[q] : q \in group} /\ counts = {sources[q] : q \in group}
      OBVIOUS
    <2> HIDE DEF at, sources, times, counts
    <2>2. IsFiniteSet({at[q] : q \in group}) /\ IsFiniteSet({sources[q] : q \in group})
      BY <1>1, ImageIsFinite
    <2>3. QED
      BY <2>1, <2>2
  <1>5. times \in SUBSET Int /\ counts \in SUBSET Int /\ o.at \in times /\ o.sources \in counts
    BY <1>1, <1>2
  <1> HIDE DEF times, counts
  <1>6. /\ Min(times) <= o.at /\ o.at <= Max(times) /\ Min(times) \in Int /\ Max(times) \in Int
        /\ Min(counts) <= o.sources /\ o.sources <= Max(counts)
        /\ Min(counts) \in Int /\ Max(counts) \in Int
    <2>1. /\ Min(times) \in times /\ \A y \in times : Min(times) <= y
          /\ Max(times) \in times /\ \A y \in times : Max(times) >= y
      BY <1>4, <1>5, MinIsSmallest, MaxIsLargest
    <2>2. /\ Min(counts) \in counts /\ \A y \in counts : Min(counts) <= y
          /\ Max(counts) \in counts /\ \A y \in counts : Max(counts) >= y
      BY <1>4, <1>5, MinIsSmallest, MaxIsLargest
    <2>3. QED
      BY <1>5, <2>1, <2>2
  <1>7. o.name \in b.names /\ o.node \in b.nodes
    BY <1>1, <1>3
  <1>8. o.at \in b.first .. b.last /\ o.sources \in b.min .. b.max
    BY <1>1, <1>2, <1>3, <1>6
  <1>9. QED
    BY <1>3, <1>7, <1>8 DEF Covers, b

\* A compaction keeps the rows since its cutoff and covers the others (compactor.py).
LEMMA CompactionTells ==
  ASSUME NEW c, NEW source, NEW cutoff \in Int, Sound(c), Sound(source), c.version # -1
  PROVE  /\ Sound(Compacted(c, source, cutoff)) /\ Compacted(c, source, cutoff).version = c.version
         /\ \A o : Carriers(c, o) # {} \/ (o \in Row /\ Carriers(source, o) # {})
                     => Carriers(Compacted(c, source, cutoff), o) # {}
  <1> DEFINE old == Old(source.raw, cutoff)
             recent == Recent(source.raw, cutoff)
             buckets == Bucketize(old)
             files == FirstSightings(c.files, source.files)
             raw == c.raw (+) recent
             ranges == c.ranges (+) source.ranges (+) SetToBag(buckets)
             d == Compacted(c, source, cutoff)
  <1>1. /\ DOMAIN recent = {o \in DOMAIN source.raw : o.day >= cutoff}
        /\ DOMAIN old = {o \in DOMAIN source.raw : o.day < cutoff}
    BY DEF Old, Recent, Restrict
  <1>2. buckets = {Bucket(old, o.hash, o.day) : o \in DOMAIN old}
    BY DEF Bucketize, BagToSet
  <1>3. /\ DOMAIN raw = DOMAIN c.raw \cup DOMAIN recent
        /\ DOMAIN ranges = DOMAIN c.ranges \cup DOMAIN source.ranges \cup buckets
        /\ DOMAIN files = DOMAIN c.files \cup DOMAIN source.files
    BY DEF (+), SetToBag, FirstSightings
  <1>4. Refilled(d, c, files, raw, ranges)
    BY DEF Compacted, Refilled
  <1> HIDE DEF old, recent, buckets, files, raw, ranges, d
  <1>5. /\ DOMAIN recent \in SUBSET DOMAIN source.raw /\ DOMAIN old \in SUBSET DOMAIN source.raw
        /\ DOMAIN source.raw \in SUBSET Row /\ IsFiniteSet(DOMAIN source.raw)
        /\ IsFiniteSet(DOMAIN c.raw)
    BY <1>1 DEF Sound, RowsFit
  <1>6. IsFiniteSet(DOMAIN recent) /\ IsFiniteSet(DOMAIN old)
    BY <1>5, FS_Subset
  <1>7. IsFiniteSet(DOMAIN raw)
    <2>1. IsFiniteSet(DOMAIN c.raw \cup DOMAIN recent)
      BY <1>5, <1>6, FS_Union
    <2>2. QED
      BY <1>3, <2>1
  <1>8. \A b \in buckets : b.hash \in DOMAIN files
    <2> SUFFICES ASSUME NEW b \in buckets PROVE b.hash \in DOMAIN files
      OBVIOUS
    <2>1. PICK o \in DOMAIN old : b = Bucket(old, o.hash, o.day)
      BY <1>2
    <2>2. b.hash = o.hash
      BY <2>1 DEF Bucket
    <2>3. o.hash \in DOMAIN source.files
      BY <1>5 DEF Sound, RowsFit
    <2>4. QED
      BY <1>3, <2>2, <2>3
  <1>9. RowsFit(files, raw, ranges)
    BY <1>3, <1>5, <1>7, <1>8 DEF Sound, RowsFit
  <1>10. Sound(d) /\ d.version = c.version /\ d.raw = raw /\ d.ranges = ranges
    BY <1>4, <1>9, Grown
  <1>11. ASSUME NEW o \in Row, o \in DOMAIN source.raw
         PROVE  Carriers(d, o) # {}
    <2>1. CASE o.day >= cutoff
      BY <1>1, <1>3, <1>10, <1>11, <2>1, CarriersAre
    <2>2. CASE ~(o.day >= cutoff)
      <3>1. o.day \in Nat
        BY CatalogToolsAssumption DEF RowType
      <3>2. o \in DOMAIN old
        BY <1>1, <1>11, <2>2, <3>1
      <3>3. Covers(Bucket(old, o.hash, o.day), o)
        <4>1. DOMAIN old \in SUBSET Row
          BY <1>5
        <4>2. QED
          BY <1>6, <3>2, <4>1, BucketCovers
      <3>4. Bucket(old, o.hash, o.day) \in DOMAIN d.ranges
        BY <1>2, <1>3, <1>10, <3>2
      <3>5. QED
        BY <3>3, <3>4, CarriersAre
    <2>3. QED
      BY <2>1, <2>2
  <1>12. \A o : Carriers(c, o) # {} => Carriers(d, o) # {}
    BY <1>3, <1>10, CarriersAre
  <1>13. ASSUME NEW o \in Row, Carriers(source, o) # {}
         PROVE  Carriers(d, o) # {}
    <2>1. CASE o \in DOMAIN source.raw
      BY <1>11, <2>1
    <2>2. CASE \E r \in DOMAIN source.ranges : Covers(r, o)
      BY <1>3, <1>10, <2>2, CarriersAre
    <2>3. QED
      BY <1>13, <2>1, <2>2, CarriersAre
  <1>14. QED
    BY <1>10, <1>12, <1>13 DEF d

\* A new row (catalog_repository.py, record_observation).
LEMMA RecordTells ==
  ASSUME NEW c, NEW o \in Row, Sound(c), c.version # -1
  PROVE  /\ Sound(Recorded(c, o)) /\ Recorded(c, o).version = c.version
         /\ Carriers(Recorded(c, o), o) # {}
         /\ \A q : Carriers(c, q) # {} => Carriers(Recorded(c, o), q) # {}
  <1> DEFINE more == [h \in {o.hash} |-> o.aich]
             files == FirstSightings(c.files, more)
             raw == c.raw (+) SetToBag({o})
             d == Recorded(c, o)
  <1>1. DOMAIN raw = DOMAIN c.raw \cup {o} /\ DOMAIN files = DOMAIN c.files \cup {o.hash}
    BY DEF (+), SetToBag, FirstSightings
  <1>2. c = [version |-> c.version, tables |-> c.tables, files |-> c.files,
             raw |-> c.raw, ranges |-> c.ranges]
    BY DEF Sound, IsCatalogue
  <1>3. d = [c EXCEPT !.raw = raw, !.files = files]
    BY DEF Recorded
  <1> HIDE DEF files, raw, d
  <1>4. /\ d.version = c.version /\ d.tables = c.tables /\ d.files = files
        /\ d.raw = raw /\ d.ranges = c.ranges /\ IsCatalogue(d)
    <2> DEFINE e == [c EXCEPT !.raw = raw]
    <2>1. e = [version |-> c.version, tables |-> c.tables, files |-> c.files,
               raw |-> raw, ranges |-> c.ranges]
      BY <1>2
    <2>2. d = [e EXCEPT !.files = files]
      BY <1>3
    <2> HIDE DEF e
    <2>3. d = [version |-> c.version, tables |-> c.tables, files |-> files,
               raw |-> raw, ranges |-> c.ranges]
      BY <2>1, <2>2
    <2>4. QED
      BY <2>3 DEF IsCatalogue
  <1>5. IsFiniteSet(DOMAIN raw)
    <2>1. IsFiniteSet(DOMAIN c.raw)
      BY DEF Sound, RowsFit
    <2>2. IsFiniteSet(DOMAIN c.raw \cup {o})
      BY <2>1, FS_AddElement
    <2>3. QED
      BY <1>1, <2>2
  <1>6. RowsFit(d.files, d.raw, d.ranges)
    BY <1>1, <1>4, <1>5 DEF Sound, RowsFit
  <1>7. Sound(d)
    BY <1>4, <1>6 DEF Sound
  <1>8. Carriers(d, o) # {} /\ \A q : Carriers(c, q) # {} => Carriers(d, q) # {}
    BY <1>1, <1>4, CarriersAre
  <1>9. QED
    BY <1>4, <1>7, <1>8 DEF d

\* The next script of a catalogue (connection.py, _run_scripts).
LEMMA ScriptKeeps ==
  ASSUME NEW c, Sound(c), c.version # -1, NEW v \in 1 .. Latest, v <= c.version + 1, Applies(c, v)
  PROVE  /\ v = c.version + 1
         /\ Sound(Applied(c, v)) /\ Applied(c, v).version = v
         /\ \A o : Carriers(Applied(c, v), o) = Carriers(c, o)
  <1> DEFINE d == Applied(c, v)
             tables == c.tables \cup {v}
  <1>1. c = [version |-> c.version, tables |-> c.tables, files |-> c.files,
             raw |-> c.raw, ranges |-> c.ranges]
    BY DEF Sound, IsCatalogue
  <1>2. d = [c EXCEPT !.tables = tables, !.version = v]
    BY DEF Applied
  <1>3. v = c.version + 1 /\ tables = 1 .. v /\ v \in -1 .. Newer /\ v # -1
    <2>1. c.version \in 0 .. Newer /\ c.tables = 1 .. c.version /\ v \notin c.tables
      BY DEF Sound, Applies, Newer, Latest
    <2>2. v = c.version + 1
      BY <2>1 DEF Newer, Latest
    <2>3. QED
      BY <2>1, <2>2 DEF Newer, Latest
  <1> HIDE DEF d, tables
  <1>4. /\ d.version = v /\ d.tables = tables /\ d.files = c.files
        /\ d.raw = c.raw /\ d.ranges = c.ranges /\ IsCatalogue(d)
    <2> DEFINE e == [c EXCEPT !.tables = tables]
    <2>1. e = [version |-> c.version, tables |-> tables, files |-> c.files,
               raw |-> c.raw, ranges |-> c.ranges]
      BY <1>1
    <2>2. d = [e EXCEPT !.version = v]
      BY <1>2
    <2> HIDE DEF e
    <2>3. d = [version |-> v, tables |-> tables, files |-> c.files,
               raw |-> c.raw, ranges |-> c.ranges]
      BY <2>1, <2>2
    <2>4. QED
      BY <2>3 DEF IsCatalogue
  <1>5. Sound(d)
    BY <1>3, <1>4 DEF Sound
  <1>6. \A o : Carriers(d, o) = Carriers(c, o)
    BY <1>4 DEF Carriers
  <1>7. QED
    BY <1>3, <1>4, <1>5, <1>6 DEF d

--------------------------------------------------------------------------------
(* The invariant.                                                            *)

\* Every file is sound and tells what it took in.
DiskOK ==
    /\ disk = [p \in Path |-> disk[p]]
    /\ \A p \in Path : Sound(disk[p])
    /\ taken \in [Path -> SUBSET Row]
    /\ \A p \in Path : Told(disk[p], taken[p])

\* The version that an opening has read may have been left behind since, never overtaken.
Opening(next, p) == next \in 1 .. disk[p].version + 1

ToolType ==
    [kind : {"none", "merge", "into", "compact"}, step : {"idle", "open", "copy"},
     output : Path, rest : Seq(Path), next : Int, cutoff : Int, whole : BOOLEAN]

\* The observations of the live catalogue are in the output, or have their turn to come.
ToolOK ==
    /\ tool \in ToolType
    /\ tool.step # "idle" => disk[tool.output].version # -1 /\ swappable = Nowhere
    /\ tool.step = "open" => Opening(tool.next, tool.output)
    /\ tool.whole =>
          /\ crawler = Down
          /\ Live \in ToSet(tool.rest) \/ taken[Live] \subseteq taken[tool.output]

CrawlerOK ==
    /\ crawler \in [step : {"down", "open", "up"}, next : Int]
    /\ crawler.step # "down" => disk[Live].version # -1
    /\ crawler.step = "open" => Opening(crawler.next, Live)

\* The output that may replace the live catalogue has taken in all of it.
OperatorOK ==
    /\ disk[Other].version # -1
    /\ swappable \in {Nowhere} \cup (Path \ {Live, Other})
    /\ swappable # Nowhere => crawler = Down /\ taken[Live] \subseteq taken[swappable]
    /\ today \in 1 .. LastDay /\ runs \in 0 .. RunBound

ToolsInv == DiskOK /\ ToolOK /\ CrawlerOK /\ OperatorOK

LEMMA NoToolTypes == NoTool \in ToolType /\ NoTool.step = "idle" /\ ~NoTool.whole
  BY CatalogToolsAssumption DEF NoTool, Run, ToolType

\* It holds at the start.
LEMMA InitInv == Init => ToolsInv
  <1> SUFFICES ASSUME Init PROVE ToolsInv
    OBVIOUS
  <1>1. PICK mine \in {Absent, Catalogue(1)}, version \in Release :
           disk = [p \in Path |-> IF p = Live THEN mine
                                 ELSE IF p = Other THEN Catalogue(version) ELSE Absent]
    BY DEF Init
  <1>2. version \in 1 .. Newer /\ 1 \in -1 .. Newer /\ version \in -1 .. Newer /\ -1 \in -1 .. Newer
    BY CatalogToolsAssumption DEF Newer, Latest
  <1>3. \A p \in Path : \E v \in -1 .. Newer : disk[p] = Catalogue(v)
    <2>1. mine = Catalogue(-1) \/ mine = Catalogue(1)
      BY <1>1 DEF Absent
    <2>2. QED
      BY <1>1, <1>2, <2>1 DEF Absent
  <1>4. \A p \in Path : Sound(disk[p])
    BY <1>3, CatalogueSound
  <1>5. taken = [p \in Path |-> {}]
    BY DEF Init
  <1>6. DiskOK
    <2>1. disk = [p \in Path |-> disk[p]]
      BY <1>1
    <2>2. \A p \in Path : Told(disk[p], taken[p])
      BY <1>5 DEF Told
    <2>3. QED
      BY <1>4, <1>5, <2>1, <2>2 DEF DiskOK
  <1>7. disk[Other].version # -1
    <2>1. disk[Other] = Catalogue(version)
      BY <1>1, CatalogToolsAssumption
    <2>2. QED
      BY <1>2, <2>1, CatalogueSound
  <1>8. tool = NoTool /\ crawler = Down /\ today = 1 /\ runs = 0 /\ swappable = Nowhere
    BY DEF Init
  <1>9. ToolOK
    BY <1>8, NoToolTypes DEF ToolOK
  <1>10. CrawlerOK
    BY <1>8 DEF CrawlerOK, Down
  <1>11. OperatorOK
    BY <1>7, <1>8, CatalogToolsAssumption DEF OperatorOK
  <1>12. QED
    BY <1>6, <1>9, <1>10, <1>11 DEF ToolsInv

\* One file takes the place of another, which was not of a later version.
Becomes(p, c) ==
    disk' = [disk EXCEPT ![p] = c] /\ Sound(c) /\ disk[p].version <= c.version

LEMMA DiskBecomes ==
  ASSUME DiskOK, NEW x \in Path, NEW c, Becomes(x, c)
  PROVE  /\ disk' = [p \in Path |-> disk'[p]] /\ disk'[x] = c
         /\ \A p \in Path : p # x => disk'[p] = disk[p]
         /\ \A p \in Path : Sound(disk'[p])
         /\ \A p \in Path : /\ disk[p].version \in Int /\ disk'[p].version \in Int
                            /\ disk[p].version <= disk'[p].version
                            /\ disk[p].version # -1 => disk'[p].version # -1
                            /\ \A n : Opening(n, p) => n \in 1 .. disk'[p].version + 1
  <1>1. disk = [p \in Path |-> disk[p]] /\ disk' = [disk EXCEPT ![x] = c]
    BY DEF DiskOK, Becomes
  <1>2. disk'[x] = c /\ disk' = [p \in Path |-> disk'[p]]
    BY <1>1
  <1>3. \A p \in Path : p # x => disk'[p] = disk[p]
    BY <1>1
  <1>4. \A p \in Path : Sound(disk[p]) /\ Sound(disk'[p])
    BY <1>2, <1>3 DEF DiskOK, Becomes
  <1>5. \A p \in Path : disk[p].version \in -1 .. Newer /\ disk'[p].version \in -1 .. Newer
    BY <1>4 DEF Sound
  <1>6. \A p \in Path : disk[p].version <= disk'[p].version
    <2>1. disk[x].version <= disk'[x].version
      BY <1>2 DEF Becomes
    <2>2. \A p \in Path : disk[p].version \in Int
      BY <1>5 DEF Newer, Latest
    <2>3. QED
      BY <1>3, <2>1, <2>2
  <1>7. ASSUME NEW p \in Path
        PROVE  /\ disk[p].version \in Int /\ disk'[p].version \in Int
               /\ disk[p].version # -1 => disk'[p].version # -1
               /\ \A n : Opening(n, p) => n \in 1 .. disk'[p].version + 1
    <2> DEFINE old == disk[p].version
               new == disk'[p].version
    <2>1. old \in -1 .. Newer /\ new \in -1 .. Newer /\ old <= new
      BY <1>5, <1>6
    <2>2. \A n : Opening(n, p) => n \in 1 .. old + 1
      BY DEF Opening
    <2> HIDE DEF old, new
    <2>3. QED
      BY <2>1, <2>2 DEF Newer, Latest, old, new
  <1>8. QED
    BY <1>2, <1>3, <1>4, <1>6, <1>7

LEMMA FilesAreThere == Live \in Path /\ Other \in Path /\ Live # Other
  BY CatalogToolsAssumption

LEMMA SameFiles ==
  ASSUME DiskOK, disk' = disk, taken' = taken
  PROVE  DiskOK'
  BY DEF DiskOK

--------------------------------------------------------------------------------
(* The steps of the crawler.                                                 *)

LEMMA CrawlerStartsKeeps == ASSUME ToolsInv, CrawlerStarts PROVE ToolsInv'
  <1> DEFINE c == Connect(Live)
  <1> USE FilesAreThere
  <1>1. Becomes(Live, c) /\ c.version # -1 /\ c.version \in 0 .. Newer
        /\ \A o : Carriers(disk[Live], o) # {} => Carriers(c, o) # {}
    <2>1. CASE There(Live)
      <3>1. c = disk[Live] /\ Sound(disk[Live])
        BY <2>1 DEF Connect, ToolsInv, DiskOK
      <3>2. c.version \in -1 .. Newer /\ c.version # -1
        BY <2>1, <3>1 DEF Sound, There
      <3>3. QED
        BY <3>1, <3>2 DEF Becomes, CrawlerStarts, Newer, Latest
    <2>2. CASE ~There(Live)
      <3>1. c = Catalogue(0) /\ disk[Live] = Catalogue(-1)
        BY <2>2 DEF Connect, There, Absent
      <3>2. 0 \in -1 .. Newer /\ -1 \in -1 .. Newer
        BY DEF Newer, Latest
      <3>3. Sound(c) /\ c.version = 0 /\ disk[Live].version = -1
            /\ \A o : Carriers(disk[Live], o) = {}
        BY <3>1, <3>2, CatalogueSound
      <3>4. QED
        BY <3>3 DEF Becomes, CrawlerStarts, Newer, Latest
    <2>3. QED
      BY <2>1, <2>2
  <1> HIDE DEF c
  <1>2. /\ disk' = [p \in Path |-> disk'[p]] /\ disk'[Live] = c
        /\ \A p \in Path : p # Live => disk'[p] = disk[p]
        /\ \A p \in Path : Sound(disk'[p])
        /\ \A p \in Path : /\ disk[p].version # -1 => disk'[p].version # -1
                           /\ \A n : Opening(n, p) => n \in 1 .. disk'[p].version + 1
    BY <1>1, DiskBecomes DEF ToolsInv
  <1>3. /\ crawler = Down /\ taken' = taken /\ swappable' = Nowhere
        /\ tool' = [tool EXCEPT !.whole = FALSE] /\ today' = today /\ runs' = runs
        /\ crawler' = IF c.version > Latest THEN Down ELSE [step |-> "open", next |-> c.version + 1]
    BY DEF CrawlerStarts, c, history
  <1>4. DiskOK'
    <2>1. \A p \in Path : Told(disk'[p], taken[p])
      BY <1>1, <1>2 DEF Told, ToolsInv, DiskOK
    <2>2. QED
      BY <1>2, <1>3, <2>1 DEF DiskOK, ToolsInv
  <1>5. ToolOK'
    <2>1. /\ tool' \in ToolType /\ tool'.step = tool.step /\ tool'.output = tool.output
          /\ tool'.next = tool.next /\ ~tool'.whole /\ tool.output \in Path
      BY <1>3 DEF ToolsInv, ToolOK, ToolType
    <2>2. QED
      BY <1>2, <1>3, <2>1 DEF ToolsInv, ToolOK, Opening
  <1>6. CrawlerOK'
    <2>1. CASE c.version > Latest
      BY <1>3, <2>1 DEF CrawlerOK, Down
    <2>2. CASE ~(c.version > Latest)
      <3>1. crawler' = [step |-> "open", next |-> c.version + 1]
        BY <1>3, <2>2
      <3>2. c.version + 1 \in 1 .. disk'[Live].version + 1 /\ disk'[Live].version # -1
        BY <1>1, <1>2 DEF Newer, Latest
      <3>3. QED
        BY <3>1, <3>2 DEF CrawlerOK, Opening
    <2>3. QED
      BY <2>1, <2>2
  <1>7. OperatorOK'
    BY <1>2, <1>3 DEF ToolsInv, OperatorOK
  <1>8. QED
    BY <1>4, <1>5, <1>6, <1>7 DEF ToolsInv

LEMMA CrawlerMigratesKeeps == ASSUME ToolsInv, CrawlerMigrates PROVE ToolsInv'
  <1> DEFINE v == crawler.next
             c == disk[Live]
  <1> USE FilesAreThere
  <1>1. /\ crawler.step = "open" /\ tool' = tool /\ taken' = taken /\ swappable' = swappable
        /\ today' = today /\ runs' = runs
    BY DEF CrawlerMigrates, history
  <1>2. crawler # Down /\ ~tool.whole /\ swappable = Nowhere
    <2>1. crawler # Down
      BY <1>1 DEF Down
    <2>2. QED
      BY <2>1 DEF ToolsInv, ToolOK, OperatorOK
  <1>3. CASE /\ v > Latest
             /\ crawler' = [step |-> "up", next |-> 0] /\ disk' = disk
    <2>1. DiskOK'
      BY <1>1, <1>3, SameFiles DEF ToolsInv
    <2>2. CrawlerOK'
      BY <1>1, <1>3 DEF ToolsInv, CrawlerOK
    <2>3. ToolOK' /\ OperatorOK'
      BY <1>1, <1>2, <1>3 DEF ToolsInv, ToolOK, OperatorOK, Opening
    <2>4. QED
      BY <2>1, <2>2, <2>3 DEF ToolsInv
  <1>4. CASE /\ v <= Latest /\ Applies(c, v)
             /\ disk' = [disk EXCEPT ![Live] = Applied(c, v)]
             /\ crawler' = [crawler EXCEPT !.next = v + 1]
    <2>1. Sound(c) /\ c.version # -1 /\ v \in 1 .. c.version + 1
      BY <1>1 DEF ToolsInv, DiskOK, CrawlerOK, Opening
    <2>2. v \in 1 .. Latest /\ v <= c.version + 1 /\ c.version \in Int
      <3>1. c.version \in -1 .. Newer
        BY <2>1 DEF Sound
      <3> HIDE DEF c, v
      <3>2. QED
        BY <1>4, <2>1, <3>1 DEF Newer, Latest
    <2>3. /\ v = c.version + 1 /\ Sound(Applied(c, v)) /\ Applied(c, v).version = v
          /\ \A o : Carriers(Applied(c, v), o) = Carriers(c, o)
      BY <1>4, <2>1, <2>2, ScriptKeeps
    <2>4. Becomes(Live, Applied(c, v))
      <3>1. c.version <= v
        BY <2>2, <2>3
      <3>2. QED
        BY <1>4, <2>3, <3>1 DEF Becomes
    <2>5. /\ disk' = [p \in Path |-> disk'[p]] /\ disk'[Live] = Applied(c, v)
          /\ \A p \in Path : p # Live => disk'[p] = disk[p]
          /\ \A p \in Path : Sound(disk'[p])
          /\ \A p \in Path : /\ disk[p].version # -1 => disk'[p].version # -1
                             /\ \A n : Opening(n, p) => n \in 1 .. disk'[p].version + 1
      BY <2>4, DiskBecomes DEF ToolsInv
    <2>6. DiskOK'
      <3>1. \A p \in Path : Told(disk'[p], taken[p])
        BY <2>3, <2>5 DEF Told, ToolsInv, DiskOK
      <3>2. QED
        BY <1>1, <2>5, <3>1 DEF DiskOK, ToolsInv
    <2>7. ToolOK'
      <3>1. tool.output \in Path
        BY DEF ToolsInv, ToolOK, ToolType
      <3>2. QED
        BY <1>1, <1>2, <2>5, <3>1 DEF ToolsInv, ToolOK, Opening
    <2>8. CrawlerOK'
      <3>1. crawler' \in [step : {"down", "open", "up"}, next : Int] /\ crawler'.step = "open"
            /\ crawler'.next = v + 1
        <4>1. crawler \in [step : {"down", "open", "up"}, next : Int] /\ v \in Int
          BY DEF ToolsInv, CrawlerOK
        <4> HIDE DEF v
        <4>2. QED
          BY <1>1, <1>4, <4>1
      <3>2. disk'[Live].version = v
        BY <2>3, <2>5
      <3>3. v + 1 \in 1 .. v + 1 /\ v # -1
        BY <2>2
      <3>4. QED
        BY <3>1, <3>2, <3>3 DEF CrawlerOK, Opening
    <2>9. OperatorOK'
      BY <1>1, <1>2, <2>5 DEF ToolsInv, OperatorOK
    <2>10. QED
      BY <2>6, <2>7, <2>8, <2>9 DEF ToolsInv
  <1>5. CASE crawler' = Down /\ disk' = disk
    <2>1. DiskOK'
      BY <1>1, <1>5, SameFiles DEF ToolsInv
    <2>2. CrawlerOK'
      BY <1>5 DEF CrawlerOK, Down
    <2>3. ToolOK' /\ OperatorOK'
      BY <1>1, <1>2, <1>5 DEF ToolsInv, ToolOK, OperatorOK, Opening
    <2>4. QED
      BY <2>1, <2>2, <2>3 DEF ToolsInv
  <1>6. QED
    BY <1>3, <1>4, <1>5 DEF CrawlerMigrates

LEMMA CrawlerStopsKeeps == ASSUME ToolsInv, CrawlerStops PROVE ToolsInv'
  <1>1. /\ crawler' = Down /\ disk' = disk /\ taken' = taken /\ tool' = tool
        /\ today' = today /\ runs' = runs /\ swappable' = swappable
    BY DEF CrawlerStops, history
  <1>2. DiskOK'
    BY <1>1, SameFiles DEF ToolsInv
  <1>3. CrawlerOK'
    BY <1>1 DEF CrawlerOK, Down
  <1>4. ToolOK' /\ OperatorOK'
    BY <1>1 DEF ToolsInv, ToolOK, OperatorOK, Opening
  <1>5. QED
    BY <1>2, <1>3, <1>4 DEF ToolsInv

\* A new row in one of the two catalogues that are not the output of a tool.
Records(x, o) ==
    /\ disk' = [disk EXCEPT ![x] = Recorded(@, o)]
    /\ taken' = [taken EXCEPT ![x] = @ \cup {o}]
    /\ UNCHANGED <<tool, crawler, today, runs, swappable>>

LEMMA RecordsKeeps ==
  ASSUME ToolsInv, NEW x \in {Live, Other}, NEW o \in Row, Records(x, o), disk[x].version # -1,
         x = Live => crawler # Down
  PROVE  ToolsInv'
  <1> DEFINE c == Recorded(disk[x], o)
  <1> USE FilesAreThere
  <1>0. x \in Path
    OBVIOUS
  <1>1. /\ Sound(c) /\ c.version = disk[x].version /\ Carriers(c, o) # {}
        /\ \A q : Carriers(disk[x], q) # {} => Carriers(c, q) # {}
    <2>1. Sound(disk[x])
      BY <1>0 DEF ToolsInv, DiskOK
    <2>2. QED
      BY <2>1, RecordTells
  <1>2. Becomes(x, c)
    <2>1. c.version \in Int
      BY <1>1 DEF Sound, Newer, Latest
    <2>2. disk' = [disk EXCEPT ![x] = c]
      BY DEF Records
    <2> HIDE DEF c
    <2>3. QED
      BY <1>1, <2>1, <2>2 DEF Becomes
  <1> HIDE DEF c
  <1>3. /\ disk' = [p \in Path |-> disk'[p]] /\ disk'[x] = c
        /\ \A p \in Path : p # x => disk'[p] = disk[p]
        /\ \A p \in Path : Sound(disk'[p])
        /\ \A p \in Path : /\ disk[p].version # -1 => disk'[p].version # -1
                           /\ \A n : Opening(n, p) => n \in 1 .. disk'[p].version + 1
    BY <1>0, <1>2, DiskBecomes DEF ToolsInv
  <1>4. /\ tool' = tool /\ crawler' = crawler /\ today' = today /\ runs' = runs
        /\ swappable' = swappable
    BY DEF Records
  <1>5. /\ taken' \in [Path -> SUBSET Row] /\ taken'[x] = taken[x] \cup {o}
        /\ \A p \in Path : p # x => taken'[p] = taken[p]
    BY <1>0 DEF Records, ToolsInv, DiskOK
  <1>6. DiskOK'
    <2>1. \A p \in Path : Told(disk'[p], taken'[p])
      BY <1>1, <1>3, <1>5 DEF Told, ToolsInv, DiskOK
    <2>2. QED
      BY <1>3, <1>5, <2>1 DEF DiskOK
  <1>7. tool.output \in Path
    BY DEF ToolsInv, ToolOK, ToolType
  <1>8. /\ tool.whole \/ swappable # Nowhere => crawler = Down /\ taken'[Live] = taken[Live]
        /\ \A p \in Path : taken[p] \subseteq taken'[p]
    BY <1>5 DEF ToolsInv, ToolOK, OperatorOK
  <1>9. ToolOK'
    BY <1>3, <1>4, <1>7, <1>8 DEF ToolsInv, ToolOK, Opening
  <1>10. CrawlerOK'
    BY <1>3, <1>4 DEF ToolsInv, CrawlerOK, Opening
  <1>11. OperatorOK'
    BY <1>3, <1>4, <1>8 DEF ToolsInv, OperatorOK
  <1>12. QED
    BY <1>6, <1>9, <1>10, <1>11 DEF ToolsInv

LEMMA ObserveKeeps == ASSUME ToolsInv, NEW o \in Row, Observe(o) PROVE ToolsInv'
  <1>1. crawler # Down /\ disk[Live].version # -1
    BY DEF Observe, Down, ToolsInv, CrawlerOK
  <1>2. Records(Live, o)
    BY DEF Observe, Records
  <1>3. QED
    BY <1>1, <1>2, RecordsKeeps

LEMMA ReceiveKeeps == ASSUME ToolsInv, NEW o \in Row, Receive(o) PROVE ToolsInv'
  <1>1. disk[Other].version # -1
    BY DEF ToolsInv, OperatorOK
  <1>2. Records(Other, o)
    BY DEF Receive, Records
  <1>3. QED
    BY <1>1, <1>2, RecordsKeeps, FilesAreThere

--------------------------------------------------------------------------------
(* The steps of the tools.                                                   *)

LEMMA OpenKeeps ==
  ASSUME ToolsInv, NEW run \in ToolType, OpenOutput(run), Started,
         run.whole => crawler = Down /\ Live \in ToSet(run.rest)
  PROVE  ToolsInv'
  <1> DEFINE x == run.output
             c == Connect(x)
  <1> USE FilesAreThere
  <1>0. x \in Path
    BY DEF ToolType
  <1>1. Becomes(x, c) /\ c.version # -1 /\ c.version \in 0 .. Newer
        /\ \A o : Carriers(disk[x], o) # {} => Carriers(c, o) # {}
    <2>0. disk' = [disk EXCEPT ![x] = c]
      BY DEF OpenOutput
    <2>1. CASE There(x)
      <3>1. c = disk[x] /\ Sound(disk[x])
        BY <1>0, <2>1 DEF Connect, ToolsInv, DiskOK
      <3>2. c.version \in -1 .. Newer /\ c.version # -1
        BY <2>1, <3>1 DEF Sound, There
      <3> HIDE DEF c, x
      <3>3. QED
        BY <2>0, <3>1, <3>2 DEF Becomes, Newer, Latest
    <2>2. CASE ~There(x)
      <3>1. c = Catalogue(0) /\ disk[x] = Catalogue(-1)
        BY <2>2 DEF Connect, There, Absent
      <3>2. 0 \in -1 .. Newer /\ -1 \in -1 .. Newer
        BY DEF Newer, Latest
      <3>3. Sound(c) /\ c.version = 0 /\ disk[x].version = -1
            /\ \A o : Carriers(disk[x], o) = {}
        BY <3>1, <3>2, CatalogueSound
      <3> HIDE DEF c, x
      <3>4. QED
        BY <2>0, <3>3 DEF Becomes, Newer, Latest
    <2>3. QED
      BY <2>1, <2>2
  <1>2. /\ tool = NoTool /\ runs < RunBound /\ runs' = runs + 1 /\ swappable' = Nowhere
        /\ crawler' = crawler /\ today' = today /\ taken' = taken
        /\ tool' = IF c.version > Latest THEN NoTool
                   ELSE [run EXCEPT !.step = "open", !.next = c.version + 1]
    BY DEF OpenOutput, Started, history
  <1> HIDE DEF c
  <1>3. /\ disk' = [p \in Path |-> disk'[p]] /\ disk'[x] = c
        /\ \A p \in Path : p # x => disk'[p] = disk[p]
        /\ \A p \in Path : Sound(disk'[p])
        /\ \A p \in Path : /\ disk[p].version # -1 => disk'[p].version # -1
                           /\ \A n : Opening(n, p) => n \in 1 .. disk'[p].version + 1
    BY <1>0, <1>1, DiskBecomes DEF ToolsInv
  <1>4. DiskOK'
    <2>1. \A p \in Path : Told(disk'[p], taken[p])
      BY <1>1, <1>3 DEF Told, ToolsInv, DiskOK
    <2>2. QED
      BY <1>2, <1>3, <2>1 DEF DiskOK, ToolsInv
  <1>5. ToolOK'
    <2>1. CASE c.version > Latest
      <3>1. tool' = NoTool
        BY <1>2, <2>1
      <3>2. QED
        BY <3>1, NoToolTypes DEF ToolOK
    <2>2. CASE ~(c.version > Latest)
      <3>1. tool' = [run EXCEPT !.step = "open", !.next = c.version + 1]
        BY <1>2, <2>2
      <3>2. /\ tool' \in ToolType /\ tool'.step = "open" /\ tool'.next = c.version + 1
            /\ tool'.output = x /\ tool'.rest = run.rest /\ tool'.whole = run.whole
        <4> DEFINE e == [run EXCEPT !.step = "open"]
        <4>1. /\ e \in ToolType /\ e.step = "open" /\ e.output = x
              /\ e.rest = run.rest /\ e.whole = run.whole
          BY DEF ToolType
        <4>2. tool' = [e EXCEPT !.next = c.version + 1] /\ c.version + 1 \in Int
          BY <1>1, <3>1 DEF Newer, Latest
        <4> HIDE DEF e, x
        <4>3. QED
          BY <4>1, <4>2 DEF ToolType
      <3>3. disk'[x].version # -1 /\ c.version + 1 \in 1 .. disk'[x].version + 1
        BY <1>1, <1>3 DEF Newer, Latest
      <3> HIDE DEF x
      <3>4. QED
        BY <1>2, <3>2, <3>3 DEF ToolOK, Opening
    <2>3. QED
      BY <2>1, <2>2
  <1>6. CrawlerOK'
    BY <1>2, <1>3 DEF ToolsInv, CrawlerOK, Opening
  <1>7. OperatorOK'
    <2>1. runs' \in 0 .. RunBound
      BY <1>2, CatalogToolsAssumption DEF ToolsInv, OperatorOK
    <2>2. QED
      BY <1>2, <1>3, <2>1 DEF ToolsInv, OperatorOK
  <1>8. QED
    BY <1>4, <1>5, <1>6, <1>7 DEF ToolsInv

LEMMA RunTypes ==
  ASSUME NEW kind \in {"merge", "into", "compact"}, NEW output \in Path, NEW rest \in Seq(Path),
         NEW cutoff \in Int, NEW whole \in BOOLEAN
  PROVE  LET run == Run(kind, output, rest, cutoff, whole)
         IN  run \in ToolType /\ run.rest = rest /\ run.whole = whole
  BY DEF Run, ToolType

LEMMA MergeStartsKeeps ==
  ASSUME ToolsInv, NEW output \in Path, NEW sources \in Seq(Path),
         NEW into \in BOOLEAN, NEW force \in BOOLEAN, MergeStarts(output, sources, into, force)
  PROVE  ToolsInv'
  <1> DEFINE kind == IF into THEN "into" ELSE "merge"
             whole == crawler = Down /\ Live \in ToSet(sources)
             run == Run(kind, output, sources, 0, whole)
  <1>1. Started /\ OpenOutput(run)
    BY DEF MergeStarts
  <1>2. kind \in {"merge", "into", "compact"} /\ whole \in BOOLEAN
    OBVIOUS
  <1>3. whole => crawler = Down /\ Live \in ToSet(sources)
    OBVIOUS
  <1> HIDE DEF kind, whole
  <1>4. run \in ToolType /\ run.whole = whole /\ run.rest = sources
    BY <1>2, RunTypes
  <1> HIDE DEF run
  <1>5. QED
    BY <1>1, <1>3, <1>4, OpenKeeps

LEMMA CompactStartsKeeps ==
  ASSUME ToolsInv, NEW source \in Path, NEW output \in Path, NEW keep \in 0 .. LastDay - 1,
         CompactStarts(source, output, keep)
  PROVE  ToolsInv'
  <1> DEFINE rest == <<source>>
             cutoff == today - keep
             whole == crawler = Down /\ source = Live
             run == Run("compact", output, rest, cutoff, whole)
  <1>1. Started /\ OpenOutput(run)
    BY DEF CompactStarts
  <1>2. rest \in Seq(Path) /\ cutoff \in Int /\ whole \in BOOLEAN
    BY CatalogToolsAssumption DEF ToolsInv, OperatorOK
  <1>3. whole => crawler = Down /\ Live \in ToSet(rest)
    BY DEF ToSet
  <1> HIDE DEF rest, cutoff, whole
  <1>4. run \in ToolType /\ run.whole = whole /\ run.rest = rest
    BY <1>2, RunTypes
  <1> HIDE DEF run
  <1>5. QED
    BY <1>1, <1>3, <1>4, OpenKeeps

LEMMA FailsKeeps ==
  ASSUME ToolsInv, tool' = NoTool, UNCHANGED <<disk, taken, crawler, today, runs, swappable>>
  PROVE  ToolsInv'
  <1>1. DiskOK'
    BY SameFiles DEF ToolsInv
  <1>2. ToolOK'
    BY NoToolTypes DEF ToolOK
  <1>3. CrawlerOK' /\ OperatorOK'
    BY DEF ToolsInv, CrawlerOK, OperatorOK, Opening
  <1>4. QED
    BY <1>1, <1>2, <1>3 DEF ToolsInv

LEMMA ToolMigratesKeeps == ASSUME ToolsInv, ToolMigrates PROVE ToolsInv'
  <1> DEFINE v == tool.next
             x == tool.output
             c == disk[x]
  <1> USE FilesAreThere
  <1>1. /\ tool.step = "open" /\ crawler' = crawler /\ taken' = taken /\ swappable' = swappable
        /\ today' = today /\ runs' = runs
    BY DEF ToolMigrates, history
  <1>2. tool \in ToolType /\ x \in Path /\ v \in Int
    BY DEF ToolsInv, ToolOK, ToolType
  <1>3. CASE /\ v > Latest
             /\ tool' = [tool EXCEPT !.step = "copy", !.next = 0] /\ disk' = disk
    <2>1. DiskOK'
      BY <1>1, <1>3, SameFiles DEF ToolsInv
    <2>2. CrawlerOK' /\ OperatorOK'
      BY <1>1, <1>3 DEF ToolsInv, CrawlerOK, OperatorOK, Opening
    <2>3. /\ tool' \in ToolType /\ tool'.step = "copy" /\ tool'.output = x
          /\ tool'.rest = tool.rest /\ tool'.whole = tool.whole
      <3> DEFINE e == [tool EXCEPT !.step = "copy"]
      <3>1. /\ e \in ToolType /\ e.step = "copy" /\ e.output = x
            /\ e.rest = tool.rest /\ e.whole = tool.whole
        BY <1>2 DEF ToolType
      <3>2. tool' = [e EXCEPT !.next = 0]
        BY <1>3
      <3> HIDE DEF e, x
      <3>3. QED
        BY <3>1, <3>2 DEF ToolType
    <2>4. ToolOK'
      BY <1>1, <1>3, <2>3 DEF ToolsInv, ToolOK
    <2>5. QED
      BY <2>1, <2>2, <2>4 DEF ToolsInv
  <1>4. CASE /\ v <= Latest /\ Applies(c, v)
             /\ disk' = [disk EXCEPT ![x] = Applied(c, v)]
             /\ tool' = [tool EXCEPT !.next = v + 1]
    <2>1. Sound(c) /\ c.version # -1 /\ v \in 1 .. c.version + 1
      BY <1>1, <1>2 DEF ToolsInv, DiskOK, ToolOK, Opening
    <2>2. v \in 1 .. Latest /\ v <= c.version + 1 /\ c.version \in Int
      <3>1. c.version \in -1 .. Newer
        BY <2>1 DEF Sound
      <3> HIDE DEF c, v
      <3>2. QED
        BY <1>4, <2>1, <3>1 DEF Newer, Latest
    <2>3. /\ v = c.version + 1 /\ Sound(Applied(c, v)) /\ Applied(c, v).version = v
          /\ \A o : Carriers(Applied(c, v), o) = Carriers(c, o)
      BY <1>4, <2>1, <2>2, ScriptKeeps
    <2>4. Becomes(x, Applied(c, v))
      <3>1. c.version <= v
        BY <2>2, <2>3
      <3>2. QED
        BY <1>4, <2>3, <3>1 DEF Becomes
    <2>5. /\ disk' = [p \in Path |-> disk'[p]] /\ disk'[x] = Applied(c, v)
          /\ \A p \in Path : p # x => disk'[p] = disk[p]
          /\ \A p \in Path : Sound(disk'[p])
          /\ \A p \in Path : /\ disk[p].version # -1 => disk'[p].version # -1
                             /\ \A n : Opening(n, p) => n \in 1 .. disk'[p].version + 1
      BY <1>2, <2>4, DiskBecomes DEF ToolsInv
    <2>6. DiskOK'
      <3>1. \A o : Carriers(disk[x], o) = Carriers(disk'[x], o)
        BY <2>3, <2>5
      <3> HIDE DEF x
      <3>3. \A p \in Path : Told(disk'[p], taken[p])
        BY <2>5, <3>1 DEF Told, ToolsInv, DiskOK
      <3>2. QED
        BY <1>1, <2>5, <3>3 DEF DiskOK, ToolsInv
    <2>7. CrawlerOK' /\ OperatorOK'
      BY <1>1, <2>5 DEF ToolsInv, CrawlerOK, OperatorOK, Opening
    <2>8. ToolOK'
      <3>1. /\ tool' \in ToolType /\ tool'.step = "open" /\ tool'.output = x
            /\ tool'.rest = tool.rest /\ tool'.whole = tool.whole /\ tool'.next = v + 1
        <4> HIDE DEF v
        <4>1. QED
          BY <1>1, <1>2, <1>4 DEF ToolType
      <3>2. disk'[x].version = v
        BY <2>3, <2>5
      <3>3. v + 1 \in 1 .. v + 1 /\ v # -1
        BY <2>2
      <3> HIDE DEF v, x, c
      <3>4. tool'.next \in 1 .. disk'[tool'.output].version + 1 /\ disk'[tool'.output].version # -1
        BY <3>1, <3>2, <3>3
      <3>5. tool.whole => crawler = Down /\ (Live \in ToSet(tool.rest) \/ taken[Live] \subseteq taken[x])
        BY DEF ToolsInv, ToolOK, x
      <3>6. swappable = Nowhere
        BY <1>1 DEF ToolsInv, ToolOK
      <3>7. QED
        BY <1>1, <3>1, <3>4, <3>5, <3>6 DEF ToolOK, Opening
    <2>9. QED
      BY <2>6, <2>7, <2>8 DEF ToolsInv
  <1>5. CASE Fails /\ disk' = disk
    BY <1>1, <1>5, FailsKeeps DEF Fails
  <1>6. QED
    BY <1>3, <1>4, <1>5 DEF ToolMigrates

\* One source is committed into the output (Commit), whatever c makes of it.
LEMMA CommitKeeps ==
  ASSUME ToolsInv, tool.step = "copy", tool.rest # <<>>, NEW source, source = Head(tool.rest),
         NEW c, Sound(c), c.version = disk[tool.output].version,
         \A o : Carriers(disk[tool.output], o) # {} \/ (o \in Row /\ Carriers(disk[source], o) # {})
                  => Carriers(c, o) # {},
         NEW groups, Commit(c, source, groups), UNCHANGED <<crawler, today, runs, swappable>>
  PROVE  ToolsInv'
  <1> DEFINE x == tool.output
  <1> USE FilesAreThere
  <1>1. tool \in ToolType /\ x \in Path /\ tool.rest \in Seq(Path) /\ source \in Path
    BY DEF ToolsInv, ToolOK, ToolType
  <1>2. /\ disk' = [disk EXCEPT ![x] = c]
        /\ taken' = [taken EXCEPT ![x] = @ \cup taken[source]]
        /\ tool' = [tool EXCEPT !.rest = Tail(@)]
    BY DEF Commit
  <1>3. Becomes(x, c)
    <2>1. c.version \in Int
      BY DEF Sound, Newer, Latest
    <2>2. QED
      BY <1>2, <2>1 DEF Becomes
  <1>4. /\ disk' = [p \in Path |-> disk'[p]] /\ disk'[x] = c
        /\ \A p \in Path : p # x => disk'[p] = disk[p]
        /\ \A p \in Path : Sound(disk'[p])
        /\ \A p \in Path : /\ disk[p].version # -1 => disk'[p].version # -1
                           /\ \A n : Opening(n, p) => n \in 1 .. disk'[p].version + 1
    BY <1>1, <1>3, DiskBecomes DEF ToolsInv
  <1>5. /\ tool' \in ToolType /\ tool'.step = "copy" /\ tool'.output = x
        /\ tool'.rest = Tail(tool.rest) /\ tool'.whole = tool.whole
    <2>1. Tail(tool.rest) \in Seq(Path)
      BY <1>1
    <2>2. QED
      BY <1>1, <1>2, <2>1 DEF ToolType
  <1>6. swappable = Nowhere /\ disk[x].version # -1
        /\ (tool.whole => crawler = Down)
        /\ (tool.whole => Live \in ToSet(tool.rest) \/ taken[Live] \subseteq taken[x])
    BY DEF ToolsInv, ToolOK
  <1>7. \A o : Carriers(disk[x], o) # {} \/ (o \in Row /\ Carriers(disk[source], o) # {})
                 => Carriers(c, o) # {}
    OBVIOUS
  <1> HIDE DEF x
  <1>8. /\ taken' \in [Path -> SUBSET Row] /\ taken'[x] = taken[x] \cup taken[source]
        /\ \A p \in Path : p # x => taken'[p] = taken[p]
    BY <1>1, <1>2 DEF ToolsInv, DiskOK
  <1>9. DiskOK'
    <2>1. Told(disk[x], taken[x]) /\ Told(disk[source], taken[source]) /\ taken[source] \in SUBSET Row
      BY <1>1 DEF ToolsInv, DiskOK
    <2>2. Told(disk'[x], taken'[x])
      BY <1>4, <1>7, <1>8, <2>1 DEF Told
    <2>3. \A p \in Path : p # x => Told(disk'[p], taken'[p])
      BY <1>4, <1>8 DEF ToolsInv, DiskOK
    <2>4. QED
      BY <1>4, <1>8, <2>2, <2>3 DEF DiskOK
  <1>10. ToolOK'
    <2>1. ASSUME tool.whole
          PROVE  Live \in ToSet(Tail(tool.rest)) \/ taken'[Live] \subseteq taken'[x]
      <3>1. CASE x = Live
        BY <3>1
      <3>2. CASE x # Live
        <4>1. taken'[Live] = taken[Live]
          BY <1>8, <3>2
        <4>2. CASE taken[Live] \subseteq taken[x]
          BY <1>8, <4>1, <4>2
        <4>3. CASE Live \in ToSet(tool.rest)
          <5>1. PICK i \in DOMAIN tool.rest : tool.rest[i] = Live
            BY <4>3 DEF ToSet
          <5>2. CASE i = 1
            <6>1. source = Live
              BY <1>1, <5>1, <5>2
            <6>2. QED
              BY <1>8, <4>1, <6>1
          <5>3. CASE i # 1
            <6>1. i - 1 \in DOMAIN Tail(tool.rest) /\ Tail(tool.rest)[i - 1] = Live
              BY <1>1, <5>1, <5>3
            <6>2. QED
              BY <6>1 DEF ToSet
          <5>4. QED
            BY <5>2, <5>3
        <4>4. QED
          BY <1>6, <2>1, <4>2, <4>3
      <3>3. QED
        BY <3>1, <3>2
    <2>2. disk'[x].version # -1
      BY <1>1, <1>4, <1>6
    <2>3. crawler' = crawler /\ swappable' = Nowhere
      BY <1>6
    <2>4. tool'.whole =>
             crawler' = Down /\ (Live \in ToSet(tool'.rest) \/ taken'[Live] \subseteq taken'[tool'.output])
      <3>1. tool'.whole => tool.whole
        BY <1>5
      <3>2. tool.whole => crawler' = Down
        BY <1>6, <2>3
      <3>3. tool.whole => Live \in ToSet(tool'.rest) \/ taken'[Live] \subseteq taken'[tool'.output]
        BY <1>5, <2>1
      <3>4. QED
        BY <3>1, <3>2, <3>3
    <2>5. disk'[tool'.output].version # -1 /\ tool'.step # "open"
      BY <1>5, <2>2
    <2>6. QED
      BY <1>5, <2>3, <2>4, <2>5 DEF ToolOK
  <1>11. CrawlerOK'
    BY <1>4 DEF ToolsInv, CrawlerOK, Opening
  <1>12. OperatorOK'
    BY <1>4, <1>6 DEF ToolsInv, OperatorOK
  <1>13. QED
    BY <1>9, <1>10, <1>11, <1>12 DEF ToolsInv

LEMMA MergeOneKeeps == ASSUME ToolsInv, MergeOne PROVE ToolsInv'
  <1> DEFINE source == Head(tool.rest)
             x == tool.output
             d == MergeInto(disk[x], disk[source])
             itself == tool.kind = "into" /\ source = x
  <1>1. /\ tool.step = "copy" /\ tool.rest # <<>>
        /\ UNCHANGED <<crawler, today, runs, swappable>>
    BY DEF MergeOne
  <1>2. tool \in ToolType /\ x \in Path /\ tool.rest \in Seq(Path) /\ source \in Path
    BY <1>1 DEF ToolsInv, ToolOK, ToolType
  <1>3. CASE itself /\ tool' = [tool EXCEPT !.rest = Tail(@)] /\ UNCHANGED <<disk, history>>
    <2>1. /\ tool' \in ToolType /\ tool'.step = "copy" /\ tool'.output = x
          /\ tool'.rest = Tail(tool.rest) /\ tool'.whole = tool.whole
      <3>1. Tail(tool.rest) \in Seq(Path)
        BY <1>1, <1>2
      <3>2. tool' = [tool EXCEPT !.rest = Tail(tool.rest)]
        BY <1>3
      <3>3. QED
        BY <1>1, <1>2, <3>1, <3>2 DEF ToolType
    <2>2. DiskOK'
      BY <1>3, SameFiles DEF ToolsInv, history
    <2>3. CrawlerOK' /\ OperatorOK'
      BY <1>1, <1>3 DEF ToolsInv, CrawlerOK, OperatorOK, Opening, history
    <2>4. ASSUME tool.whole
          PROVE  Live \in ToSet(Tail(tool.rest)) \/ taken[Live] \subseteq taken[x]
      <3>1. Live \in ToSet(tool.rest) \/ taken[Live] \subseteq taken[x]
        BY <2>4 DEF ToolsInv, ToolOK
      <3>2. CASE Live \in ToSet(tool.rest)
        <4>1. PICK i \in DOMAIN tool.rest : tool.rest[i] = Live
          BY <3>2 DEF ToSet
        <4>2. CASE i = 1
          BY <1>2, <1>3, <4>1, <4>2
        <4>3. CASE i # 1
          <5>1. i - 1 \in DOMAIN Tail(tool.rest) /\ Tail(tool.rest)[i - 1] = Live
            BY <1>2, <4>1, <4>3
          <5>2. QED
            BY <5>1 DEF ToSet
        <4>4. QED
          BY <4>2, <4>3
      <3>3. QED
        BY <3>1, <3>2
    <2>5. ToolOK'
      BY <1>1, <1>3, <2>1, <2>4 DEF ToolsInv, ToolOK, history
    <2>6. QED
      BY <2>2, <2>3, <2>5 DEF ToolsInv
  <1>4. CASE Fails /\ UNCHANGED <<disk, history>>
    BY <1>1, <1>4, FailsKeeps DEF Fails, history
  <1>5. CASE Commit(d, source, {})
    <2>1. Sound(disk[x]) /\ Sound(disk[source]) /\ disk[x].version # -1
      BY <1>1, <1>2 DEF ToolsInv, DiskOK, ToolOK
    <2>2. /\ Sound(d) /\ d.version = disk[x].version
          /\ \A o : Carriers(disk[x], o) # {} \/ Carriers(disk[source], o) # {}
                      => Carriers(d, o) # {}
      BY <2>1, MergeTells
    <2> HIDE DEF d
    <2>3. QED
      BY <1>1, <1>5, <2>2, CommitKeeps
  <1>6. QED
    BY <1>3, <1>4, <1>5 DEF MergeOne

LEMMA CompactOneKeeps == ASSUME ToolsInv, CompactOne PROVE ToolsInv'
  <1> DEFINE source == Head(tool.rest)
             x == tool.output
             d == Compacted(disk[x], disk[source], tool.cutoff)
             groups == Groups(Old(disk[source].raw, tool.cutoff))
  <1>1. /\ tool.step = "copy" /\ tool.rest # <<>>
        /\ UNCHANGED <<crawler, today, runs, swappable>>
    BY DEF CompactOne
  <1>2. x \in Path /\ source \in Path /\ tool.cutoff \in Int
    BY <1>1 DEF ToolsInv, ToolOK, ToolType
  <1>3. CASE Fails /\ UNCHANGED <<disk, history>>
    BY <1>1, <1>3, FailsKeeps DEF Fails, history
  <1>4. CASE Commit(d, source, groups)
    <2>1. Sound(disk[x]) /\ Sound(disk[source]) /\ disk[x].version # -1
      BY <1>1, <1>2 DEF ToolsInv, DiskOK, ToolOK
    <2>2. /\ Sound(d) /\ d.version = disk[x].version
          /\ \A o : Carriers(disk[x], o) # {} \/ (o \in Row /\ Carriers(disk[source], o) # {})
                      => Carriers(d, o) # {}
      BY <1>2, <2>1, CompactionTells
    <2> HIDE DEF d, groups
    <2>3. QED
      BY <1>1, <1>4, <2>2, CommitKeeps
  <1>5. QED
    BY <1>3, <1>4 DEF CompactOne

LEMMA ToolEndsKeeps == ASSUME ToolsInv, ToolEnds PROVE ToolsInv'
  <1>1. /\ tool.step = "copy" /\ tool.rest = <<>> /\ tool' = NoTool
        /\ swappable' = IF tool.whole /\ tool.output \notin {Live, Other} THEN tool.output ELSE Nowhere
        /\ disk' = disk /\ taken' = taken /\ crawler' = crawler /\ today' = today /\ runs' = runs
    BY DEF ToolEnds, history
  <1>2. DiskOK'
    BY <1>1, SameFiles DEF ToolsInv
  <1>3. ToolOK'
    BY <1>1, NoToolTypes DEF ToolOK
  <1>4. CrawlerOK'
    BY <1>1 DEF ToolsInv, CrawlerOK, Opening
  <1>5. OperatorOK'
    <2>1. CASE tool.whole /\ tool.output \notin {Live, Other}
      <3>1. swappable' = tool.output /\ tool.output \in Path \ {Live, Other}
        BY <1>1, <2>1 DEF ToolsInv, ToolOK, ToolType
      <3>2. crawler = Down /\ taken[Live] \subseteq taken[tool.output]
        <4>1. Live \notin ToSet(tool.rest)
          BY <1>1 DEF ToSet
        <4>2. QED
          BY <2>1, <4>1 DEF ToolsInv, ToolOK
      <3>3. QED
        BY <1>1, <3>1, <3>2 DEF ToolsInv, OperatorOK
    <2>2. CASE ~(tool.whole /\ tool.output \notin {Live, Other})
      <3>1. swappable' = Nowhere
        BY <1>1, <2>2
      <3>2. QED
        BY <1>1, <3>1 DEF ToolsInv, OperatorOK
    <2>3. QED
      BY <2>1, <2>2
  <1>6. QED
    BY <1>2, <1>3, <1>4, <1>5 DEF ToolsInv

LEMMA ToolStopsKeeps == ASSUME ToolsInv, ToolStops PROVE ToolsInv'
  BY FailsKeeps DEF ToolStops, Fails, history

--------------------------------------------------------------------------------
(* The steps of the operator and the days.                                   *)

\* The live catalogue after a swap has taken in what it had and what the output had.
LEMMA SwapKeeps == ASSUME ToolsInv, Swap PROVE ToolsInv'
  <1> DEFINE x == swappable
             mid == [disk EXCEPT ![Live] = disk[x]]
             seen == [taken EXCEPT ![Live] = taken[Live] \cup taken[x]]
  <1> USE FilesAreThere
  <1>1. /\ tool = NoTool /\ x # Nowhere /\ swappable' = Nowhere
        /\ tool' = tool /\ crawler' = crawler /\ today' = today /\ runs' = runs
    BY DEF Swap
  <1>2. x \in Path /\ x # Live /\ x # Other /\ crawler = Down /\ taken[Live] \subseteq taken[x]
    BY <1>1 DEF ToolsInv, OperatorOK
  <1>3. disk' = [mid EXCEPT ![x] = Absent] /\ taken' = [seen EXCEPT ![x] = {}]
    BY DEF Swap
  <1>4. disk = [p \in Path |-> disk[p]] /\ taken \in [Path -> SUBSET Row]
    BY DEF ToolsInv, DiskOK
  <1>5. /\ mid = [p \in Path |-> mid[p]] /\ mid[Live] = disk[x]
        /\ \A p \in Path : p # Live => mid[p] = disk[p]
    BY <1>4
  <1>6. /\ seen \in [Path -> SUBSET Row] /\ seen[Live] = taken[x]
        /\ \A p \in Path : p # Live => seen[p] = taken[p]
    BY <1>2, <1>4
  <1> HIDE DEF mid, seen
  <1>7. /\ disk' = [p \in Path |-> disk'[p]] /\ disk'[x] = Absent /\ disk'[Live] = disk[x]
        /\ \A p \in Path : p # Live /\ p # x => disk'[p] = disk[p]
    BY <1>2, <1>3, <1>5
  <1>8. /\ taken' \in [Path -> SUBSET Row] /\ taken'[x] = {} /\ taken'[Live] = taken[x]
        /\ \A p \in Path : p # Live /\ p # x => taken'[p] = taken[p]
    BY <1>2, <1>3, <1>6
  <1> HIDE DEF x
  <1>9. DiskOK'
    <2>1. Sound(Absent)
      <3>1. -1 \in -1 .. Newer
        BY DEF Newer, Latest
      <3>2. QED
        BY <3>1, CatalogueSound DEF Absent
    <2>2. \A p \in Path : Sound(disk'[p]) /\ Told(disk'[p], taken'[p])
      BY <1>2, <1>7, <1>8, <2>1 DEF ToolsInv, DiskOK, Told
    <2>3. QED
      BY <1>7, <1>8, <2>2 DEF DiskOK
  <1>10. ToolOK'
    BY <1>1, NoToolTypes DEF ToolOK
  <1>11. CrawlerOK'
    BY <1>1, <1>2 DEF CrawlerOK, Down
  <1>12. OperatorOK'
    <2>1. disk'[Other] = disk[Other]
      BY <1>2, <1>7
    <2>2. QED
      BY <1>1, <2>1 DEF ToolsInv, OperatorOK
  <1>13. QED
    BY <1>9, <1>10, <1>11, <1>12 DEF ToolsInv

LEMMA DeleteKeeps == ASSUME ToolsInv, NEW x \in Path, Delete(x) PROVE ToolsInv'
  <1> USE FilesAreThere
  <1>1. /\ tool = NoTool /\ x \notin {Live, Other}
        /\ disk' = [disk EXCEPT ![x] = Absent] /\ taken' = [taken EXCEPT ![x] = {}]
        /\ swappable' = IF swappable = x THEN Nowhere ELSE swappable
        /\ tool' = tool /\ crawler' = crawler /\ today' = today /\ runs' = runs
    BY DEF Delete
  <1>2. disk = [p \in Path |-> disk[p]] /\ taken \in [Path -> SUBSET Row]
    BY DEF ToolsInv, DiskOK
  <1>3. /\ disk' = [p \in Path |-> disk'[p]] /\ disk'[x] = Absent
        /\ \A p \in Path : p # x => disk'[p] = disk[p]
    BY <1>1, <1>2
  <1>4. /\ taken' \in [Path -> SUBSET Row] /\ taken'[x] = {}
        /\ \A p \in Path : p # x => taken'[p] = taken[p]
    BY <1>1, <1>2
  <1>5. DiskOK'
    <2>1. Sound(Absent)
      <3>1. -1 \in -1 .. Newer
        BY DEF Newer, Latest
      <3>2. QED
        BY <3>1, CatalogueSound DEF Absent
    <2>2. \A p \in Path : Sound(disk'[p]) /\ Told(disk'[p], taken'[p])
      BY <1>3, <1>4, <2>1 DEF ToolsInv, DiskOK, Told
    <2>3. QED
      BY <1>3, <1>4, <2>2 DEF DiskOK
  <1>6. ToolOK'
    BY <1>1, NoToolTypes DEF ToolOK
  <1>7. disk'[Live] = disk[Live] /\ disk'[Other] = disk[Other] /\ taken'[Live] = taken[Live]
    BY <1>1, <1>3, <1>4
  <1>8. CrawlerOK'
    BY <1>1, <1>7 DEF ToolsInv, CrawlerOK, Opening
  <1>9. OperatorOK'
    <2>1. CASE swappable = x
      BY <1>1, <1>7, <2>1 DEF ToolsInv, OperatorOK
    <2>2. CASE swappable # x
      <3>1. swappable' = swappable
        BY <1>1, <2>2
      <3>2. swappable # Nowhere => taken'[swappable] = taken[swappable]
        BY <1>4, <2>2 DEF ToolsInv, OperatorOK
      <3>3. QED
        BY <1>1, <1>7, <3>1, <3>2 DEF ToolsInv, OperatorOK
    <2>3. QED
      BY <2>1, <2>2
  <1>10. QED
    BY <1>5, <1>6, <1>8, <1>9 DEF ToolsInv

LEMMA NextDayKeeps == ASSUME ToolsInv, NextDay PROVE ToolsInv'
  <1>1. /\ today < LastDay /\ today' = today + 1 /\ disk' = disk /\ taken' = taken
        /\ tool' = tool /\ crawler' = crawler /\ runs' = runs /\ swappable' = swappable
    BY DEF NextDay, history
  <1>2. DiskOK'
    BY <1>1, SameFiles DEF ToolsInv
  <1>3. ToolOK' /\ CrawlerOK'
    BY <1>1 DEF ToolsInv, ToolOK, CrawlerOK, Opening
  <1>4. today' \in 1 .. LastDay
    BY <1>1, CatalogToolsAssumption DEF ToolsInv, OperatorOK
  <1>5. OperatorOK'
    BY <1>1, <1>4 DEF ToolsInv, OperatorOK
  <1>6. QED
    BY <1>2, <1>3, <1>5 DEF ToolsInv

--------------------------------------------------------------------------------
(* The theorems.                                                             *)

LEMMA SourcesType ==
  ASSUME NEW sources \in {<<p>> : p \in Path} \cup {<<p, q>> : p, q \in Path}
  PROVE  sources \in Seq(Path)
  <1>1. CASE sources \in {<<p>> : p \in Path}
    <2>1. PICK p \in Path : sources = <<p>>
      BY <1>1
    <2>2. QED
      BY <2>1
  <1>2. CASE sources \in {<<p, q>> : p, q \in Path}
    <2>1. PICK p \in Path, q \in Path : sources = <<p, q>>
      BY <1>2
    <2>2. QED
      BY <2>1
  <1>3. QED
    BY <1>1, <1>2

LEMMA NextKeeps == ToolsInv /\ [Next]_vars => ToolsInv'
  <1> SUFFICES ASSUME ToolsInv, [Next]_vars PROVE ToolsInv'
    OBVIOUS
  <1>1. CASE CrawlerStarts
    BY <1>1, CrawlerStartsKeeps
  <1>2. CASE CrawlerMigrates
    BY <1>2, CrawlerMigratesKeeps
  <1>3. CASE CrawlerStops
    BY <1>3, CrawlerStopsKeeps
  <1>4. ASSUME NEW o \in Row, Observe(o) \/ Receive(o) PROVE ToolsInv'
    BY <1>4, ObserveKeeps, ReceiveKeeps
  <1>5. ASSUME NEW output \in Path, NEW sources \in {<<p>> : p \in Path} \cup {<<p, q>> : p, q \in Path},
               NEW into \in BOOLEAN, NEW force \in BOOLEAN, MergeStarts(output, sources, into, force)
        PROVE  ToolsInv'
    BY <1>5, SourcesType, MergeStartsKeeps
  <1>6. ASSUME NEW source \in Path, NEW output \in Path, NEW keep \in 0 .. LastDay - 1,
               CompactStarts(source, output, keep)
        PROVE  ToolsInv'
    BY <1>6, CompactStartsKeeps
  <1>7. CASE ToolMigrates
    BY <1>7, ToolMigratesKeeps
  <1>8. CASE MergeOne
    BY <1>8, MergeOneKeeps
  <1>9. CASE CompactOne
    BY <1>9, CompactOneKeeps
  <1>10. CASE ToolEnds
    BY <1>10, ToolEndsKeeps
  <1>11. CASE ToolStops
    BY <1>11, ToolStopsKeeps
  <1>12. CASE Swap
    BY <1>12, SwapKeeps
  <1>13. ASSUME NEW p \in Path, Delete(p) PROVE ToolsInv'
    BY <1>13, DeleteKeeps
  <1>14. CASE NextDay
    BY <1>14, NextDayKeeps
  <1>15. CASE UNCHANGED vars
    <2>1. DiskOK'
      BY <1>15, SameFiles DEF ToolsInv, vars, history
    <2>2. ToolOK' /\ CrawlerOK' /\ OperatorOK'
      BY <1>15 DEF ToolsInv, ToolOK, CrawlerOK, OperatorOK, Opening, vars, history
    <2>3. QED
      BY <2>1, <2>2 DEF ToolsInv
  <1>16. QED
    BY <1>1, <1>2, <1>3, <1>4, <1>5, <1>6, <1>7, <1>8, <1>9, <1>10, <1>11, <1>12, <1>13, <1>14,
       <1>15 DEF Next

THEOREM InductiveInvariant == Spec => []ToolsInv
  BY InitInv, NextKeeps, PTL DEF Spec

\* Whoever opened a catalogue, together with whom, and wherever they were cut, its version
\* names exactly the scripts whose tables it has, and its rows are of files it knows
\* (_run_scripts: "the loser fails cleanly, never corruption").
THEOREM TypeCorrect == Spec => []TypeOK
  <1>1. ASSUME ToolsInv PROVE TypeOK
    <2>1. ASSUME NEW p \in Path, There(p)
          PROVE  /\ disk[p].version \in 0 .. Newer /\ disk[p].tables = 1 .. disk[p].version
                 /\ BagToSet(disk[p].raw) \subseteq Row
                 /\ {r.hash : r \in BagToSet(disk[p].raw) \cup BagToSet(disk[p].ranges)}
                       \subseteq DOMAIN disk[p].files
      <3> DEFINE c == disk[p]
      <3>1. Sound(c) /\ c # Absent
        BY <1>1, <2>1 DEF ToolsInv, DiskOK, There
      <3> HIDE DEF c
      <3>2. c.version \in -1 .. Newer /\ c.version # -1 /\ c.tables = 1 .. c.version
        BY <3>1 DEF Sound
      <3>3. BagToSet(c.raw) = DOMAIN c.raw /\ BagToSet(c.ranges) = DOMAIN c.ranges
        BY DEF BagToSet
      <3>4. /\ DOMAIN c.raw \in SUBSET Row
            /\ \A r \in DOMAIN c.raw \cup DOMAIN c.ranges : r.hash \in DOMAIN c.files
        BY <3>1 DEF Sound, RowsFit
      <3>5. c.version \in 0 .. Newer
        BY <3>2 DEF Newer, Latest
      <3>6. QED
        BY <3>2, <3>3, <3>4, <3>5 DEF c
    <2>2. /\ tool.kind \in {"none", "merge", "into", "compact"}
          /\ tool.step \in {"idle", "open", "copy"} /\ crawler.step \in {"down", "open", "up"}
      BY <1>1 DEF ToolsInv, ToolOK, ToolType, CrawlerOK
    <2>3. /\ today \in 1 .. LastDay /\ runs \in 0 .. RunBound
          /\ swappable \in {Nowhere} \cup (Path \ {Live}) /\ (swappable # Nowhere => crawler = Down)
      BY <1>1 DEF ToolsInv, OperatorOK
    <2>4. QED
      BY <2>1, <2>2, <2>3 DEF TypeOK
  <1>2. QED
    BY <1>1, InductiveInvariant, PTL

\* Every observation a catalogue ever took in is still told by it, through merges,
\* compactions, their failures and repetitions, and the swap (merger.py, compactor.py:
\* "A half-copied source is never committed").
THEOREM NothingIsForgotten == Spec => []NothingForgotten
  <1>1. ToolsInv => NothingForgotten
    BY DEF ToolsInv, DiskOK, Told, NothingForgotten
  <1>2. QED
    BY <1>1, InductiveInvariant, PTL

--------------------------------------------------------------------------------
(* What counts an observation.                                               *)

SameDay(a, b) == a.hash = b.hash /\ a.day = b.day
SameSide(a, b) == a.node = Here <=> b.node = Here
Comparable(S, T) == \A a \in S \ T, b \in T \ S : ~SameSide(a, b)

\* A group of observations of one file and day, and the bucket that is made of it.
OneDay(g) == g # {} /\ \A a, b \in g : SameDay(a, b)
Summary(g) ==
    LET any == CHOOSE o \in g : TRUE
    IN  Bucket(SetToBag(g), any.hash, any.day)

\* Each observation is a row or a member of a group, never two of these; no two groups make
\* the same bucket; their days are over; and a group has all the rows there are of its file
\* and day from the nodes on its side.
Attributed(seen, rows, groups, day) ==
    /\ seen = rows \cup UNION groups /\ rows \cap UNION groups = {}
    /\ \A g, k \in groups : g # k => g \cap k = {} /\ Summary(g) # Summary(k)
    /\ \A g \in groups : OneDay(g) /\ \A o \in g : o.day < day
    /\ \A g \in groups : \A a \in g, b \in rows : SameDay(a, b) => ~SameSide(a, b)

Once(bag) == \A x \in DOMAIN bag : bag[x] = 1

\* What a bucket has of its group.
Shape(g, h, d, count, sum) ==
    [hash |-> h, day |-> d,
     names |-> {o.name : o \in g}, nodes |-> {o.node : o \in g},
     count |-> count,
     first |-> Min({o.at : o \in g}), last |-> Max({o.at : o \in g}),
     min |-> Min({o.sources : o \in g}), max |-> Max({o.sources : o \in g}),
     sum |-> sum]

LEMMA BucketShape ==
  \A rows, h, d :
     Bucket(rows, h, d) =
        Shape(Group(rows, h, d), h, d, SumOf([o \in Group(rows, h, d) |-> rows[o]]),
              SumOf([o \in Group(rows, h, d) |-> o.sources * rows[o]]))
  BY DEF Bucket, Shape

LEMMA SummaryIs ==
  ASSUME NEW g \in SUBSET Row, OneDay(g), NEW o \in g
  PROVE  Summary(g) = Shape(g, o.hash, o.day, SumOf([q \in g |-> 1]), SumOf([q \in g |-> q.sources]))
  <1> DEFINE any == CHOOSE q \in g : TRUE
             bag == SetToBag(g)
  <1>1. any \in g
    OBVIOUS
  <1>2. Summary(g) = Bucket(bag, any.hash, any.day)
    BY DEF Summary
  <1>3. DOMAIN bag = g /\ \A q \in g : bag[q] = 1
    BY DEF SetToBag
  <1> HIDE DEF any, bag
  <1>4. any.hash = o.hash /\ any.day = o.day
    BY <1>1 DEF OneDay, SameDay
  <1>5. Group(bag, o.hash, o.day) = g
    BY <1>3 DEF Group, BagToSet, OneDay, SameDay
  <1>6. \A q \in g : q.sources * bag[q] = q.sources
    BY <1>3, CatalogToolsAssumption DEF RowType
  <1>7. /\ [q \in g |-> bag[q]] = [q \in g |-> 1]
        /\ [q \in g |-> q.sources * bag[q]] = [q \in g |-> q.sources]
    BY <1>3, <1>6
  <1>8. Bucket(bag, o.hash, o.day) =
           Shape(g, o.hash, o.day, SumOf([q \in g |-> bag[q]]), SumOf([q \in g |-> q.sources * bag[q]]))
    BY <1>5, BucketShape
  <1>9. QED
    BY <1>2, <1>4, <1>7, <1>8

LEMMA SummaryFields ==
  ASSUME NEW g \in SUBSET Row, OneDay(g), NEW o \in g
  PROVE  /\ Summary(g).hash = o.hash /\ Summary(g).day = o.day
         /\ Summary(g).nodes = {q.node : q \in g}
         /\ Summary(g).count = SumOf([q \in g |-> 1])
         /\ Summary(g).sum = SumOf([q \in g |-> q.sources])
  <1> DEFINE count == SumOf([q \in g |-> 1])
             sum == SumOf([q \in g |-> q.sources])
  <1>1. Summary(g) = Shape(g, o.hash, o.day, count, sum)
    BY SummaryIs
  <1> HIDE DEF count, sum
  <1>2. /\ Summary(g).hash = o.hash /\ Summary(g).day = o.day
        /\ Summary(g).nodes = {q.node : q \in g}
        /\ Summary(g).count = count /\ Summary(g).sum = sum
    BY <1>1 DEF Shape
  <1>3. QED
    BY <1>2 DEF count, sum

\* The buckets of rows that are there once are those of their groups (buckets.py, bucketize).
LEMMA BucketsAre ==
  ASSUME NEW rows, DOMAIN rows \in SUBSET Row, Once(rows)
  PROVE  /\ Bucketize(rows) = {Summary(g) : g \in Groups(rows)}
         /\ UNION Groups(rows) = DOMAIN rows
         /\ \A g \in Groups(rows) : OneDay(g)
         /\ \A g, k \in Groups(rows) : (\E a \in g, b \in k : SameDay(a, b)) => g = k
  <1> DEFINE Of(o) == Group(rows, o.hash, o.day)
  <1>1. \A o \in DOMAIN rows : Of(o) = {q \in DOMAIN rows : SameDay(q, o)}
    BY DEF Group, BagToSet, SameDay
  <1>2. Groups(rows) = {Of(o) : o \in DOMAIN rows}
    BY DEF Groups, BagToSet
  <1>3. Bucketize(rows) = {Bucket(rows, o.hash, o.day) : o \in DOMAIN rows}
    BY DEF Bucketize, BagToSet
  <1>4. ASSUME NEW o \in DOMAIN rows
        PROVE  Bucket(rows, o.hash, o.day) = Summary(Of(o)) /\ OneDay(Of(o)) /\ o \in Of(o)
    <2> DEFINE g == Of(o)
    <2>1. g \in SUBSET Row /\ g \in SUBSET DOMAIN rows /\ o \in g /\ OneDay(g)
      BY <1>1 DEF OneDay, SameDay
    <2>2. \A q \in g : rows[q] = 1 /\ q.sources * rows[q] = q.sources
      BY <2>1, CatalogToolsAssumption DEF Once, RowType
    <2>3. Bucket(rows, o.hash, o.day) =
             Shape(g, o.hash, o.day, SumOf([q \in g |-> rows[q]]),
                   SumOf([q \in g |-> q.sources * rows[q]]))
      BY BucketShape
    <2> HIDE DEF g
    <2>4. /\ [q \in g |-> rows[q]] = [q \in g |-> 1]
          /\ [q \in g |-> q.sources * rows[q]] = [q \in g |-> q.sources]
      BY <2>2
    <2>5. Summary(g) = Shape(g, o.hash, o.day, SumOf([q \in g |-> 1]), SumOf([q \in g |-> q.sources]))
      BY <2>1, SummaryIs
    <2>6. Bucket(rows, o.hash, o.day) = Summary(g)
      BY <2>3, <2>4, <2>5
    <2>7. QED
      BY <2>1, <2>6 DEF g
  <1>5. \A g, k \in Groups(rows) : (\E a \in g, b \in k : SameDay(a, b)) => g = k
    <2> SUFFICES ASSUME NEW p \in DOMAIN rows, NEW q \in DOMAIN rows,
                        NEW a \in Of(p), NEW b \in Of(q), SameDay(a, b)
                 PROVE  Of(p) = Of(q)
      BY <1>2
    <2>1. SameDay(a, p) /\ SameDay(b, q)
      BY <1>1
    <2>2. p.hash = q.hash /\ p.day = q.day
      BY <2>1 DEF SameDay
    <2>3. QED
      BY <2>2
  <1> HIDE DEF Of
  <1>6. Bucketize(rows) = {Summary(g) : g \in Groups(rows)}
    BY <1>2, <1>3, <1>4
  <1>7. UNION Groups(rows) = DOMAIN rows
    BY <1>1, <1>2, <1>4
  <1>8. \A g \in Groups(rows) : OneDay(g)
    BY <1>2, <1>4
  <1>9. QED
    BY <1>5, <1>6, <1>7, <1>8

\* Two catalogues that have the same stand for what they share, and of which neither has a
\* day that the other cut short, are still counted once together.
LEMMA UnionAttributed ==
  ASSUME NEW S \in SUBSET Row, NEW R, NEW G, NEW T \in SUBSET Row, NEW Q, NEW H, NEW day,
         Attributed(S, R, G, day), Attributed(T, Q, H, day),
         \A a \in S \ T, b \in T \ S : SameDay(a, b) => ~SameSide(a, b),
         \A o \in S \cap T : (o \in R <=> o \in Q) /\ {g \in G : o \in g} = {g \in H : o \in g}
  PROVE  Attributed(S \cup T, R \cup Q, G \cup H, day)
  <1>1. /\ S = R \cup UNION G /\ R \cap UNION G = {} /\ T = Q \cup UNION H /\ Q \cap UNION H = {}
        /\ \A g, k \in G : g # k => g \cap k = {} /\ Summary(g) # Summary(k)
        /\ \A g, k \in H : g # k => g \cap k = {} /\ Summary(g) # Summary(k)
        /\ \A g \in G \cup H : OneDay(g) /\ \A o \in g : o.day < day
    BY DEF Attributed
  <1>2. /\ \A g \in G : \A a \in g, b \in R : SameDay(a, b) => ~SameSide(a, b)
        /\ \A g \in H : \A a \in g, b \in Q : SameDay(a, b) => ~SameSide(a, b)
    BY DEF Attributed
  <1>3. ASSUME NEW o \in S \cap T, NEW g, o \in g PROVE g \in G <=> g \in H
    <2>1. g \in {k \in G : o \in k} <=> g \in {k \in H : o \in k}
      OBVIOUS
    <2>2. QED
      BY <1>3, <2>1
  <1>4. S \cup T = (R \cup Q) \cup UNION (G \cup H)
    BY <1>1
  <1>5. (R \cup Q) \cap UNION (G \cup H) = {}
    <2>1. ASSUME NEW o \in R, NEW g \in H, o \in g PROVE FALSE
      <3>1. o \in S \cap T
        BY <1>1, <2>1
      <3>2. o \in Q
        BY <3>1
      <3>3. QED
        BY <1>1, <2>1, <3>2
    <2>2. ASSUME NEW o \in Q, NEW g \in G, o \in g PROVE FALSE
      <3>1. o \in S \cap T
        BY <1>1, <2>2
      <3>2. o \in R
        BY <3>1
      <3>3. QED
        BY <1>1, <2>2, <3>2
    <2>3. QED
      BY <1>1, <2>1, <2>2
  <1>6. ASSUME NEW g \in G, NEW k \in H, g # k
        PROVE  g \cap k = {} /\ Summary(g) # Summary(k)
    <2>1. g \in SUBSET S /\ k \in SUBSET T /\ g \in SUBSET Row /\ k \in SUBSET Row
          /\ OneDay(g) /\ OneDay(k)
      BY <1>1
    <2>2. ASSUME NEW o \in g \cap k PROVE FALSE
      <3>1. o \in S \cap T
        BY <2>1
      <3>2. g \in H
        BY <1>3, <3>1
      <3>3. QED
        BY <1>1, <1>6, <3>2
    <2>3. ASSUME Summary(g) = Summary(k) PROVE FALSE
      <3>1. PICK a \in g : TRUE
        BY <2>1 DEF OneDay
      <3>2. PICK c \in k : TRUE
        BY <2>1 DEF OneDay
      <3>3. Summary(g).hash = a.hash /\ Summary(g).day = a.day /\ Summary(g).nodes = {q.node : q \in g}
        BY <2>1, SummaryFields
      <3>4. Summary(k).hash = c.hash /\ Summary(k).day = c.day /\ Summary(k).nodes = {q.node : q \in k}
        BY <2>1, SummaryFields
      <3>5. PICK b \in k : b.node = a.node
        BY <2>3, <3>3, <3>4
      <3>6. SameDay(b, c)
        BY <2>1 DEF OneDay
      <3>7. SameDay(a, b) /\ SameSide(a, b)
        BY <2>3, <3>3, <3>4, <3>5, <3>6 DEF SameDay, SameSide
      <3>8. a \in T \/ b \in S
        BY <2>1, <3>7
      <3>9. g \in H \/ k \in G
        BY <1>3, <2>1, <3>8
      <3>10. QED
        BY <1>1, <1>6, <2>3, <3>9
    <2>4. QED
      BY <2>2, <2>3
  <1>7. \A g, k \in G \cup H : g # k => g \cap k = {} /\ Summary(g) # Summary(k)
    BY <1>1, <1>6
  <1>8. ASSUME NEW g \in G, NEW a \in g, NEW b \in Q, SameDay(a, b), SameSide(a, b)
        PROVE  FALSE
    <2>1. a \in S /\ b \in T
      BY <1>1
    <2>2. a \in T \/ b \in S
      BY <1>8, <2>1
    <2>3. g \in H \/ b \in R
      BY <1>3, <2>1, <2>2
    <2>4. QED
      BY <1>2, <1>8, <2>3
  <1>9. ASSUME NEW g \in H, NEW a \in g, NEW b \in R, SameDay(a, b), SameSide(a, b)
        PROVE  FALSE
    <2>1. a \in T /\ b \in S /\ SameDay(b, a) /\ SameSide(b, a)
      BY <1>1, <1>9 DEF SameDay, SameSide
    <2>2. a \in S \/ b \in T
      BY <2>1
    <2>3. g \in G \/ b \in Q
      BY <1>3, <2>1, <2>2
    <2>4. QED
      BY <1>2, <1>9, <2>3
  <1>10. \A g \in G \cup H : \A a \in g, b \in R \cup Q : SameDay(a, b) => ~SameSide(a, b)
    BY <1>2, <1>8, <1>9
  <1>11. QED
    BY <1>1, <1>4, <1>5, <1>7, <1>10 DEF Attributed

\* The rows since a cutoff, the groups there were, and the fresh ones.
CutsInto(seen, rows, groups, fresh, day, cutoff) ==
    /\ Attributed(seen, DOMAIN Recent(rows, cutoff), groups \cup fresh, day)
    /\ Once(Recent(rows, cutoff))
    /\ Bucketize(Old(rows, cutoff)) = {Summary(g) : g \in fresh}
    /\ \A g \in groups, k \in fresh : Summary(g) # Summary(k)

\* The rows of the days before a cutoff become groups of their own (compactor.py,
\* _bucketize_old).
LEMMA CompactionAttributed ==
  ASSUME NEW seen \in SUBSET Row, NEW rows, NEW groups, NEW day \in Int, NEW cutoff \in Int,
         Attributed(seen, DOMAIN rows, groups, day), Once(rows), cutoff <= day,
         NEW fresh, fresh = Groups(Old(rows, cutoff))
  PROVE  CutsInto(seen, rows, groups, fresh, day, cutoff)
  <1> DEFINE old == Old(rows, cutoff)
             recent == Recent(rows, cutoff)
             R == DOMAIN rows
  <1>1. /\ seen = R \cup UNION groups /\ R \cap UNION groups = {}
        /\ \A g, k \in groups : g # k => g \cap k = {} /\ Summary(g) # Summary(k)
        /\ \A g \in groups : OneDay(g) /\ \A o \in g : o.day < day
        /\ \A g \in groups : \A a \in g, b \in R : SameDay(a, b) => ~SameSide(a, b)
    BY DEF Attributed
  <1>2. /\ DOMAIN recent = {o \in R : o.day >= cutoff} /\ DOMAIN old = {o \in R : o.day < cutoff}
        /\ \A o \in DOMAIN recent : recent[o] = rows[o]
        /\ \A o \in DOMAIN old : old[o] = rows[o]
    BY DEF Old, Recent, Restrict
  <1>3. fresh = Groups(old)
    OBVIOUS
  <1> HIDE DEF old, recent, R
  <1>4. R \in SUBSET Row /\ \A o \in seen : o.day \in Nat
    BY <1>1, CatalogToolsAssumption DEF RowType
  <1>5. Once(recent) /\ Once(old) /\ DOMAIN old \in SUBSET Row
    BY <1>2, <1>4 DEF Once, R
  <1>6. /\ Bucketize(old) = {Summary(g) : g \in fresh} /\ UNION fresh = DOMAIN old
        /\ \A g \in fresh : OneDay(g)
        /\ \A g, k \in fresh : (\E a \in g, b \in k : SameDay(a, b)) => g = k
    BY <1>3, <1>5, BucketsAre
  <1>7. R = DOMAIN recent \cup DOMAIN old /\ DOMAIN recent \cap DOMAIN old = {}
    BY <1>1, <1>2, <1>4
  <1>8. seen = DOMAIN recent \cup UNION (groups \cup fresh)
    BY <1>1, <1>6, <1>7
  <1>9. DOMAIN recent \cap UNION (groups \cup fresh) = {}
    BY <1>1, <1>6, <1>7
  <1>10. ASSUME NEW g \in fresh, NEW k \in fresh, g # k
         PROVE  g \cap k = {} /\ Summary(g) # Summary(k)
    <2>1. \A a \in g, b \in k : ~SameDay(a, b)
      BY <1>6, <1>10
    <2>2. PICK a \in g : TRUE
      BY <1>6 DEF OneDay
    <2>3. PICK b \in k : TRUE
      BY <1>6 DEF OneDay
    <2>4. g \in SUBSET Row /\ k \in SUBSET Row /\ OneDay(g) /\ OneDay(k)
      BY <1>5, <1>6
    <2>5. Summary(g).hash = a.hash /\ Summary(g).day = a.day
      BY <2>4, SummaryFields
    <2>6. Summary(k).hash = b.hash /\ Summary(k).day = b.day
      BY <2>4, SummaryFields
    <2>7. Summary(g) # Summary(k)
      BY <2>1, <2>5, <2>6 DEF SameDay
    <2>8. g \cap k = {}
      BY <2>1 DEF SameDay
    <2>9. QED
      BY <2>7, <2>8
  <1>11. ASSUME NEW g \in groups, NEW k \in fresh
         PROVE  g \cap k = {} /\ Summary(g) # Summary(k)
    <2>1. /\ g \in SUBSET Row /\ k \in SUBSET Row /\ OneDay(g) /\ OneDay(k)
          /\ g \in SUBSET UNION groups /\ k \in SUBSET R
      BY <1>1, <1>5, <1>6, <1>7
    <2>2. g \cap k = {}
      BY <1>1, <2>1
    <2>3. ASSUME Summary(g) = Summary(k) PROVE FALSE
      <3>1. PICK a \in g : TRUE
        BY <2>1 DEF OneDay
      <3>2. PICK c \in k : TRUE
        BY <2>1 DEF OneDay
      <3>3. Summary(g).hash = a.hash /\ Summary(g).day = a.day /\ Summary(g).nodes = {q.node : q \in g}
        BY <2>1, SummaryFields
      <3>4. Summary(k).hash = c.hash /\ Summary(k).day = c.day /\ Summary(k).nodes = {q.node : q \in k}
        BY <2>1, SummaryFields
      <3>5. PICK b \in k : b.node = a.node
        BY <2>3, <3>3, <3>4
      <3>6. SameDay(b, c)
        BY <2>1 DEF OneDay
      <3>7. SameDay(a, b) /\ SameSide(a, b)
        BY <2>3, <3>3, <3>4, <3>5, <3>6 DEF SameDay, SameSide
      <3>8. QED
        BY <1>1, <2>1, <3>7
    <2>4. QED
      BY <2>2, <2>3
  <1>12. \A g, k \in groups \cup fresh : g # k => g \cap k = {} /\ Summary(g) # Summary(k)
    BY <1>1, <1>10, <1>11
  <1>13. \A g \in groups \cup fresh : OneDay(g) /\ \A o \in g : o.day < day
    <2>1. ASSUME NEW g \in fresh, NEW o \in g PROVE o.day < day
      <3>1. o \in DOMAIN old
        BY <1>6
      <3>2. o.day \in Nat /\ o.day < cutoff
        BY <1>2, <1>1, <1>4, <3>1
      <3>3. QED
        BY <3>2
    <2>2. QED
      BY <1>1, <1>6, <2>1
  <1>14. ASSUME NEW g \in groups \cup fresh, NEW a \in g, NEW b \in DOMAIN recent, SameDay(a, b)
         PROVE  ~SameSide(a, b)
    <2>1. CASE g \in groups
      BY <1>1, <1>7, <1>14, <2>1
    <2>2. CASE g \in fresh
      <3>1. a \in DOMAIN old /\ b \in seen /\ a \in seen
        BY <1>1, <1>6, <1>7, <2>2
      <3>2. a.day < cutoff /\ b.day >= cutoff /\ a.day \in Nat /\ b.day \in Nat /\ a.day = b.day
        BY <1>2, <1>4, <1>14, <3>1 DEF SameDay
      <3>3. QED
        BY <3>2
    <2>3. QED
      BY <2>1, <2>2
  <1>15. Attributed(seen, DOMAIN recent, groups \cup fresh, day)
    BY <1>8, <1>9, <1>12, <1>13, <1>14 DEF Attributed
  <1>16. QED
    BY <1>5, <1>6, <1>11, <1>15 DEF old, recent, CutsInto

\* Bags that hold each thing once.
LEMMA OnceIs ==
  /\ Once(EmptyBag) /\ DOMAIN EmptyBag = {}
  /\ \A S : Once(SetToBag(S)) /\ DOMAIN SetToBag(S) = S
  /\ \A a, b : /\ DOMAIN (a (+) b) = DOMAIN a \cup DOMAIN b
               /\ Once(a) /\ Once(b) /\ DOMAIN a \cap DOMAIN b = {} => Once(a (+) b)
  <1>1. \A S : Once(SetToBag(S)) /\ DOMAIN SetToBag(S) = S
    BY DEF Once, SetToBag
  <1>2. Once(EmptyBag) /\ DOMAIN EmptyBag = {}
    BY DEF EmptyBag, SetToBag, Once
  <1>3. ASSUME NEW a, NEW b
        PROVE  /\ DOMAIN (a (+) b) = DOMAIN a \cup DOMAIN b
               /\ Once(a) /\ Once(b) /\ DOMAIN a \cap DOMAIN b = {} => Once(a (+) b)
    BY DEF (+), Once
  <1>4. QED
    BY <1>1, <1>2, <1>3

LEMMA UnionOnce ==
  ASSUME NEW a, NEW b, Once(a), Once(b), DOMAIN a \cap DOMAIN b = {}
  PROVE  Once(a (+) b) /\ DOMAIN (a (+) b) = DOMAIN a \cup DOMAIN b
  BY OnceIs

LEMMA CopyOnce ==
  ASSUME NEW rows, NEW source, Once(rows)
  PROVE  Once(CopyJournal(rows, source))
         /\ DOMAIN CopyJournal(rows, source) = DOMAIN rows \cup DOMAIN source
  <1> DEFINE more == DOMAIN source \ DOMAIN rows
  <1>1. CopyJournal(rows, source) = rows (+) SetToBag(more)
    BY DEF CopyJournal, BagToSet
  <1>2. Once(SetToBag(more)) /\ DOMAIN SetToBag(more) = more /\ DOMAIN rows \cap more = {}
    BY OnceIs
  <1> HIDE DEF more
  <1>3. DOMAIN (rows (+) SetToBag(more)) = DOMAIN rows \cup more /\ Once(rows (+) SetToBag(more))
    BY <1>2, UnionOnce
  <1>4. QED
    BY <1>1, <1>3 DEF more

--------------------------------------------------------------------------------
(* The invariant of the counts.                                              *)

CountsOnce(seen, raw, ranges, groups, day) ==
    /\ Attributed(seen, DOMAIN raw, groups, day)
    /\ Once(raw) /\ Once(ranges) /\ DOMAIN ranges = {Summary(g) : g \in groups}

\* Catalogues are copies of one another at different moments: of what two of them took in
\* from one side, one has all that the other has, and the side's own catalogue has it all.
HistoryOK ==
    /\ grouped = [p \in Path |-> grouped[p]]
    /\ \A p \in Path : IsFiniteSet(taken[p])
    /\ \A p, q \in Path : Comparable(taken[p], taken[q])
    /\ \A p \in Path : \A o \in taken[p] : o \in taken[IF o.node = Here THEN Live ELSE Other]

\* The other node compacts nothing here: a group of its catalogue was brought by a merge.
OursOnly(groups) == \A g \in groups : \A o \in g : o.node = Here

CountInv ==
    /\ HistoryOK
    /\ \A p \in Path \ twice :
          /\ CountsOnce(taken[p], disk[p].raw, disk[p].ranges, grouped[p], today)
          /\ p = Other => OursOnly(grouped[p])
    /\ tool.cutoff <= today

LEMMA NothingCounted ==
  ASSUME NEW day PROVE CountsOnce({}, EmptyBag, EmptyBag, {}, day) /\ OursOnly({})
  BY OnceIs DEF CountsOnce, Attributed, OursOnly

LEMMA AbsentRows == \A v : Catalogue(v).raw = EmptyBag /\ Catalogue(v).ranges = EmptyBag
  BY DEF Catalogue

\* It holds at the start.
LEMMA InitCounts == Init => CountInv
  <1> SUFFICES ASSUME Init PROVE CountInv
    OBVIOUS
  <1>1. \A p \in Path : disk[p].raw = EmptyBag /\ disk[p].ranges = EmptyBag
    <2>1. PICK mine \in {Absent, Catalogue(1)}, version \in Release :
             disk = [p \in Path |-> IF p = Live THEN mine
                                   ELSE IF p = Other THEN Catalogue(version) ELSE Absent]
      BY DEF Init
    <2>2. QED
      BY <2>1, AbsentRows DEF Absent
  <1>2. /\ taken = [p \in Path |-> {}] /\ grouped = [p \in Path |-> {}]
        /\ tool = NoTool /\ today = 1
    BY DEF Init
  <1>3. HistoryOK
    <2>1. \A p \in Path : taken[p] = {} /\ IsFiniteSet(taken[p])
      BY <1>2, FS_EmptySet
    <2>2. QED
      BY <1>2, <2>1 DEF HistoryOK, Comparable
  <1>4. \A p \in Path : CountsOnce(taken[p], disk[p].raw, disk[p].ranges, grouped[p], today)
                        /\ OursOnly(grouped[p])
    BY <1>1, <1>2, NothingCounted
  <1>5. tool.cutoff <= today
    BY <1>2 DEF NoTool, Run
  <1>6. QED
    BY <1>3, <1>4, <1>5 DEF CountInv

\* A day that is over is still over the next day.
LEMMA LaterCounts ==
  ASSUME NEW seen \in SUBSET Row, NEW raw, NEW ranges, NEW groups, NEW day \in Int, NEW later \in Int,
         day <= later, CountsOnce(seen, raw, ranges, groups, day)
  PROVE  CountsOnce(seen, raw, ranges, groups, later)
  <1>1. \A g \in groups : OneDay(g) /\ \A o \in g : o.day < day /\ o.day \in Nat
    BY CatalogToolsAssumption DEF CountsOnce, Attributed, RowType
  <1>2. \A g \in groups : OneDay(g) /\ \A o \in g : o.day < later
    BY <1>1
  <1>3. QED
    BY <1>2 DEF CountsOnce, Attributed

SameRows == \A p \in Path : disk'[p].raw = disk[p].raw /\ disk'[p].ranges = disk[p].ranges

\* A step that touches no row: the openings, the scripts, the failures and the days.
LEMMA QuietCounts ==
  ASSUME ToolsInv, CountInv, SameRows, UNCHANGED history,
         today' \in Int, today <= today', tool'.cutoff <= today'
  PROVE  CountInv'
  <1>1. taken' = taken /\ grouped' = grouped /\ twice' = twice
    BY DEF history
  <1>2. HistoryOK'
    BY <1>1 DEF CountInv, HistoryOK
  <1>3. ASSUME NEW p \in Path \ twice
        PROVE  CountsOnce(taken[p], disk'[p].raw, disk'[p].ranges, grouped[p], today')
    <2>1. CountsOnce(taken[p], disk[p].raw, disk[p].ranges, grouped[p], today)
      BY DEF CountInv
    <2>2. taken[p] \in SUBSET Row /\ today \in Int
      BY DEF ToolsInv, DiskOK, OperatorOK
    <2>3. CountsOnce(taken[p], disk[p].raw, disk[p].ranges, grouped[p], today')
      BY <2>1, <2>2, LaterCounts
    <2>4. QED
      BY <2>3 DEF SameRows
  <1>4. \A p \in Path \ twice : p = Other => OursOnly(grouped[p])
    BY DEF CountInv
  <1>5. QED
    BY <1>1, <1>2, <1>3, <1>4 DEF CountInv

LEMMA FileSame ==
  ASSUME DiskOK, NEW x \in Path, NEW c, disk' = [disk EXCEPT ![x] = c],
         c.raw = disk[x].raw, c.ranges = disk[x].ranges
  PROVE  SameRows
  <1>1. disk = [p \in Path |-> disk[p]]
    BY DEF DiskOK
  <1>2. \A p \in Path : disk'[p] = IF p = x THEN c ELSE disk[p]
    BY <1>1
  <1>3. QED
    BY <1>2 DEF SameRows

LEMMA ConnectSame == \A p : Connect(p).raw = disk[p].raw /\ Connect(p).ranges = disk[p].ranges
  BY AbsentRows DEF Connect, There, Absent

LEMMA ScriptSame ==
  ASSUME NEW c, IsCatalogue(c), NEW v
  PROVE  Applied(c, v).raw = c.raw /\ Applied(c, v).ranges = c.ranges
  <1> DEFINE tables == c.tables \cup {v}
             e == [c EXCEPT !.tables = tables]
  <1>1. c = [version |-> c.version, tables |-> c.tables, files |-> c.files,
             raw |-> c.raw, ranges |-> c.ranges]
    BY DEF IsCatalogue
  <1>2. Applied(c, v) = [e EXCEPT !.version = v]
    BY DEF Applied
  <1>3. e = [version |-> c.version, tables |-> tables, files |-> c.files,
             raw |-> c.raw, ranges |-> c.ranges]
    BY <1>1
  <1> HIDE DEF e, tables
  <1>4. Applied(c, v) = [version |-> v, tables |-> tables, files |-> c.files,
                         raw |-> c.raw, ranges |-> c.ranges]
    BY <1>2, <1>3
  <1>5. QED
    BY <1>4

LEMMA TodayIs == ASSUME ToolsInv PROVE today \in Int /\ today >= 1 /\ today <= today /\ NoTool.cutoff <= today
  BY CatalogToolsAssumption DEF ToolsInv, OperatorOK, NoTool, Run

LEMMA CrawlerStartsCounts == ASSUME ToolsInv, CountInv, CrawlerStarts PROVE CountInv'
  <1>1. disk' = [disk EXCEPT ![Live] = Connect(Live)]
    BY DEF CrawlerStarts
  <1>2. SameRows
    BY <1>1, ConnectSame, FileSame, FilesAreThere DEF ToolsInv
  <1>3. tool'.cutoff = tool.cutoff /\ today' = today /\ UNCHANGED history
    BY DEF CrawlerStarts, ToolsInv, ToolOK, ToolType
  <1>4. QED
    BY <1>2, <1>3, TodayIs, QuietCounts DEF CountInv

LEMMA CrawlerMigratesCounts == ASSUME ToolsInv, CountInv, CrawlerMigrates PROVE CountInv'
  <1> DEFINE c == disk[Live]
             v == crawler.next
  <1>1. IsCatalogue(c)
    BY FilesAreThere DEF ToolsInv, DiskOK, Sound
  <1>2. Applied(c, v).raw = c.raw /\ Applied(c, v).ranges = c.ranges
    BY <1>1, ScriptSame
  <1>3. disk' = disk \/ disk' = [disk EXCEPT ![Live] = Applied(c, v)]
    BY DEF CrawlerMigrates
  <1> HIDE DEF v
  <1>4. SameRows
    <2>1. CASE disk' = disk
      BY <2>1 DEF SameRows
    <2>2. CASE disk' = [disk EXCEPT ![Live] = Applied(c, v)]
      BY <1>2, <2>2, FileSame, FilesAreThere DEF ToolsInv
    <2>3. QED
      BY <1>3, <2>1, <2>2
  <1>5. tool' = tool /\ today' = today /\ UNCHANGED history
    BY DEF CrawlerMigrates
  <1>6. QED
    BY <1>4, <1>5, TodayIs, QuietCounts DEF CountInv

LEMMA OpenCounts ==
  ASSUME ToolsInv, CountInv, NEW run \in ToolType, OpenOutput(run), Started, run.cutoff <= today
  PROVE  CountInv'
  <1> DEFINE x == run.output
             c == Connect(x)
  <1>1. disk' = [disk EXCEPT ![x] = c] /\ x \in Path /\ today' = today /\ UNCHANGED history
    BY DEF OpenOutput, Started, ToolType
  <1>2. c.raw = disk[x].raw /\ c.ranges = disk[x].ranges
    BY ConnectSame
  <1>3. tool' = NoTool \/ tool' = [run EXCEPT !.step = "open", !.next = c.version + 1]
    BY DEF OpenOutput
  <1>4. tool'.cutoff <= today
    <2>1. CASE tool' = NoTool
      BY <2>1, TodayIs
    <2>2. CASE tool' = [run EXCEPT !.step = "open", !.next = c.version + 1]
      <3> DEFINE e == [run EXCEPT !.step = "open"]
      <3>1. e.cutoff = run.cutoff /\ e = [kind |-> e.kind, step |-> e.step, output |-> e.output,
              rest |-> e.rest, next |-> e.next, cutoff |-> e.cutoff, whole |-> e.whole]
        BY DEF ToolType
      <3>2. tool' = [e EXCEPT !.next = c.version + 1]
        BY <2>2
      <3> HIDE DEF e, c, x
      <3>3. tool'.cutoff = run.cutoff
        BY <3>1, <3>2
      <3>4. QED
        BY <3>3
    <2>3. QED
      BY <1>3, <2>1, <2>2
  <1> HIDE DEF c, x
  <1>5. SameRows
    BY <1>1, <1>2, FileSame DEF ToolsInv
  <1>6. QED
    BY <1>1, <1>4, <1>5, TodayIs, QuietCounts

LEMMA MergeStartsCounts ==
  ASSUME ToolsInv, CountInv, NEW output \in Path, NEW sources \in Seq(Path),
         NEW into \in BOOLEAN, NEW force \in BOOLEAN, MergeStarts(output, sources, into, force)
  PROVE  CountInv'
  <1> DEFINE kind == IF into THEN "into" ELSE "merge"
             whole == crawler = Down /\ Live \in ToSet(sources)
             run == Run(kind, output, sources, 0, whole)
  <1>1. Started /\ OpenOutput(run)
    BY DEF MergeStarts
  <1>2. kind \in {"merge", "into", "compact"} /\ whole \in BOOLEAN
    OBVIOUS
  <1> HIDE DEF kind, whole
  <1>3. run \in ToolType
    BY <1>2, RunTypes
  <1>4. run.cutoff <= today
    BY TodayIs DEF Run
  <1> HIDE DEF run
  <1>5. QED
    BY <1>1, <1>3, <1>4, OpenCounts

LEMMA CompactStartsCounts ==
  ASSUME ToolsInv, CountInv, NEW source \in Path, NEW output \in Path, NEW keep \in 0 .. LastDay - 1,
         CompactStarts(source, output, keep)
  PROVE  CountInv'
  <1> DEFINE rest == <<source>>
             cutoff == today - keep
             whole == crawler = Down /\ source = Live
             run == Run("compact", output, rest, cutoff, whole)
  <1>1. Started /\ OpenOutput(run)
    BY DEF CompactStarts
  <1>2. rest \in Seq(Path) /\ cutoff \in Int /\ whole \in BOOLEAN /\ cutoff <= today
    BY CatalogToolsAssumption DEF ToolsInv, OperatorOK
  <1> HIDE DEF rest, cutoff, whole
  <1>3. run \in ToolType
    BY <1>2, RunTypes
  <1>4. run.cutoff <= today
    BY <1>2 DEF Run
  <1> HIDE DEF run
  <1>5. QED
    BY <1>1, <1>3, <1>4, OpenCounts

LEMMA ToolMigratesCounts == ASSUME ToolsInv, CountInv, ToolMigrates PROVE CountInv'
  <1> DEFINE x == tool.output
             c == disk[x]
             v == tool.next
  <1>1. x \in Path /\ IsCatalogue(c)
    BY DEF ToolsInv, ToolOK, ToolType, DiskOK, Sound
  <1>2. Applied(c, v).raw = c.raw /\ Applied(c, v).ranges = c.ranges
    BY <1>1, ScriptSame
  <1>3. disk' = disk \/ disk' = [disk EXCEPT ![x] = Applied(c, v)]
    BY DEF ToolMigrates
  <1>4. tool'.cutoff = tool.cutoff \/ tool'.cutoff = NoTool.cutoff
    <2>1. tool \in ToolType
      BY DEF ToolsInv, ToolOK
    <2>2. CASE tool' = [tool EXCEPT !.step = "copy", !.next = 0]
      BY <2>1, <2>2 DEF ToolType
    <2>3. CASE tool' = [tool EXCEPT !.next = v + 1]
      BY <2>1, <2>3 DEF ToolType
    <2>4. QED
      BY <2>2, <2>3 DEF ToolMigrates, Fails
  <1> HIDE DEF v, x, c
  <1>5. SameRows
    <2>1. CASE disk' = disk
      BY <2>1 DEF SameRows
    <2>2. CASE disk' = [disk EXCEPT ![x] = Applied(c, v)]
      BY <1>1, <1>2, <2>2, FileSame DEF ToolsInv, c
    <2>3. QED
      BY <1>3, <2>1, <2>2
  <1>6. today' = today /\ UNCHANGED history
    BY DEF ToolMigrates
  <1>7. tool'.cutoff <= today
    BY <1>4, TodayIs DEF CountInv
  <1>8. QED
    BY <1>5, <1>6, <1>7, TodayIs, QuietCounts

LEMMA IdleCounts ==
  ASSUME ToolsInv, CountInv, disk' = disk, UNCHANGED history, today' = today,
         tool' = NoTool \/ tool'.cutoff = tool.cutoff
  PROVE  CountInv'
  <1>1. SameRows
    BY DEF SameRows
  <1>2. tool'.cutoff <= today
    BY TodayIs DEF CountInv
  <1>3. QED
    BY <1>1, <1>2, TodayIs, QuietCounts

--------------------------------------------------------------------------------
(* The steps that write rows.                                                *)

LEMMA SameFileCounts ==
  ASSUME CountInv, NEW p \in Path, p \notin twice, disk'[p] = disk[p], taken'[p] = taken[p],
         grouped'[p] = grouped[p], today' = today
  PROVE  /\ CountsOnce(taken'[p], disk'[p].raw, disk'[p].ranges, grouped'[p], today')
         /\ p = Other => OursOnly(grouped'[p])
  BY DEF CountInv

\* A row that is new to its catalogue, on a day that no group of it has.
LEMMA RecordedCounts ==
  ASSUME NEW c, NEW o \in Row, IsCatalogue(c), NEW seen \in SUBSET Row, NEW groups, NEW day \in Int,
         CountsOnce(seen, c.raw, c.ranges, groups, day), o \notin seen,
         groups = {} \/ o.day = day
  PROVE  CountsOnce(seen \cup {o}, Recorded(c, o).raw, Recorded(c, o).ranges, groups, day)
  <1> DEFINE files == FirstSightings(c.files, [h \in {o.hash} |-> o.aich])
             raw == c.raw (+) SetToBag({o})
             d == Recorded(c, o)
             e == [c EXCEPT !.raw = raw]
  <1>1. c = [version |-> c.version, tables |-> c.tables, files |-> c.files,
             raw |-> c.raw, ranges |-> c.ranges]
    BY DEF IsCatalogue
  <1>2. d = [e EXCEPT !.files = files]
    BY DEF Recorded
  <1> HIDE DEF files, raw, d
  <1>3. e = [version |-> c.version, tables |-> c.tables, files |-> c.files,
             raw |-> raw, ranges |-> c.ranges]
    BY <1>1
  <1> HIDE DEF e
  <1>4. d.raw = raw /\ d.ranges = c.ranges
    BY <1>2, <1>3
  <1>5. /\ seen = DOMAIN c.raw \cup UNION groups /\ DOMAIN c.raw \cap UNION groups = {}
        /\ \A g, k \in groups : g # k => g \cap k = {} /\ Summary(g) # Summary(k)
        /\ \A g \in groups : OneDay(g) /\ \A q \in g : q.day < day
        /\ \A g \in groups : \A a \in g, b \in DOMAIN c.raw : SameDay(a, b) => ~SameSide(a, b)
        /\ Once(c.raw) /\ Once(c.ranges) /\ DOMAIN c.ranges = {Summary(g) : g \in groups}
    BY DEF CountsOnce, Attributed
  <1>6. DOMAIN raw = DOMAIN c.raw \cup {o} /\ Once(raw)
    <2>1. Once(SetToBag({o})) /\ DOMAIN SetToBag({o}) = {o} /\ DOMAIN c.raw \cap {o} = {}
      BY <1>5, OnceIs
    <2>2. /\ Once(c.raw (+) SetToBag({o}))
          /\ DOMAIN (c.raw (+) SetToBag({o})) = DOMAIN c.raw \cup DOMAIN SetToBag({o})
      BY <1>5, <2>1, UnionOnce
    <2>3. QED
      BY <2>1, <2>2 DEF raw
  <1>7. seen \cup {o} = DOMAIN raw \cup UNION groups /\ DOMAIN raw \cap UNION groups = {}
    BY <1>5, <1>6
  <1>8. ASSUME NEW g \in groups, NEW a \in g, NEW b \in DOMAIN raw, SameDay(a, b)
        PROVE  ~SameSide(a, b)
    <2>1. CASE b = o
      <3>1. a \in seen /\ a.day < day /\ a.day = o.day /\ o.day = day
        BY <1>5, <1>8, <2>1 DEF SameDay
      <3>2. a.day \in Nat
        BY <3>1, CatalogToolsAssumption DEF RowType
      <3>3. QED
        BY <3>1, <3>2
    <2>2. QED
      BY <1>5, <1>6, <1>8, <2>1
  <1>9. QED
    BY <1>4, <1>5, <1>6, <1>7, <1>8 DEF CountsOnce, Attributed, d

LEMMA RecordsCounts ==
  ASSUME ToolsInv, CountInv, NEW x \in {Live, Other}, NEW o \in Row, Records(x, o),
         UNCHANGED <<grouped, twice>>, o \notin taken[x],
         x = IF o.node = Here THEN Live ELSE Other,
         x \notin twice => grouped[x] = {} \/ o.day = today
  PROVE  CountInv'
  <1> DEFINE c == Recorded(disk[x], o)
  <1>0. x \in Path /\ Live \in Path /\ Other \in Path /\ Live # Other
    BY FilesAreThere
  <1>1. disk = [p \in Path |-> disk[p]] /\ taken \in [Path -> SUBSET Row] /\ \A p \in Path : Sound(disk[p])
    BY DEF ToolsInv, DiskOK
  <1>2. disk' = [disk EXCEPT ![x] = c] /\ taken' = [taken EXCEPT ![x] = taken[x] \cup {o}]
    BY DEF Records
  <1> HIDE DEF c
  <1>3. /\ disk'[x] = c /\ taken'[x] = taken[x] \cup {o}
        /\ \A p \in Path : p # x => disk'[p] = disk[p] /\ taken'[p] = taken[p]
    BY <1>0, <1>1, <1>2
  <1>4. grouped' = grouped /\ twice' = twice /\ today' = today /\ tool' = tool
    BY DEF Records
  <1>5. HistoryOK'
    <2>1. \A p \in Path : IsFiniteSet(taken'[p])
      <3>1. IsFiniteSet(taken[x] \cup {o})
        BY <1>0, FS_AddElement DEF CountInv, HistoryOK
      <3>2. QED
        BY <1>3, <3>1 DEF CountInv, HistoryOK
    <2>2. \A p \in Path : \A q \in taken'[p] : q \in taken'[IF q.node = Here THEN Live ELSE Other]
      <3>1. \A p \in Path : taken[p] \subseteq taken'[p]
        BY <1>3
      <3>2. \A p \in Path : \A q \in taken[p] : q \in taken'[IF q.node = Here THEN Live ELSE Other]
        BY <1>0, <3>1 DEF CountInv, HistoryOK
      <3>3. o \in taken'[IF o.node = Here THEN Live ELSE Other]
        BY <1>3
      <3>4. QED
        BY <1>3, <3>2, <3>3
    <2>3. \A q \in Path : Comparable(taken[q], taken[x] \cup {o}) /\ Comparable(taken[x] \cup {o}, taken[q])
      <3> SUFFICES ASSUME NEW q \in Path
                   PROVE  Comparable(taken[q], taken[x] \cup {o}) /\ Comparable(taken[x] \cup {o}, taken[q])
        OBVIOUS
      <3>1. Comparable(taken[q], taken[x]) /\ Comparable(taken[x], taken[q])
        BY <1>0 DEF CountInv, HistoryOK
      <3>2. \A b \in taken[q] \ taken[x] : ~SameSide(o, b) /\ ~SameSide(b, o)
        BY <1>0 DEF CountInv, HistoryOK, SameSide
      <3>3. QED
        BY <3>1, <3>2 DEF Comparable
    <2>4. \A p, q \in Path : Comparable(taken'[p], taken'[q])
      <3>1. Comparable(taken[x] \cup {o}, taken[x] \cup {o})
        BY DEF Comparable
      <3>2. ASSUME NEW p \in Path, NEW q \in Path
            PROVE  Comparable(taken'[p], taken'[q])
        <4>1. CASE p = x /\ q = x
          BY <1>3, <3>1, <4>1
        <4>2. CASE p = x /\ q # x
          BY <1>3, <2>3, <4>2
        <4>3. CASE p # x /\ q = x
          BY <1>3, <2>3, <4>3
        <4>4. CASE p # x /\ q # x
          BY <1>0, <1>3, <4>4 DEF CountInv, HistoryOK
        <4>5. QED
          BY <4>1, <4>2, <4>3, <4>4
      <3>3. QED
        BY <3>2
    <2>5. grouped' = [p \in Path |-> grouped'[p]]
      BY <1>4 DEF CountInv, HistoryOK
    <2>6. QED
      BY <2>1, <2>2, <2>4, <2>5 DEF HistoryOK
  <1>6. ASSUME NEW p \in Path \ twice
        PROVE  /\ CountsOnce(taken'[p], disk'[p].raw, disk'[p].ranges, grouped'[p], today')
               /\ p = Other => OursOnly(grouped'[p])
    <2>1. CASE p # x
      BY <1>3, <1>4, <2>1, SameFileCounts
    <2>2. CASE p = x
      <3>1. /\ CountsOnce(taken[x], disk[x].raw, disk[x].ranges, grouped[x], today)
            /\ x = Other => OursOnly(grouped[x])
        BY <2>2 DEF CountInv
      <3>2. IsCatalogue(disk[x]) /\ taken[x] \in SUBSET Row /\ today \in Int
        BY <1>0, <1>1, TodayIs DEF Sound
      <3>3. grouped[x] = {} \/ o.day = today
        BY <2>2
      <3>4. CountsOnce(taken[x] \cup {o}, c.raw, c.ranges, grouped[x], today)
        BY <3>1, <3>2, <3>3, RecordedCounts DEF c
      <3>5. QED
        BY <1>3, <1>4, <2>2, <3>1, <3>4
    <2>3. QED
      BY <2>1, <2>2
  <1>7. QED
    BY <1>4, <1>5, <1>6 DEF CountInv

LEMMA ObserveCounts == ASSUME ToolsInv, CountInv, NEW o \in Row, Observe(o) PROVE CountInv'
  <1>1. /\ Records(Live, o) /\ UNCHANGED <<grouped, twice>> /\ o.node = Here /\ o.day = today
        /\ \A q \in taken[Live] : q.node = Here => q.at < o.at
    BY DEF Observe, Records
  <1>2. o.at \in Nat
    BY CatalogToolsAssumption DEF RowType
  <1>3. o \notin taken[Live]
    BY <1>1, <1>2
  <1>4. QED
    BY <1>1, <1>3, RecordsCounts

LEMMA ReceiveCounts == ASSUME ToolsInv, CountInv, NEW o \in Row, Receive(o) PROVE CountInv'
  <1>1. /\ Records(Other, o) /\ UNCHANGED <<grouped, twice>> /\ o.node # Here /\ o \notin taken[Other]
        /\ \A q \in taken[Other] : q.node # Here
    BY DEF Receive, Records
  <1>2. ASSUME Other \notin twice, NEW g \in grouped[Other] PROVE FALSE
    <2>1. /\ CountsOnce(taken[Other], disk[Other].raw, disk[Other].ranges, grouped[Other], today)
          /\ OursOnly(grouped[Other])
      BY <1>2, FilesAreThere DEF CountInv
    <2>2. OneDay(g) /\ g \in SUBSET taken[Other] /\ \A q \in g : q.node = Here
      BY <1>2, <2>1 DEF CountsOnce, Attributed, OursOnly
    <2>3. QED
      BY <1>1, <2>2 DEF OneDay
  <1>3. QED
    BY <1>1, <1>2, RecordsCounts

LEMMA SourceIs ==
  ASSUME ToolsInv, tool.rest # <<>>
  PROVE  tool \in ToolType /\ tool.output \in Path /\ tool.rest \in Seq(Path) /\ Head(tool.rest) \in Path
  BY DEF ToolsInv, ToolOK, ToolType

\* One source is committed into the output (Commit), whatever c makes of it.
LEMMA CommitCounts ==
  ASSUME ToolsInv, CountInv, tool.rest # <<>>, NEW source, source = Head(tool.rest),
         NEW x, x = tool.output, NEW c, NEW groups, Commit(c, source, groups), UNCHANGED today,
         x \notin twice /\ source \notin twice /\ ~Clash(x, source) =>
            /\ CountsOnce(taken[x] \cup taken[source], c.raw, c.ranges,
                          grouped[x] \cup grouped[source] \cup groups, today)
            /\ x = Other => OursOnly(grouped[x] \cup grouped[source] \cup groups)
  PROVE  CountInv'
  <1>1. x \in Path /\ source \in Path /\ tool \in ToolType
    BY SourceIs
  <1>2. /\ disk' = [disk EXCEPT ![x] = c]
        /\ taken' = [taken EXCEPT ![x] = taken[x] \cup taken[source]]
        /\ grouped' = [grouped EXCEPT ![x] = grouped[x] \cup grouped[source] \cup groups]
        /\ twice' = IF source \in twice \/ Clash(x, source) THEN twice \cup {x} ELSE twice
        /\ tool' = [tool EXCEPT !.rest = Tail(@)]
    BY DEF Commit
  <1>3. tool'.cutoff = tool.cutoff
    BY <1>1, <1>2 DEF ToolType
  <1>4. /\ disk = [p \in Path |-> disk[p]] /\ taken \in [Path -> SUBSET Row]
        /\ grouped = [p \in Path |-> grouped[p]]
    BY DEF ToolsInv, DiskOK, CountInv, HistoryOK
  <1>5. /\ disk'[x] = c /\ taken'[x] = taken[x] \cup taken[source]
        /\ grouped'[x] = grouped[x] \cup grouped[source] \cup groups
        /\ \A p \in Path : p # x => /\ disk'[p] = disk[p] /\ taken'[p] = taken[p]
                                    /\ grouped'[p] = grouped[p]
        /\ grouped' = [p \in Path |-> grouped'[p]]
    BY <1>1, <1>2, <1>4
  <1>6. twice \subseteq twice'
        /\ (x \notin twice' => x \notin twice /\ source \notin twice /\ ~Clash(x, source))
    BY <1>2
  <1>7. HistoryOK'
    <2> DEFINE both == taken[x] \cup taken[source]
    <2>1. \A p \in Path : IsFiniteSet(taken'[p])
      <3>1. IsFiniteSet(both)
        BY <1>1, FS_Union DEF CountInv, HistoryOK
      <3>2. QED
        BY <1>5, <3>1 DEF CountInv, HistoryOK
    <2>2. \A p \in Path : \A q \in taken'[p] : q \in taken'[IF q.node = Here THEN Live ELSE Other]
      <3>1. \A p \in Path : taken[p] \subseteq taken'[p]
        BY <1>5
      <3>2. \A p \in Path : \A q \in taken[p] : q \in taken'[IF q.node = Here THEN Live ELSE Other]
        BY <3>1, FilesAreThere DEF CountInv, HistoryOK
      <3>3. QED
        BY <1>1, <1>5, <3>2
    <2>3. \A q \in Path : Comparable(taken[q], both) /\ Comparable(both, taken[q])
      BY <1>1 DEF CountInv, HistoryOK, Comparable
    <2>4. Comparable(both, both)
      BY DEF Comparable
    <2> HIDE DEF both
    <2>5. taken'[x] = both
      BY <1>5 DEF both
    <2>6. \A p, q \in Path : Comparable(taken'[p], taken'[q])
      BY <1>5, <2>3, <2>4, <2>5 DEF CountInv, HistoryOK
    <2>7. QED
      BY <1>5, <2>1, <2>2, <2>6 DEF HistoryOK
  <1>8. ASSUME NEW p \in Path \ twice'
        PROVE  /\ CountsOnce(taken'[p], disk'[p].raw, disk'[p].ranges, grouped'[p], today')
               /\ p = Other => OursOnly(grouped'[p])
    <2>1. CASE p # x
      BY <1>5, <1>6, <2>1, SameFileCounts
    <2>2. CASE p = x
      BY <1>5, <1>6, <2>2
    <2>3. QED
      BY <2>1, <2>2
  <1>9. tool'.cutoff <= today'
    BY <1>3 DEF CountInv
  <1>10. QED
    BY <1>7, <1>8, <1>9 DEF CountInv

\* A merge of two catalogues in which the same stands for what both took in.
LEMMA MergeOneCounts == ASSUME ToolsInv, CountInv, MergeOne PROVE CountInv'
  <1> DEFINE source == Head(tool.rest)
             x == tool.output
             d == MergeInto(disk[x], disk[source])
  <1>1. tool.rest # <<>> /\ UNCHANGED <<crawler, today, runs, swappable>>
    BY DEF MergeOne
  <1>2. x \in Path /\ source \in Path /\ tool \in ToolType
    BY <1>1, SourceIs
  <1>3. CASE tool' = [tool EXCEPT !.rest = Tail(@)] /\ UNCHANGED <<disk, history>>
    <2>1. tool'.cutoff = tool.cutoff
      BY <1>2, <1>3 DEF ToolType
    <2>2. QED
      BY <1>1, <1>3, <2>1, IdleCounts
  <1>4. CASE Fails /\ UNCHANGED <<disk, history>>
    BY <1>1, <1>4, IdleCounts DEF Fails
  <1>5. CASE Commit(d, source, {})
    <2> DEFINE S == taken[x]
               T == taken[source]
    <2>1. Sound(disk[x]) /\ S \in SUBSET Row /\ T \in SUBSET Row
      BY <1>2 DEF ToolsInv, DiskOK
    <2>2. d.raw = CopyJournal(disk[x].raw, disk[source].raw)
          /\ d.ranges = CopyJournal(disk[x].ranges, disk[source].ranges)
      <3> DEFINE files == FirstSightings(disk[x].files, disk[source].files)
                 raw == CopyJournal(disk[x].raw, disk[source].raw)
                 ranges == CopyJournal(disk[x].ranges, disk[source].ranges)
      <3>1. Refilled(d, disk[x], files, raw, ranges)
        BY DEF MergeInto, Refilled
      <3> HIDE DEF d, files, raw, ranges
      <3>2. d.raw = raw /\ d.ranges = ranges
        BY <2>1, <3>1, RefilledIs DEF Sound
      <3>3. QED
        BY <3>2 DEF raw, ranges
    <2> HIDE DEF d
    <2>3. ASSUME x \notin twice, source \notin twice, ~Clash(x, source)
          PROVE  /\ CountsOnce(S \cup T, d.raw, d.ranges, grouped[x] \cup grouped[source] \cup {}, today)
                 /\ x = Other => OursOnly(grouped[x] \cup grouped[source] \cup {})
      <3> DEFINE G == grouped[x]
                 H == grouped[source]
                 R == DOMAIN disk[x].raw
                 Q == DOMAIN disk[source].raw
      <3>1. CountsOnce(S, disk[x].raw, disk[x].ranges, G, today) /\ (x = Other => OursOnly(G))
        BY <1>2, <2>3 DEF CountInv
      <3>2. CountsOnce(T, disk[source].raw, disk[source].ranges, H, today)
        BY <1>2, <2>3 DEF CountInv
      <3>3. ASSUME NEW o \in S \cap T
            PROVE  (o \in R <=> o \in Q) /\ {g \in G : o \in g} = {g \in H : o \in g}
        <4>1. StandsFor(x, o) = StandsFor(source, o)
          BY <2>3 DEF Clash
        <4>2. {o} \cap BagToSet(disk[x].raw) = {o} \cap BagToSet(disk[source].raw)
              /\ {g \in G : o \in g} = {g \in H : o \in g}
          BY <4>1 DEF StandsFor
        <4>3. BagToSet(disk[x].raw) = R /\ BagToSet(disk[source].raw) = Q
          BY DEF BagToSet
        <4> HIDE DEF R, Q, G, H
        <4>4. QED
          BY <4>2, <4>3
      <3>4. \A a \in S \ T, b \in T \ S : SameDay(a, b) => ~SameSide(a, b)
        BY <1>2 DEF CountInv, HistoryOK, Comparable
      <3>5. Attributed(S, R, G, today) /\ Attributed(T, Q, H, today)
        BY <3>1, <3>2 DEF CountsOnce
      <3>6. x = Other => OursOnly(G \cup H)
        <4> SUFFICES ASSUME x = Other, NEW g \in H, NEW o \in g, o.node # Here PROVE FALSE
          BY <3>1 DEF OursOnly
        <4>1. o \in T
          BY <3>5 DEF Attributed
        <4>2. o \in S
          BY <1>2, <4>1 DEF CountInv, HistoryOK
        <4>3. g \in {k \in G : o \in k}
          BY <3>3, <4>1, <4>2
        <4>4. QED
          BY <3>1, <4>3 DEF OursOnly
      <3> HIDE DEF G, H, R, Q, S, T
      <3>7. Attributed(S \cup T, R \cup Q, G \cup H, today)
        BY <2>1, <3>3, <3>4, <3>5, UnionAttributed
      <3>8. Once(d.raw) /\ DOMAIN d.raw = R \cup Q
        BY <2>2, <3>1, CopyOnce DEF CountsOnce, R, Q
      <3>9. Once(d.ranges) /\ DOMAIN d.ranges = {Summary(g) : g \in G \cup H}
        <4>1. Once(disk[x].ranges) /\ DOMAIN disk[x].ranges = {Summary(g) : g \in G}
              /\ DOMAIN disk[source].ranges = {Summary(g) : g \in H}
          BY <3>1, <3>2 DEF CountsOnce
        <4>2. Once(d.ranges) /\ DOMAIN d.ranges = DOMAIN disk[x].ranges \cup DOMAIN disk[source].ranges
          BY <2>2, <4>1, CopyOnce
        <4>3. QED
          BY <4>1, <4>2
      <3>10. CountsOnce(S \cup T, d.raw, d.ranges, G \cup H, today)
        BY <3>7, <3>8, <3>9 DEF CountsOnce
      <3>11. grouped[x] \cup grouped[source] \cup {} = G \cup H
        BY DEF G, H
      <3>12. QED
        BY <3>6, <3>10, <3>11
    <2>4. QED
      BY <1>1, <1>5, <2>3, CommitCounts
  <1>6. QED
    BY <1>3, <1>4, <1>5 DEF MergeOne

\* Whatever a catalogue took in is of a file it knows.
LEMMA TakenFiles == ASSUME ToolsInv, NEW p \in Path, NEW o \in taken[p] PROVE o.hash \in DOMAIN disk[p].files
  <1>1. Sound(disk[p]) /\ Carriers(disk[p], o) # {}
    BY DEF ToolsInv, DiskOK, Told
  <1>2. o \in DOMAIN disk[p].raw \/ \E r \in DOMAIN disk[p].ranges : r.hash = o.hash
    BY <1>1, CarriersAre DEF Covers
  <1>3. QED
    BY <1>1, <1>2 DEF Sound, RowsFit

\* A compaction writes into an output that knows none of the files of its source.
LEMMA CompactOneCounts == ASSUME ToolsInv, CountInv, CompactOne PROVE CountInv'
  <1> DEFINE source == Head(tool.rest)
             x == tool.output
             d == Compacted(disk[x], disk[source], tool.cutoff)
             fresh == Groups(Old(disk[source].raw, tool.cutoff))
  <1>1. tool.rest # <<>> /\ UNCHANGED <<crawler, today, runs, swappable>>
    BY DEF CompactOne
  <1>2. x \in Path /\ source \in Path /\ tool.cutoff \in Int /\ tool.cutoff <= today /\ today \in Int
    BY <1>1, SourceIs, TodayIs DEF ToolType, CountInv
  <1>3. CASE Fails /\ UNCHANGED <<disk, history>>
    BY <1>1, <1>3, IdleCounts DEF Fails
  <1>4. CASE /\ DOMAIN disk[source].files \cap DOMAIN disk[x].files = {}
             /\ Commit(d, source, fresh)
    <2> DEFINE S == taken[x]
               T == taken[source]
               recent == Recent(disk[source].raw, tool.cutoff)
               buckets == Bucketize(Old(disk[source].raw, tool.cutoff))
    <2>1. Sound(disk[x]) /\ S \in SUBSET Row /\ T \in SUBSET Row
      BY <1>2 DEF ToolsInv, DiskOK
    <2>2. d.raw = disk[x].raw (+) recent
          /\ d.ranges = disk[x].ranges (+) disk[source].ranges (+) SetToBag(buckets)
      <3> DEFINE files == FirstSightings(disk[x].files, disk[source].files)
                 raw == disk[x].raw (+) recent
                 ranges == disk[x].ranges (+) disk[source].ranges (+) SetToBag(buckets)
      <3>1. Refilled(d, disk[x], files, raw, ranges)
        BY DEF Compacted, Refilled
      <3> HIDE DEF d, files, raw, ranges
      <3>2. d.raw = raw /\ d.ranges = ranges
        BY <2>1, <3>1, RefilledIs DEF Sound
      <3>3. QED
        BY <3>2 DEF raw, ranges
    <2>3. \A a \in S, b \in T : a.hash # b.hash
      BY <1>2, <1>4, TakenFiles
    <2>4. ASSUME x \notin twice, source \notin twice
          PROVE  /\ CountsOnce(S \cup T, d.raw, d.ranges, grouped[x] \cup grouped[source] \cup fresh, today)
                 /\ x = Other => OursOnly(grouped[x] \cup grouped[source] \cup fresh)
      <3> DEFINE G == grouped[x]
                 K == grouped[source]
                 H == K \cup fresh
                 R == DOMAIN disk[x].raw
      <3>1. CountsOnce(S, disk[x].raw, disk[x].ranges, G, today) /\ (x = Other => OursOnly(G))
        BY <1>2, <2>4 DEF CountInv
      <3>2. CountsOnce(T, disk[source].raw, disk[source].ranges, K, today)
        BY <1>2, <2>4 DEF CountInv
      <3>3. /\ Attributed(T, DOMAIN recent, H, today) /\ Once(recent)
            /\ buckets = {Summary(g) : g \in fresh}
            /\ \A g \in K, k \in fresh : Summary(g) # Summary(k)
        <4> DEFINE rows == disk[source].raw
        <4>0. /\ recent = Recent(rows, tool.cutoff) /\ buckets = Bucketize(Old(rows, tool.cutoff))
              /\ fresh = Groups(Old(rows, tool.cutoff))
          OBVIOUS
        <4>1. Attributed(T, DOMAIN rows, K, today) /\ Once(rows)
          BY <3>2 DEF CountsOnce
        <4> HIDE DEF T, K, rows, recent, buckets, fresh
        <4>2. CutsInto(T, rows, K, fresh, today, tool.cutoff)
          BY <1>2, <2>1, <4>0, <4>1, CompactionAttributed
        <4>3. QED
          BY <4>0, <4>2 DEF CutsInto
      <3>4. x = Other => OursOnly(G \cup H)
        <4> SUFFICES ASSUME x = Other, NEW g \in H, NEW o \in g, o.node # Here PROVE FALSE
          BY <3>1 DEF OursOnly
        <4>1. o \in T
          BY <3>3 DEF Attributed
        <4>2. o \in S
          BY <1>2, <4>1 DEF CountInv, HistoryOK
        <4>3. QED
          BY <2>3, <4>1, <4>2
      <3>5. S \cap T = {} /\ \A a \in S, b \in T : ~SameDay(a, b)
        BY <2>3 DEF SameDay
      <3>6. Attributed(S, R, G, today)
        BY <3>1 DEF CountsOnce
      <3>7. \A g \in G, k \in H : Summary(g) # Summary(k)
        <4> SUFFICES ASSUME NEW g \in G, NEW k \in H, Summary(g) = Summary(k) PROVE FALSE
          OBVIOUS
        <4>1. g \in SUBSET S /\ k \in SUBSET T /\ OneDay(g) /\ OneDay(k)
          BY <3>3, <3>6 DEF Attributed
        <4>2. PICK a \in g : TRUE
          BY <4>1 DEF OneDay
        <4>3. PICK b \in k : TRUE
          BY <4>1 DEF OneDay
        <4>4. g \in SUBSET Row /\ k \in SUBSET Row
          BY <2>1, <4>1
        <4>5. Summary(g).hash = a.hash
          BY <4>1, <4>4, SummaryFields
        <4>6. Summary(k).hash = b.hash
          BY <4>1, <4>4, SummaryFields
        <4>7. a \in S /\ b \in T
          BY <4>1
        <4>8. QED
          BY <2>3, <4>5, <4>6, <4>7
      <3>8. DOMAIN recent \in SUBSET T /\ R \in SUBSET S
        BY <3>3, <3>6 DEF Attributed
      <3> HIDE DEF d, G, K, H, R, S, T, recent, buckets, fresh
      <3>9. Attributed(S \cup T, R \cup DOMAIN recent, G \cup H, today)
        BY <2>1, <3>3, <3>5, <3>6, UnionAttributed
      <3>10. Once(d.raw) /\ DOMAIN d.raw = R \cup DOMAIN recent
        <4>1. Once(disk[x].raw) /\ Once(recent) /\ DOMAIN disk[x].raw \cap DOMAIN recent = {}
          BY <3>1, <3>3, <3>5, <3>8 DEF CountsOnce, R
        <4>2. /\ Once(disk[x].raw (+) recent)
              /\ DOMAIN (disk[x].raw (+) recent) = DOMAIN disk[x].raw \cup DOMAIN recent
          BY <4>1, OnceIs
        <4>3. QED
          BY <2>2, <4>2 DEF R
      <3>11. Once(d.ranges) /\ DOMAIN d.ranges = {Summary(g) : g \in G \cup H}
        <4> DEFINE one == disk[x].ranges
                   two == disk[source].ranges
                   new == SetToBag(buckets)
        <4>1. /\ Once(one) /\ DOMAIN one = {Summary(g) : g \in G}
              /\ Once(two) /\ DOMAIN two = {Summary(g) : g \in K}
          BY <3>1, <3>2 DEF CountsOnce
        <4>2. Once(new) /\ DOMAIN new = {Summary(g) : g \in fresh}
          BY <3>3, OnceIs
        <4>3. /\ DOMAIN one \cap DOMAIN two = {} /\ DOMAIN one \cap DOMAIN new = {}
              /\ DOMAIN two \cap DOMAIN new = {}
          BY <3>3, <3>7, <4>1, <4>2 DEF H
        <4>4. d.ranges = one (+) two (+) new
          BY <2>2
        <4> HIDE DEF one, two, new
        <4> DEFINE both == one (+) two
        <4>5. Once(both) /\ DOMAIN both = DOMAIN one \cup DOMAIN two
          BY <4>1, <4>3, OnceIs
        <4> HIDE DEF both
        <4>6. DOMAIN both \cap DOMAIN new = {}
          BY <4>3, <4>5
        <4>10. Once(both (+) new) /\ DOMAIN (both (+) new) = DOMAIN both \cup DOMAIN new
          BY <4>2, <4>5, <4>6, OnceIs
        <4>7. Once(one (+) two (+) new)
              /\ DOMAIN (one (+) two (+) new) = DOMAIN one \cup DOMAIN two \cup DOMAIN new
          BY <4>5, <4>10 DEF both
        <4>8. DOMAIN one \cup DOMAIN two \cup DOMAIN new = {Summary(g) : g \in G \cup H}
          BY <4>1, <4>2 DEF H
        <4>9. QED
          BY <4>4, <4>7, <4>8
      <3>12. CountsOnce(S \cup T, d.raw, d.ranges, G \cup H, today)
        BY <3>9, <3>10, <3>11 DEF CountsOnce
      <3>13. grouped[x] \cup grouped[source] \cup fresh = G \cup H
        BY DEF G, H, K
      <3>14. QED
        BY <3>4, <3>12, <3>13
    <2> HIDE DEF d, fresh
    <2>5. QED
      BY <1>1, <1>4, <2>4, CommitCounts
  <1>5. QED
    BY <1>3, <1>4 DEF CompactOne

LEMMA SwapCounts == ASSUME ToolsInv, CountInv, Swap PROVE CountInv'
  <1> DEFINE x == swappable
             mid == [disk EXCEPT ![Live] = disk[x]]
             seen == [taken EXCEPT ![Live] = taken[Live] \cup taken[x]]
             made == [grouped EXCEPT ![Live] = grouped[x]]
  <1> USE FilesAreThere
  <1>1. x # Nowhere /\ tool' = tool /\ today' = today
        /\ twice' = IF x \in twice THEN (twice \cup {Live}) \ {x} ELSE twice \ {Live}
    BY DEF Swap
  <1>2. x \in Path /\ x # Live /\ x # Other /\ taken[Live] \subseteq taken[x]
    BY <1>1 DEF ToolsInv, OperatorOK
  <1>3. /\ disk' = [mid EXCEPT ![x] = Absent] /\ taken' = [seen EXCEPT ![x] = {}]
        /\ grouped' = [made EXCEPT ![x] = {}]
    BY DEF Swap
  <1>4. /\ disk = [p \in Path |-> disk[p]] /\ taken \in [Path -> SUBSET Row]
        /\ grouped = [p \in Path |-> grouped[p]]
    BY DEF ToolsInv, DiskOK, CountInv, HistoryOK
  <1>5. mid = [p \in Path |-> mid[p]] /\ mid[Live] = disk[x] /\ \A p \in Path : p # Live => mid[p] = disk[p]
    BY <1>4
  <1>6. /\ seen = [p \in Path |-> seen[p]] /\ seen[Live] = taken[x]
        /\ \A p \in Path : p # Live => seen[p] = taken[p]
    BY <1>2, <1>4
  <1>7. /\ made = [p \in Path |-> made[p]] /\ made[Live] = grouped[x]
        /\ \A p \in Path : p # Live => made[p] = grouped[p]
    BY <1>4
  <1> HIDE DEF mid, seen, made
  <1>8. /\ disk'[x] = Absent /\ disk'[Live] = disk[x]
        /\ \A p \in Path : p # Live /\ p # x => disk'[p] = disk[p]
    BY <1>2, <1>3, <1>5
  <1>9. /\ taken'[x] = {} /\ taken'[Live] = taken[x]
        /\ \A p \in Path : p # Live /\ p # x => taken'[p] = taken[p]
    BY <1>2, <1>3, <1>6
  <1>10. /\ grouped'[x] = {} /\ grouped'[Live] = grouped[x] /\ grouped' = [p \in Path |-> grouped'[p]]
         /\ \A p \in Path : p # Live /\ p # x => grouped'[p] = grouped[p]
    BY <1>2, <1>3, <1>7
  <1> HIDE DEF x
  <1>11. HistoryOK'
    <2>1. \A p \in Path : taken'[p] = {} \/ \E q \in Path : taken'[p] = taken[q]
      BY <1>2, <1>9
    <2>2. \A p \in Path : IsFiniteSet(taken'[p])
      BY <2>1, FS_EmptySet DEF CountInv, HistoryOK
    <2>3. \A p, q \in Path : Comparable(taken'[p], taken'[q])
      <3>1. \A S : Comparable({}, S) /\ Comparable(S, {})
        BY DEF Comparable
      <3>2. QED
        BY <2>1, <3>1 DEF CountInv, HistoryOK
    <2>4. \A p \in Path : \A o \in taken'[p] : o \in taken'[IF o.node = Here THEN Live ELSE Other]
      <3> SUFFICES ASSUME NEW p \in Path, NEW o \in taken'[p]
                   PROVE  o \in taken'[IF o.node = Here THEN Live ELSE Other]
        OBVIOUS
      <3>1. o \in taken[IF o.node = Here THEN Live ELSE Other]
        BY <2>1 DEF CountInv, HistoryOK
      <3>2. QED
        BY <1>2, <1>9, <3>1
    <2>5. QED
      BY <1>10, <2>2, <2>3, <2>4 DEF HistoryOK
  <1>12. ASSUME NEW p \in Path \ twice'
         PROVE  /\ CountsOnce(taken'[p], disk'[p].raw, disk'[p].ranges, grouped'[p], today')
                /\ p = Other => OursOnly(grouped'[p])
    <2>1. CASE p = x
      <3>1. disk'[x].raw = EmptyBag /\ disk'[x].ranges = EmptyBag
        BY <1>8, AbsentRows DEF Absent
      <3>2. QED
        BY <1>9, <1>10, <2>1, <3>1, NothingCounted
    <2>2. CASE p = Live
      <3>1. x \notin twice
        BY <1>1, <1>2, <2>2
      <3>2. CountsOnce(taken[x], disk[x].raw, disk[x].ranges, grouped[x], today)
        BY <1>2, <3>1 DEF CountInv
      <3>3. QED
        BY <1>1, <1>8, <1>9, <1>10, <2>2, <3>2
    <2>3. CASE p # x /\ p # Live
      <3>1. p \notin twice
        BY <1>1, <2>3
      <3>2. disk'[p] = disk[p] /\ taken'[p] = taken[p] /\ grouped'[p] = grouped[p]
        BY <1>8, <1>9, <1>10, <2>3
      <3>3. QED
        BY <1>1, <3>1, <3>2, SameFileCounts
    <2>4. QED
      BY <2>1, <2>2, <2>3
  <1>13. QED
    BY <1>1, <1>11, <1>12 DEF CountInv

LEMMA DeleteCounts == ASSUME ToolsInv, CountInv, NEW x \in Path, Delete(x) PROVE CountInv'
  <1> USE FilesAreThere
  <1>1. /\ x \notin {Live, Other} /\ tool' = tool /\ today' = today /\ twice' = twice \ {x}
        /\ disk' = [disk EXCEPT ![x] = Absent] /\ taken' = [taken EXCEPT ![x] = {}]
        /\ grouped' = [grouped EXCEPT ![x] = {}]
    BY DEF Delete
  <1>2. /\ disk = [p \in Path |-> disk[p]] /\ taken \in [Path -> SUBSET Row]
        /\ grouped = [p \in Path |-> grouped[p]]
    BY DEF ToolsInv, DiskOK, CountInv, HistoryOK
  <1>3. /\ disk'[x] = Absent /\ taken'[x] = {} /\ grouped'[x] = {}
        /\ \A p \in Path : p # x => /\ disk'[p] = disk[p] /\ taken'[p] = taken[p]
                                    /\ grouped'[p] = grouped[p]
        /\ grouped' = [p \in Path |-> grouped'[p]]
    BY <1>1, <1>2
  <1>4. HistoryOK'
    <2>1. \A p \in Path : IsFiniteSet(taken'[p])
      BY <1>3, FS_EmptySet DEF CountInv, HistoryOK
    <2>2. \A p, q \in Path : Comparable(taken'[p], taken'[q])
      <3>1. \A S : Comparable({}, S) /\ Comparable(S, {})
        BY DEF Comparable
      <3>2. QED
        BY <1>3, <3>1 DEF CountInv, HistoryOK
    <2>3. \A p \in Path : \A o \in taken'[p] : o \in taken'[IF o.node = Here THEN Live ELSE Other]
      BY <1>1, <1>3 DEF CountInv, HistoryOK
    <2>4. QED
      BY <1>3, <2>1, <2>2, <2>3 DEF HistoryOK
  <1>5. ASSUME NEW p \in Path \ twice'
        PROVE  /\ CountsOnce(taken'[p], disk'[p].raw, disk'[p].ranges, grouped'[p], today')
               /\ p = Other => OursOnly(grouped'[p])
    <2>1. CASE p = x
      <3>1. disk'[x].raw = EmptyBag /\ disk'[x].ranges = EmptyBag
        BY <1>3, AbsentRows DEF Absent
      <3>2. QED
        BY <1>3, <2>1, <3>1, NothingCounted
    <2>2. CASE p # x
      <3>1. p \notin twice
        BY <1>1, <2>2
      <3>2. disk'[p] = disk[p] /\ taken'[p] = taken[p] /\ grouped'[p] = grouped[p]
        BY <1>3, <2>2
      <3>3. QED
        BY <1>1, <3>1, <3>2, SameFileCounts
    <2>3. QED
      BY <2>1, <2>2
  <1>6. QED
    BY <1>1, <1>4, <1>5 DEF CountInv

LEMMA NextDayCounts == ASSUME ToolsInv, CountInv, NextDay PROVE CountInv'
  <1>1. today' = today + 1 /\ disk' = disk /\ tool' = tool /\ UNCHANGED history
    BY DEF NextDay
  <1>2. SameRows
    BY <1>1 DEF SameRows
  <1>3. tool.cutoff \in Int /\ tool.cutoff <= today
    BY DEF CountInv, ToolsInv, ToolOK, ToolType
  <1>4. today' \in Int /\ today <= today' /\ tool'.cutoff <= today'
    BY <1>1, <1>3, TodayIs
  <1>5. QED
    BY <1>1, <1>2, <1>4, QuietCounts

LEMMA NextCounts == ToolsInv /\ CountInv /\ [Next]_vars => CountInv'
  <1> SUFFICES ASSUME ToolsInv, CountInv, [Next]_vars PROVE CountInv'
    OBVIOUS
  <1>1. CASE CrawlerStarts
    BY <1>1, CrawlerStartsCounts
  <1>2. CASE CrawlerMigrates
    BY <1>2, CrawlerMigratesCounts
  <1>3. CASE CrawlerStops
    BY <1>3, IdleCounts DEF CrawlerStops
  <1>4. ASSUME NEW o \in Row, Observe(o) \/ Receive(o) PROVE CountInv'
    BY <1>4, ObserveCounts, ReceiveCounts
  <1>5. ASSUME NEW output \in Path, NEW sources \in {<<p>> : p \in Path} \cup {<<p, q>> : p, q \in Path},
               NEW into \in BOOLEAN, NEW force \in BOOLEAN, MergeStarts(output, sources, into, force)
        PROVE  CountInv'
    BY <1>5, SourcesType, MergeStartsCounts
  <1>6. ASSUME NEW source \in Path, NEW output \in Path, NEW keep \in 0 .. LastDay - 1,
               CompactStarts(source, output, keep)
        PROVE  CountInv'
    BY <1>6, CompactStartsCounts
  <1>7. CASE ToolMigrates
    BY <1>7, ToolMigratesCounts
  <1>8. CASE MergeOne
    BY <1>8, MergeOneCounts
  <1>9. CASE CompactOne
    BY <1>9, CompactOneCounts
  <1>10. CASE ToolEnds
    BY <1>10, IdleCounts DEF ToolEnds
  <1>11. CASE ToolStops
    BY <1>11, IdleCounts DEF ToolStops, Fails
  <1>12. CASE Swap
    BY <1>12, SwapCounts
  <1>13. ASSUME NEW p \in Path, Delete(p) PROVE CountInv'
    BY <1>13, DeleteCounts
  <1>14. CASE NextDay
    BY <1>14, NextDayCounts
  <1>15. CASE UNCHANGED vars
    BY <1>15, IdleCounts DEF vars
  <1>16. QED
    BY <1>1, <1>2, <1>3, <1>4, <1>5, <1>6, <1>7, <1>8, <1>9, <1>10, <1>11, <1>12, <1>13, <1>14,
       <1>15 DEF Next

\* Every observation of a catalogue is one row of it or in one group of it.
THEOREM CountsInvariant == Spec => []CountInv
  BY InitCounts, NextCounts, InductiveInvariant, PTL DEF Spec

--------------------------------------------------------------------------------
(* The counts.                                                               *)

LEMMA SumIs ==
  ASSUME NEW S, IsFiniteSet(S), NEW f, DOMAIN f = S, \A x \in S : f[x] \in Nat
  PROVE  SumOf(f) = Total(f, S)
  <1> DEFINE E(F) == F = [s \in SUBSET S |-> IF s = {} THEN 0 ELSE f[Member(s)] + F[s \ {Member(s)}]]
  <1>1. \A F : E(F) <=> Summing(F, f, S)
    BY DEF Summing
  <1>2. \E F : E(F)
    BY <1>1, SummingExists
  <1>3. SumOf(f) = (CHOOSE F : E(F))[S]
    BY DEF SumOf, MapThenSumSet, MapThenFoldSet, Member
  <1> HIDE DEF E
  <1>4. Summing(CHOOSE F : E(F), f, S)
    BY <1>1, <1>2
  <1>5. Summing(CHOOSE F : Summing(F, f, S), f, S)
    BY SummingExists
  <1>6. S \in SUBSET (S \cap S)
    OBVIOUS
  <1>7. (CHOOSE F : E(F))[S] = (CHOOSE F : Summing(F, f, S))[S]
    BY <1>4, <1>5, <1>6, SummingUnique
  <1>8. QED
    BY <1>3, <1>7 DEF Total

\* A set is some of its members and the parts of the others.
Splits(all, rows, buckets, part) ==
    /\ IsFiniteSet(all) /\ IsFiniteSet(buckets)
    /\ rows \in SUBSET all /\ part \in [buckets -> SUBSET all]
    /\ \A b, c \in buckets : b # c => part[b] \cap part[c] = {}
    /\ all = rows \cup UNION {part[b] : b \in buckets}
    /\ rows \cap UNION {part[b] : b \in buckets} = {}

\* They add up to it, whatever each member weighs.
LEMMA PartsAddUp ==
  ASSUME NEW all, NEW rows, NEW buckets, NEW part, Splits(all, rows, buckets, part),
         NEW weight, \A o \in all : weight[o] \in Nat,
         NEW e, DOMAIN e = rows, \A o \in rows : e[o] = weight[o],
         NEW f, DOMAIN f = buckets, \A b \in buckets : f[b] = Total(weight, part[b])
  PROVE  SumOf(e) + SumOf(f) = Total(weight, all)
  <1> DEFINE rest == UNION {part[b] : b \in buckets}
  <1>0. /\ IsFiniteSet(all) /\ IsFiniteSet(buckets)
        /\ rows \in SUBSET all /\ part \in [buckets -> SUBSET all]
        /\ \A b, c \in buckets : b # c => part[b] \cap part[c] = {}
        /\ all = rows \cup rest /\ rows \cap rest = {}
    BY DEF Splits
  <1>1. IsFiniteSet(rows) /\ \A b \in buckets : IsFiniteSet(part[b])
    BY <1>0, FS_Subset
  <1>2. \A o \in rows : e[o] \in Nat
    BY <1>0
  <1>3. \A b \in buckets : f[b] \in Nat
    <2> SUFFICES ASSUME NEW b \in buckets PROVE Total(weight, part[b]) \in Nat
      OBVIOUS
    <2>1. IsFiniteSet(part[b]) /\ \A o \in part[b] : weight[o] \in Nat
      BY <1>0, <1>1
    <2>2. QED
      BY <2>1, TotalIs
  <1>4. SumOf(e) = Total(weight, rows)
    <2>1. SumOf(e) = Total(e, rows)
      BY <1>1, <1>2, SumIs
    <2>2. Total(e, rows) = Total(weight, rows)
      BY <1>1, TotalSame
    <2>3. QED
      BY <2>1, <2>2
  <1>5. SumOf(f) = Total(weight, rest)
    <2>1. SumOf(f) = Total(f, buckets)
      BY <1>0, <1>3, SumIs
    <2>2. Total(f, buckets) = Total(weight, rest)
      BY <1>0, TotalOfParts
    <2>3. QED
      BY <2>1, <2>2
  <1>6. rest \in SUBSET all
    BY <1>0
  <1> HIDE DEF rest
  <1>7. Total(weight, rows \cup rest) = Total(weight, rows) + Total(weight, rest)
    BY <1>0, <1>6, TotalDisjoint
  <1>8. QED
    BY <1>0, <1>4, <1>5, <1>7

\* The rows and the buckets of one file and day of a catalogue, and the observations.
AddsUp(rows, raw, buckets, ranges, all) ==
    /\ SumOf([o \in rows |-> raw[o]]) + SumOf([r \in buckets |-> r.count * ranges[r]])
         = Cardinality(all)
    /\ SumOf([o \in rows |-> o.sources * raw[o]]) + SumOf([r \in buckets |-> r.sum * ranges[r]])
         = SumOf([o \in all |-> o.sources])

LEMMA DayAddsUp ==
  ASSUME NEW seen \in SUBSET Row, IsFiniteSet(seen), NEW raw, NEW ranges, NEW groups, NEW day,
         CountsOnce(seen, raw, ranges, groups, day), NEW key,
         NEW rows, rows = {o \in DOMAIN raw : <<o.hash, o.day>> = key},
         NEW buckets, buckets = {r \in DOMAIN ranges : <<r.hash, r.day>> = key},
         NEW all, all = {o \in seen : <<o.hash, o.day>> = key}
  PROVE  AddsUp(rows, raw, buckets, ranges, all)
  <1>1. /\ seen = DOMAIN raw \cup UNION groups /\ DOMAIN raw \cap UNION groups = {}
        /\ \A g, k \in groups : g # k => g \cap k = {} /\ Summary(g) # Summary(k)
        /\ \A g \in groups : OneDay(g)
        /\ Once(raw) /\ Once(ranges) /\ DOMAIN ranges = {Summary(g) : g \in groups}
    BY DEF CountsOnce, Attributed
  <1> DEFINE part == [r \in buckets |-> CHOOSE g \in groups : Summary(g) = r]
  <1>2. IsFiniteSet(all) /\ all \in SUBSET seen /\ all \in SUBSET Row
    BY FS_Subset
  <1>3. ASSUME NEW r \in buckets
        PROVE  part[r] \in groups /\ Summary(part[r]) = r
    <2>1. \E g \in groups : Summary(g) = r
      BY <1>1
    <2>2. QED
      BY <2>1
  <1>4. ASSUME NEW g \in groups, NEW o \in g
        PROVE  Summary(g).hash = o.hash /\ Summary(g).day = o.day
    <2>1. g \in SUBSET Row /\ OneDay(g)
      BY <1>1
    <2>2. QED
      BY <2>1, SummaryFields
  <1>5. ASSUME NEW r \in buckets PROVE part[r] \in SUBSET all
    <2> SUFFICES ASSUME NEW o \in part[r] PROVE o \in all
      OBVIOUS
    <2>1. part[r] \in groups /\ Summary(part[r]) = r
      BY <1>3
    <2>2. r.hash = o.hash /\ r.day = o.day /\ o \in seen
      BY <1>1, <1>4, <2>1
    <2>3. QED
      BY <2>2
  <1>6. part \in [buckets -> SUBSET all]
    BY <1>5
  <1>7. ASSUME NEW o \in all, o \notin rows PROVE \E r \in buckets : o \in part[r]
    <2>1. o \in seen /\ o \notin DOMAIN raw
      BY <1>2, <1>7
    <2>2. PICK g \in groups : o \in g
      BY <1>1, <2>1
    <2>3. Summary(g) \in buckets
      BY <1>1, <1>4, <2>2
    <2>4. part[Summary(g)] = g
      BY <1>1, <1>3, <2>3
    <2>5. QED
      BY <2>2, <2>3, <2>4
  <1> DEFINE rest == UNION {part[r] : r \in buckets}
  <1>8. rows \in SUBSET all
    BY <1>1
  <1>9. all = rows \cup rest
    <2>1. \A o : o \in rest <=> \E r \in buckets : o \in part[r]
      OBVIOUS
    <2>2. rest \in SUBSET all
      BY <1>5, <2>1
    <2> HIDE DEF part, rest
    <2>3. QED
      BY <1>7, <1>8, <2>1, <2>2
  <1>10. rows \cap rest = {}
    <2>1. ASSUME NEW r \in buckets, NEW o \in part[r], o \in rows PROVE FALSE
      <3>1. part[r] \in groups
        BY <1>3
      <3>2. QED
        BY <1>1, <2>1, <3>1
    <2> HIDE DEF part
    <2>2. QED
      BY <2>1
  <1>11. \A b, c \in buckets : b # c => part[b] \cap part[c] = {}
    BY <1>1, <1>3
  <1> HIDE DEF part, rest
  <1>12. IsFiniteSet(buckets)
    <2>1. groups \in SUBSET (SUBSET seen)
      BY <1>1
    <2>2. IsFiniteSet(groups)
      BY <2>1, FS_SUBSET, FS_Subset
    <2> DEFINE sums == [g \in groups |-> Summary(g)]
    <2>3. DOMAIN ranges = {sums[g] : g \in groups}
      BY <1>1
    <2> HIDE DEF sums
    <2>4. IsFiniteSet(DOMAIN ranges)
      BY <2>2, <2>3, ImageIsFinite
    <2>5. QED
      BY <2>4, FS_Subset
  <1>22. Splits(all, rows, buckets, part)
    BY <1>2, <1>6, <1>8, <1>9, <1>10, <1>11, <1>12 DEF Splits, rest
  <1>13. ASSUME NEW r \in buckets
         PROVE  /\ ranges[r] = 1
                /\ r.count = Total([o \in part[r] |-> 1], part[r])
                /\ r.sum = Total([o \in part[r] |-> o.sources], part[r])
                /\ IsFiniteSet(part[r])
    <2> DEFINE g == part[r]
    <2>1. g \in groups /\ Summary(g) = r /\ g \in SUBSET all /\ OneDay(g)
      BY <1>1, <1>3, <1>5
    <2>2. IsFiniteSet(g) /\ g \in SUBSET Row /\ \E o \in g : TRUE
      BY <1>2, <2>1, FS_Subset DEF OneDay
    <2> HIDE DEF g
    <2>3. r.count = SumOf([q \in g |-> 1]) /\ r.sum = SumOf([q \in g |-> q.sources])
      BY <2>1, <2>2, SummaryFields
    <2>4. \A o \in g : o.sources \in Nat
      BY <2>2, CatalogToolsAssumption DEF RowType
    <2>5. SumOf([q \in g |-> 1]) = Total([q \in g |-> 1], g)
      BY <2>2, SumIs
    <2>6. SumOf([q \in g |-> q.sources]) = Total([q \in g |-> q.sources], g)
      BY <2>2, <2>4, SumIs
    <2>7. ranges[r] = 1
      BY <1>1 DEF Once
    <2>8. QED
      BY <2>2, <2>3, <2>5, <2>6, <2>7 DEF g
  <1> DEFINE one == [o \in all |-> 1]
             sources == [o \in all |-> o.sources]
  <1>14. \A o \in all : one[o] \in Nat /\ sources[o] \in Nat /\ one[o] = 1 /\ sources[o] = o.sources
    BY <1>2, CatalogToolsAssumption DEF RowType
  <1>15. \A o \in rows : raw[o] = one[o] /\ o.sources * raw[o] = sources[o]
    <2>1. \A o \in rows : raw[o] = 1 /\ o \in all
      BY <1>1, <1>8 DEF Once
    <2> HIDE DEF one, sources
    <2>2. QED
      BY <1>14, <2>1
  <1> HIDE DEF one, sources
  <1>16. ASSUME NEW r \in buckets
         PROVE  /\ r.count * ranges[r] = Total(one, part[r])
                /\ r.sum * ranges[r] = Total(sources, part[r])
    <2> DEFINE g == part[r]
               ones == [o \in g |-> 1]
               shares == [o \in g |-> o.sources]
    <2>1. g \in SUBSET all /\ IsFiniteSet(g)
      BY <1>5, <1>13
    <2>2. \A o \in g : ones[o] = one[o] /\ shares[o] = sources[o]
      BY <1>14, <2>1
    <2>3. \A o \in g : ones[o] \in Nat /\ shares[o] \in Nat
      BY <1>14, <2>1, <2>2
    <2>4. r.count = Total(ones, g) /\ r.sum = Total(shares, g) /\ ranges[r] = 1
      BY <1>13
    <2> HIDE DEF g, ones, shares
    <2>5. Total(ones, g) = Total(one, g) /\ Total(shares, g) = Total(sources, g)
      BY <2>1, <2>2, TotalSame
    <2>6. Total(ones, g) \in Nat /\ Total(shares, g) \in Nat
      BY <2>1, <2>3, TotalIs
    <2>7. r.count * ranges[r] = Total(ones, g) /\ r.sum * ranges[r] = Total(shares, g)
      BY <2>4, <2>6
    <2>8. QED
      BY <2>5, <2>7 DEF g
  <1>17. SumOf([o \in rows |-> raw[o]]) + SumOf([r \in buckets |-> r.count * ranges[r]])
         = Total(one, all)
    <2> DEFINE e == [o \in rows |-> raw[o]]
               f == [r \in buckets |-> r.count * ranges[r]]
    <2>1. DOMAIN e = rows /\ \A o \in rows : e[o] = one[o]
      BY <1>15
    <2>2. DOMAIN f = buckets /\ \A r \in buckets : f[r] = Total(one, part[r])
      BY <1>16
    <2>3. \A o \in all : one[o] \in Nat
      BY <1>14
    <2> HIDE DEF e, f
    <2>4. SumOf(e) + SumOf(f) = Total(one, all)
      BY <1>22, <2>1, <2>2, <2>3, PartsAddUp
    <2>5. QED
      BY <2>4 DEF e, f
  <1>18. SumOf([o \in rows |-> o.sources * raw[o]]) + SumOf([r \in buckets |-> r.sum * ranges[r]])
         = Total(sources, all)
    <2> DEFINE e == [o \in rows |-> o.sources * raw[o]]
               f == [r \in buckets |-> r.sum * ranges[r]]
    <2>1. DOMAIN e = rows /\ \A o \in rows : e[o] = sources[o]
      BY <1>15
    <2>2. DOMAIN f = buckets /\ \A r \in buckets : f[r] = Total(sources, part[r])
      BY <1>16
    <2>3. \A o \in all : sources[o] \in Nat
      BY <1>14
    <2> HIDE DEF e, f
    <2>4. SumOf(e) + SumOf(f) = Total(sources, all)
      BY <1>22, <2>1, <2>2, <2>3, PartsAddUp
    <2>5. QED
      BY <2>4 DEF e, f
  <1>19. Total(one, all) = Cardinality(all)
    BY <1>2, <1>14, TotalOnes
  <1>20. SumOf([o \in all |-> o.sources]) = Total(sources, all)
    <2>1. DOMAIN sources = all /\ sources = [o \in all |-> o.sources]
      BY DEF sources
    <2>2. QED
      BY <1>2, <1>14, <2>1, SumIs
  <1>21. QED
    BY <1>17, <1>18, <1>19, <1>20 DEF AddsUp

\* Whatever was merged again, compacted again or done again after a failure, the rows and
\* the buckets of a file and day add up to the observations the catalogue took in, in
\* number and in sources, unless a merge joined two catalogues in which different buckets
\* stand for the same observation (merger.py, _copy_journal; compactor.py, _bucketize_old).
THEOREM EachIsCountedOnce == Spec => []CountedOnce
  <1>1. ToolsInv /\ CountInv => CountedOnce
    <2> SUFFICES ASSUME ToolsInv, CountInv, NEW p \in {q \in Path : There(q)} \ twice,
                        NEW key \in {<<o.hash, o.day>> : o \in taken[p]}
                 PROVE  LET Of(S) == {r \in S : <<r.hash, r.day>> = key}
                            c == disk[p]
                            rows == Of(BagToSet(c.raw))
                            buckets == Of(BagToSet(c.ranges))
                            all == Of(taken[p])
                        IN  /\ SumOf([o \in rows |-> c.raw[o]])
                                 + SumOf([r \in buckets |-> r.count * c.ranges[r]]) = Cardinality(all)
                            /\ SumOf([o \in rows |-> o.sources * c.raw[o]])
                                 + SumOf([r \in buckets |-> r.sum * c.ranges[r]])
                               = SumOf([o \in all |-> o.sources])
      BY DEF CountedOnce
    <2>1. /\ CountsOnce(taken[p], disk[p].raw, disk[p].ranges, grouped[p], today)
          /\ taken[p] \in SUBSET Row /\ IsFiniteSet(taken[p])
      BY DEF CountInv, HistoryOK, ToolsInv, DiskOK
    <2>2. BagToSet(disk[p].raw) = DOMAIN disk[p].raw /\ BagToSet(disk[p].ranges) = DOMAIN disk[p].ranges
      BY DEF BagToSet
    <2> DEFINE rows == {r \in DOMAIN disk[p].raw : <<r.hash, r.day>> = key}
               buckets == {r \in DOMAIN disk[p].ranges : <<r.hash, r.day>> = key}
               all == {r \in taken[p] : <<r.hash, r.day>> = key}
    <2>3. AddsUp(rows, disk[p].raw, buckets, disk[p].ranges, all)
      <3>1. /\ rows = {r \in DOMAIN disk[p].raw : <<r.hash, r.day>> = key}
            /\ buckets = {r \in DOMAIN disk[p].ranges : <<r.hash, r.day>> = key}
            /\ all = {r \in taken[p] : <<r.hash, r.day>> = key}
        OBVIOUS
      <3> HIDE DEF rows, buckets, all
      <3>2. QED
        BY <2>1, <3>1, DayAddsUp
    <2>4. QED
      BY <2>2, <2>3 DEF AddsUp
  <1>2. QED
    BY <1>1, InductiveInvariant, CountsInvariant, PTL

================================================================================
