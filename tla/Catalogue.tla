------------------------------- MODULE Catalogue --------------------------------
(***************************************************************************)
(* The pipeline that turns observations into decisions                     *)
(* (application/record_observations.py, decisions.py), the re-evaluation   *)
(* of the whole catalogue when the policy changed (reevaluate_catalog.py,  *)
(* run_backfill.py), and the append-only journals they write               *)
(* (adapters/persistence_sqlite/catalog_repository.py).  A row is a commit *)
(* of its own, and an await follows it.                                    *)
(***************************************************************************)
EXTENDS Matching, SequencesExt

CONSTANTS
    LastHash,   \* files are 1 .. LastHash, in the order of their hashes
    SeenAs,     \* the names and fields each file may be observed with
    Faults,     \* which failures may happen
    FaultBound  \* how many of them

FaultKinds ==
    {"stop",    \* the process stops, in order or not
     "refuse",  \* the database refuses a call: RepositoryError
     "clock"}   \* the clock of the host was set back: a row is stamped before the row it
                \* should replace, and stays hidden behind it

Hash == 1 .. LastHash

ASSUME CatalogueAssumption ==
    /\ LastHash \in Nat /\ FaultBound \in Nat
    /\ \A h \in Hash : SeenAs[h] \subseteq Name \X Field
    /\ 0 \notin Field
    /\ Faults \subseteq FaultKinds

NoPolicy == "no policy"
ASSUME NoPolicyAssumption == NoPolicy \notin Policy

VARIABLES
    \* catalog.db
    known,    \* the names each file was observed under
    latest,   \* the latest observation of each file by (observed_at, id)
    journal,  \* the latest decision of each file and target by (decided_at, id)
    \* local.db
    marker,   \* the policy of the last complete backfill
    \* The process.
    phase,    \* "down", "sweep" while the backfill runs, then "loops"
    policy,   \* the policy it was started with
    rest,     \* the files the sweep has still to judge
    job,      \* the file being judged
    \* Around it.
    budget,   \* the faults that may still happen
    \* History.
    judged,   \* the policy and the fields of the last complete judgement of each file
    begun     \* the policy of the last sweep that began

history == <<judged, begun>>
disk == <<known, latest, journal, marker>>
vars == <<disk, phase, policy, rest, job, budget, history>>

NoObservation == [name |-> 0, field |-> 0]
NoRow == [name |-> "none", tier |-> "none"]
NoJob == [hash |-> 0, step |-> "idle", field |-> 0, todo |-> <<>>, whole |-> TRUE]
Never == [policy |-> NoPolicy, field |-> 0]   \* not judged, or cut short since

RetractedTier == "retracted"
Retraction == [name |-> "", tier |-> RetractedTier]
Stored == {Retraction} \cup UNION {Range(Rules[p]) : p \in Policy}

Init ==
    /\ known = [h \in Hash |-> {}] /\ latest = [h \in Hash |-> NoObservation]
    /\ journal = [h \in Hash |-> [t \in Target |-> NoRow]]
    /\ marker = NoPolicy /\ phase = "down" /\ policy = NoPolicy /\ rest = {} /\ job = NoJob
    /\ budget = FaultBound
    /\ judged = [h \in Hash |-> Never] /\ begun = NoPolicy

--------------------------------------------------------------------------------
(* What the repository answers.                                              *)

KnownFilenames(h) == known[h]
LastDecisions(h) == [t \in {u \in Target : journal[h][u] # NoRow} |-> journal[h][t]]
DownloadDecisions ==
    {pair \in Hash \X Target : journal[pair[1]][pair[2]].tier = "download"}

\* Variant to refute: the sweep takes every file there may be, observed or not.
ReevaluationOfAll == Hash
ReevaluationRows == {h \in Hash : known[h] # {}}

Spend(kind) == kind \in Faults /\ budget > 0 /\ budget' = budget - 1

\* The append of a row after another one: it is the latest, or hidden behind it.
Latest == UNCHANGED budget
Hidden == Spend("clock")

\* What the readers call the current decisions of a file.
Current(h) ==
    {t \in Target : journal[h][t] # NoRow /\ journal[h][t].tier # RetractedTier}
Strongest(h) == Max({-1} \cup {TierRank[journal[h][t].tier] : t \in Current(h)})

--------------------------------------------------------------------------------
(* One file judged: record_decision_if_changed.                              *)

Fresh(h) == Evaluate(policy, KnownFilenames(h), job.field)

\* The targets to write for, in the order of the writes.
InOrder(targets) ==
    CHOOSE order \in [1 .. Cardinality(targets) -> targets] :
        \A i, j \in DOMAIN order : i < j => order[i] < order[j]
Changed(h, fresh) ==
    LET persisted == LastDecisions(h)
    IN  {t \in DOMAIN fresh : t \notin DOMAIN persisted \/ persisted[t] # fresh[t]}
Dropped(h, fresh) ==
    LET persisted == LastDecisions(h)
    IN  {t \in DOMAIN persisted \ DOMAIN fresh : persisted[t].tier # RetractedTier}

Decisions(h, fresh) ==
    LET order == InOrder(Changed(h, fresh))
    IN  [i \in DOMAIN order |-> [target |-> order[i], verdict |-> fresh[order[i]]]]
Retractions(h, fresh) ==
    LET order == InOrder(Dropped(h, fresh))
    IN  [i \in DOMAIN order |-> [target |-> order[i], verdict |-> Retraction]]

\* Variants to refute: the retractions first; a target that left is forgotten.
ToWriteBackwards(h, fresh) == Retractions(h, fresh) \o Decisions(h, fresh)
ToWriteNoRetraction(h, fresh) == Decisions(h, fresh)

ToWrite(h, fresh) == Decisions(h, fresh) \o Retractions(h, fresh)

Begun(h, field) == [NoJob EXCEPT !.hash = h, !.step = "judge", !.field = field]

\* The three reads and the evaluation; nothing awaits between them.
Judge ==
    /\ job.step = "judge"
    /\ \E fresh \in {Fresh(job.hash)} :
          job' = [job EXCEPT !.step = "write", !.todo = ToWrite(job.hash, fresh)]
    /\ UNCHANGED <<disk, phase, policy, rest, budget, history>>

\* One row, committed; then the event is emitted and the nudge sent.
WriteRow ==
    /\ job.step = "write" /\ job.todo # <<>>
    /\ LET next == Head(job.todo)
       IN  \/ /\ Latest
              /\ journal' = [journal EXCEPT ![job.hash][next.target] = next.verdict]
              /\ job' = [job EXCEPT !.todo = Tail(@)]
           \/ /\ Hidden /\ journal[job.hash][next.target] # NoRow
              /\ job' = [job EXCEPT !.todo = Tail(@), !.whole = FALSE]
              /\ UNCHANGED journal
    /\ UNCHANGED <<known, latest, marker, phase, policy, rest, history>>

Finish ==
    /\ job.step = "write" /\ job.todo = <<>>
    /\ judged' = [judged EXCEPT ![job.hash] =
                    IF job.whole THEN [policy |-> policy, field |-> job.field] ELSE Never]
    /\ job' = NoJob
    /\ UNCHANGED <<disk, phase, policy, rest, budget, begun>>

--------------------------------------------------------------------------------
(* The live pipeline: record_observation.                                    *)

Sighted(h, n, field) ==
    /\ phase = "loops" /\ job = NoJob
    /\ known' = [known EXCEPT ![h] = @ \cup {n}]
    /\ \/ Latest /\ latest' = [latest EXCEPT ![h] = [name |-> n, field |-> field]]
       \/ Hidden /\ latest[h] # NoObservation /\ UNCHANGED latest
    /\ UNCHANGED <<journal, marker, phase, policy, rest, history>>

\* Variant to refute: a name the catalog already has is no news.
ObserveNews(h, n, field) ==
    Sighted(h, n, field) /\ job' = IF n \in known[h] THEN NoJob ELSE Begun(h, field)

\* The observation is one transaction, and one more await comes before the judgement.
Observe(h, n, field) == Sighted(h, n, field) /\ job' = Begun(h, field)

--------------------------------------------------------------------------------
(* Starting: run_backfill_if_policy_changed and reevaluate_catalog.          *)

\* Variant to refute: the marker is stored before the sweep.
StartMarked(p) ==
    /\ phase = "down"
    /\ policy' = p /\ marker' = p
    /\ IF marker = p THEN phase' = "loops" /\ rest' = {} /\ UNCHANGED begun
                     ELSE phase' = "sweep" /\ rest' = ReevaluationRows /\ begun' = p
    /\ UNCHANGED <<known, latest, journal, job, budget, judged>>

Start(p) ==
    /\ phase = "down"
    /\ policy' = p
    /\ IF marker = p THEN phase' = "loops" /\ rest' = {} /\ UNCHANGED begun
                     ELSE phase' = "sweep" /\ rest' = ReevaluationRows /\ begun' = p
    /\ UNCHANGED <<disk, job, budget, judged>>

SweepNext ==
    /\ phase = "sweep" /\ job = NoJob /\ rest # {}
    /\ job' = Begun(Min(rest), latest[Min(rest)].field)
    /\ rest' = rest \ {Min(rest)}
    /\ UNCHANGED <<disk, phase, policy, budget, history>>

StoreMarker ==
    /\ phase = "sweep" /\ job = NoJob /\ rest = {}
    /\ marker' = policy /\ phase' = "loops"
    /\ UNCHANGED <<known, latest, journal, policy, rest, job, budget, history>>

--------------------------------------------------------------------------------
(* Failures.                                                                 *)

\* What is left of a judgement that ends before its time.
CutShort ==
    /\ judged' = IF job = NoJob THEN judged ELSE [judged EXCEPT ![job.hash] = Never]
    /\ UNCHANGED begun

\* Absorbed by record_observation and by the sweep alike: the next file goes on.
JudgementRefused ==
    /\ Spend("refuse") /\ job # NoJob
    /\ CutShort /\ job' = NoJob
    /\ UNCHANGED <<disk, phase, policy, rest>>

\* Nothing absorbs the refusal of the marker, nor a stop.
Stop ==
    /\ phase # "down"
    /\ \/ Spend("stop")
       \/ Spend("refuse") /\ phase = "sweep" /\ job = NoJob /\ rest = {}
    /\ CutShort
    /\ phase' = "down" /\ rest' = {} /\ job' = NoJob
    /\ UNCHANGED <<disk, policy>>

--------------------------------------------------------------------------------
Observed(h) == \E seen \in SeenAs[h] : Observe(h, seen[1], seen[2])

Next ==
    \/ \E p \in Policy : Start(p)
    \/ SweepNext \/ StoreMarker
    \/ \E h \in Hash : Observed(h)
    \/ Judge \/ WriteRow \/ Finish
    \/ JudgementRefused \/ Stop

Spec == Init /\ [][Next]_vars

\* The process runs and is restarted; every file is found again by some later cycle.
Fairness ==
    /\ WF_vars(\E p \in Policy : Start(p))
    /\ WF_vars(SweepNext) /\ WF_vars(StoreMarker)
    /\ WF_vars(Judge) /\ WF_vars(WriteRow) /\ WF_vars(Finish)
    /\ \A h \in Hash : SF_vars(Observed(h))

FairSpec == Spec /\ Fairness

--------------------------------------------------------------------------------
(* Properties.                                                               *)

\* Every variable keeps its type; a file has a decision only if it has a name, the sweep
\* and the job agree with the phase, and only the catalogued files are swept.
TypeOK ==
    /\ \A h \in Hash : known[h] \subseteq Name
    /\ \A h \in Hash : latest[h] = NoObservation <=> known[h] = {}
    /\ \A h \in Hash : latest[h] # NoObservation =>
            latest[h].name \in known[h] /\ latest[h].field \in Field
    /\ \A h \in Hash, t \in Target : journal[h][t] # NoRow =>
            journal[h][t] \in Stored /\ known[h] # {}
    /\ {marker, policy, begun} \subseteq Policy \cup {NoPolicy}
    /\ phase \in {"down", "sweep", "loops"} /\ (phase # "down" => policy \in Policy)
    /\ \A h \in rest : known[h] # {}
    /\ (phase # "sweep" => rest = {})
    /\ job = NoJob \/ (known[job.hash] # {} /\ job.hash \notin rest /\ phase # "down")
    /\ budget \in 0 .. FaultBound
    /\ \A h \in Hash : judged[h] = Never \/ (judged[h].policy \in Policy /\ judged[h].field \in Field)

\* The current decisions of a file that was judged to the end are those the engine reaches
\* on every name the catalog knows, whatever was written, retracted, replaced by another
\* policy or cut short before (decisions.py: the set difference keyed by file and target).
SettledIsFresh ==
    \A h \in Hash : (judged[h] # Never /\ job.hash # h) =>
        LET fresh == Evaluate(judged[h].policy, known[h], judged[h].field)
        IN  /\ Current(h) = DOMAIN fresh
            /\ \A t \in Current(h) : journal[h][t] = fresh[t]

\* Once the loops run, no file is left with decisions of a policy the crawler no longer
\* runs: a backfill cut short is replayed (run_backfill.py: "the next start sees the same
\* (or no) fingerprint and retries the full pass").
JudgedUnderPolicy ==
    phase = "loops" => \A h \in Hash : judged[h] = Never \/ judged[h].policy = policy

\* The same, unless the operator went back to the policy of the marker while the sweep of
\* another one was cut short.
CutSweepIsReplayed == begun = policy => JudgedUnderPolicy

\* A policy as deploy/matcher.yml is written: the rules are listed by tier, the catch-alls
\* last, and a rule of the episode level (it looks for the number alone) is true of every
\* segment of an episode or of none.
Ordered(p) ==
    LET Tier(i) == TierRank[Rules[p][i].tier]
        CatchAll(i) == Rules[p][i].name \notin SegmentLevel \cup EpisodeLevel
    IN  /\ \A i, j \in DOMAIN Rules[p] : i < j =>
                Tier(i) >= Tier(j) /\ (CatchAll(i) => CatchAll(j))
        /\ \A i \in DOMAIN Rules[p], t, u \in Target, n \in Name, f \in Field :
                Rules[p][i].name \in EpisodeLevel /\ Episode[t] = Episode[u] =>
                    (i \in Fires[p][t][n][f] <=> i \in Fires[p][u][n][f])

\* A file never loses its strongest tier by being seen under one more name, at no moment
\* of the rewriting of its rows: only another policy or other fields demote it, or a clock
\* set back, which hides the row that should have taken over (decisions.py: "its names no
\* longer retract each other").
NeverDemotedByAName ==
    [][\A h \in Hash : Strongest(h)' < Strongest(h) =>
            ~job.whole \/ judged[h] # [policy |-> policy, field |-> job.field]]_vars

\* Whatever was cut short, all the files are again and again judged to the end at once:
\* observing one judges it, although neither the policy nor its names have changed.
RepairedByObservation ==
    []<>(\A h \in Hash : known[h] # {} => judged[h] # Never)

================================================================================
