----------------------------- MODULE DownloadCycle -----------------------------
(***************************************************************************)
(* The download loop of application/run_download_cycle.py, the rows it     *)
(* keeps through adapters/persistence_sqlite/download_repository.py, and   *)
(* the amuled daemon and disk it works against.                            *)
(*                                                                         *)
(* One cycle runs in the order of the code:                                *)
(*   idle --ReadQueue--> monitor --> shared --> completions <-> notify     *)
(*        --> presence --> disk --> candidates --> links --> adding --> idle *)
(* A step boundary is an await (the amuled calls, the notification) or a   *)
(* database write of its own, because amuled runs on between them and the  *)
(* process can stop there.  What a call or a write may do wrong is enabled *)
(* by the constant Faults.                                                 *)
(***************************************************************************)
EXTENDS Integers, FiniteSets, FiniteSetsExt

CONSTANTS
    Hash,      \* eD2k hashes
    Observed,  \* the hashes the catalogue holds an observation of
    Size,      \* bytes of each file
    Capacity,  \* free bytes of the output filesystem at the start
    MinFree,   \* download.min_free_bytes
    TTL,       \* download.lost_after_seconds, in ticks
    Faults     \* which failures and outside interventions may happen

FaultKinds ==
    {"unreachable",  \* MuleUnreachableError from a call after step 0
     "late",         \* amuled executes a link whose call raised
     "reject",       \* MuleSearchFailedError from add_link
     "repo",         \* RepositoryError from a read or a write
     "disk",         \* OSError from the disk measurement
     "crash",        \* the process stops; shutdown cancels at an await
     "move",         \* a finished file leaves IncomingDir before its notification
     "operator",     \* someone adds or removes an entry in amuled
     "nascent"}      \* an entry enters the queue with no known size

ASSUME ParameterAssumption ==
    /\ IsFiniteSet(Hash)
    /\ Observed \subseteq Hash
    /\ Size \in [Hash -> Nat \ {0}]
    /\ Capacity \in Nat /\ MinFree \in Nat
    /\ TTL \in Nat
    /\ Faults \subseteq FaultKinds

VARIABLES
    \* local.db, table downloads
    downloads,     \* the state of each row; NoRow when there is none
    age,           \* now - last_seen_at, saturated just above the TTL
    \* the loop: where it is and the locals that later steps still read
    step, queued, transferring, outstanding, shared, free, todo,
    diskLow,       \* the EdgeState condition "disk_low"
    notices,       \* DownloadCompleted events emitted for each hash
    \* amuled and the filesystem
    entry, got, sharedFiles, inflight, diskFree,
    offered,       \* history: hashes whose link has been sent at least once
    intruded       \* history: hashes that entered amuled's queue otherwise than by the
                   \* loop, a timed-out link or the operator, since it last read the queue

store  == <<downloads, age>>
locals == <<queued, transferring, outstanding, shared, free, todo>>
amuled == <<entry, got, sharedFiles, inflight, diskFree>>
history == <<offered, intruded>>
vars   == <<store, step, locals, diskLow, notices, amuled, history>>

NoRow == "none"
DownloadState == {"queued", "downloading", "completed", "failed"}
Steps == {"idle", "monitor", "shared", "completions", "notify", "presence",
          "disk", "candidates", "links", "adding", "down"}

Tracked(h) == downloads[h] # NoRow

--------------------------------------------------------------------------------
(* What amuled reports: one queue entry per hash it is fetching or holds     *)
(* complete and uncleared, and the shared list, partial downloads included.  *)

InQueue(h) == entry[h] # "absent"
SizeFull(h) == IF entry[h] = "nascent" THEN 0 ELSE Size[h]
\* Variant to refute: an entry whose size is not known yet has nothing left to fetch.
IsCompleteUnsized(h) == got[h] >= SizeFull(h)
IsComplete(h) == SizeFull(h) > 0 /\ got[h] >= SizeFull(h)
RemainingBytes(h) == IF SizeFull(h) > got[h] THEN SizeFull(h) - got[h] ELSE 0
Transferring(h) == InQueue(h) /\ ~IsComplete(h)

Init ==
    /\ downloads = [h \in Hash |-> NoRow]
    /\ age = [h \in Hash |-> 0]
    /\ step = "idle"
    /\ queued = {} /\ transferring = {} /\ shared = {} /\ todo = {}
    /\ outstanding = 0 /\ free = 0
    /\ diskLow = FALSE
    /\ notices = [h \in Hash |-> 0]
    /\ entry = [h \in Hash |-> "absent"]
    /\ got = [h \in Hash |-> 0]
    /\ sharedFiles = {} /\ inflight = {}
    /\ diskFree = Capacity
    /\ offered = {} /\ intruded = {}

--------------------------------------------------------------------------------
(* The cycle.  Forget drops locals no later step reads.                      *)

Forget == /\ queued' = {} /\ transferring' = {} /\ shared' = {} /\ todo' = {}
          /\ outstanding' = 0 /\ free' = 0

\* MuleUnreachableError, or a failure the last step absorbs: the iteration ends.
EndIteration == step' = "idle" /\ Forget

\* Step 0: connect, then the queue snapshot that steps 1, 2, 2b and 3 share.
\* (Unreachable here leaves everything as it is.)
ReadQueue ==
    /\ step = "idle"
    /\ queued' = {h \in Hash : InQueue(h)}
    /\ transferring' = {h \in Hash : Transferring(h)}
    /\ outstanding' = MapThenSumSet(RemainingBytes, queued')
    /\ step' = "monitor" /\ intruded' = {}
    /\ UNCHANGED <<store, shared, free, todo, diskLow, notices, amuled, offered>>

\* Step 1: rows amuled has in its queue become downloading, failed ones too.
\* A RepositoryError keeps the rows already written and leaves the step.
\* Variant to refute: the guard of _monitor tightened, a failed row stays failed.
ToMonitorFailedWall == {h \in queued : downloads[h] = "queued"}
ToMonitor == {h \in queued : downloads[h] \notin {NoRow, "completed", "downloading"}}
Monitor ==
    /\ step = "monitor"
    /\ \E done \in SUBSET ToMonitor :
        /\ done = ToMonitor \/ "repo" \in Faults
        /\ downloads' = [h \in Hash |-> IF h \in done THEN "downloading" ELSE downloads[h]]
    /\ step' = "shared"
    /\ UNCHANGED <<age, locals, diskLow, notices, amuled, history>>

\* Step 2: the shared list, and the hashes it completes by the rows read next.
\* Variants to refute: one guard of _handle_completions dropped, or one too many.
CompletesAgain(h) == Tracked(h) /\ h \notin transferring
CompletesForeign(h) == downloads[h] # "completed" /\ h \notin transferring
CompletesUnfailed(h) == downloads[h] \in {"queued", "downloading"} /\ h \notin transferring
Completes(h) == downloads[h] \notin {NoRow, "completed"} /\ h \notin transferring
ReadShared ==
    /\ step = "shared"
    /\ shared' = sharedFiles
    /\ todo' = {h \in sharedFiles : Completes(h)}
    /\ step' = "completions"
    /\ UNCHANGED <<store, queued, transferring, outstanding, free, diskLow, notices,
                   amuled, history>>

SharedUnreachable ==
    /\ "unreachable" \in Faults
    /\ step = "shared"
    /\ EndIteration
    /\ UNCHANGED <<store, diskLow, notices, amuled, history>>

StampCompleted(h) ==
    /\ step = "completions" /\ h \in todo
    /\ downloads' = [downloads EXCEPT ![h] = "completed"]
    /\ step' = "notify"
    /\ UNCHANGED <<age, locals, diskLow, notices, amuled, history>>

\* The re-read of the rows, or the write of this one, raised: no completion.
SkipCompletion(h) ==
    /\ "repo" \in Faults
    /\ step = "completions" /\ h \in todo
    /\ todo' = todo \ {h}
    /\ UNCHANGED <<store, step, queued, transferring, outstanding, shared, free, diskLow,
                   notices, amuled, history>>

\* get_target_id succeeds and the event goes out ...
Notify(h) ==
    /\ step = "notify" /\ h \in todo /\ downloads[h] = "completed"
    /\ notices' = [notices EXCEPT ![h] = @ + 1]
    /\ todo' = todo \ {h}
    /\ step' = "completions"
    /\ UNCHANGED <<store, queued, transferring, outstanding, shared, free, diskLow,
                   amuled, history>>

\* ... or it raises, after the state was committed.
TargetLookupFails(h) ==
    /\ "repo" \in Faults
    /\ step = "notify" /\ h \in todo /\ downloads[h] = "completed"
    /\ todo' = todo \ {h}
    /\ step' = "completions"
    /\ UNCHANGED <<store, queued, transferring, outstanding, shared, free, diskLow,
                   notices, amuled, history>>

EndCompletions ==
    /\ step = "completions" /\ todo = {}
    /\ step' = "presence"
    /\ UNCHANGED <<store, locals, diskLow, notices, amuled, history>>

\* Step 2b: stamp what amuled showed, then condemn what it has not shown for a
\* TTL.  A failed stamp skips the condemnation.
Known == {h \in queued \cup shared : Tracked(h)}
\* Variant to refute: the rows are condemned before the stamps are written.
LostBeforeStamp(seen) == {h \in Hash : downloads[h] \in {"queued", "downloading"} /\ age[h] > TTL}
Lost(seen) == {h \in Hash : /\ downloads[h] \in {"queued", "downloading"}
                            /\ age[h] > TTL /\ h \notin seen}
Presence ==
    /\ step = "presence"
    /\ \E seen \in SUBSET Known :
        /\ age' = [h \in Hash |-> IF h \in seen THEN 0 ELSE age[h]]
        /\ \/ /\ seen = Known
              /\ downloads' = [h \in Hash |-> IF h \in Lost(seen) THEN "failed"
                                              ELSE downloads[h]]
           \/ "repo" \in Faults /\ UNCHANGED downloads
    /\ step' = "disk"
    /\ queued' = {} /\ transferring' = {} /\ shared' = {}
    /\ UNCHANGED <<outstanding, free, todo, diskLow, notices, amuled, history>>

\* Step 3: the free space, its edge-triggered alert, and the candidates: the
\* download decisions of the moment whose target is not complete.
MeasureDisk ==
    /\ step = "disk"
    /\ free' = diskFree
    /\ diskLow' = (diskFree < MinFree)
    /\ todo' \in SUBSET Hash
    /\ step' = "candidates"
    /\ UNCHANGED <<store, queued, transferring, outstanding, shared, notices, amuled, history>>

DiskUnmeasurable ==
    /\ "disk" \in Faults
    /\ step = "disk"
    /\ step' = "links" /\ outstanding' = 0
    /\ UNCHANGED <<store, queued, transferring, shared, free, todo, diskLow, notices,
                   amuled, history>>

\* download_policy: dedup on any row, a link must be possible, and the floor.
\* Variant to refute: free space alone.
AdmitsOnFreeSpace(h) == ~Tracked(h) /\ h \in Observed /\ free - Size[h] >= MinFree
Admits(h) ==
    /\ ~Tracked(h)
    /\ h \in Observed
    /\ free - outstanding - Size[h] >= MinFree

\* Variant to refute: the admitted bytes leave the commitment.
AdmitAndRelease(h) ==
    /\ step = "candidates" /\ h \in todo /\ Admits(h)
    /\ downloads' = [downloads EXCEPT ![h] = "queued"]
    /\ age' = [age EXCEPT ![h] = 0]
    /\ outstanding' = outstanding - Size[h]
    /\ todo' = todo \ {h}
    /\ UNCHANGED <<step, queued, transferring, shared, free, diskLow, notices, amuled, history>>

AdmitCandidate(h) ==
    /\ step = "candidates" /\ h \in todo /\ Admits(h)
    /\ downloads' = [downloads EXCEPT ![h] = "queued"]
    /\ age' = [age EXCEPT ![h] = 0]
    /\ outstanding' = outstanding + Size[h]
    /\ todo' = todo \ {h}
    /\ UNCHANGED <<step, queued, transferring, shared, free, diskLow, notices, amuled, history>>

PassCandidate(h) ==
    /\ step = "candidates" /\ h \in todo /\ ~Admits(h)
    /\ todo' = todo \ {h}
    /\ UNCHANGED <<store, step, queued, transferring, outstanding, shared, free, diskLow,
                   notices, amuled, history>>

\* The candidates are exhausted, or a RepositoryError leaves the step.
EndCandidates ==
    /\ step = "candidates" /\ (todo = {} \/ "repo" \in Faults)
    /\ step' = "links" /\ todo' = {} /\ outstanding' = 0 /\ free' = 0
    /\ UNCHANGED <<store, queued, transferring, shared, diskLow, notices, amuled, history>>

\* Step 4: every queued row, re-read, gets its link sent.
\* Variant to refute: only the rows of this cycle.
ReadFreshRows ==
    /\ step = "links"
    /\ todo' = {h \in Observed : downloads[h] = "queued" /\ age[h] = 0}
    /\ step' = "adding"
    /\ UNCHANGED <<store, queued, transferring, outstanding, shared, free, diskLow, notices,
                   amuled, history>>

ReadQueuedRows ==
    /\ step = "links"
    /\ todo' = {h \in Observed : downloads[h] = "queued"}
    /\ step' = "adding"
    /\ UNCHANGED <<store, queued, transferring, outstanding, shared, free, diskLow, notices,
                   amuled, history>>

\* amuled takes a link: a new entry unless it already holds the file.
TakeLink(h) ==
    \E e \in {"known"} \cup (IF "nascent" \in Faults THEN {"nascent"} ELSE {}) :
        entry' = IF InQueue(h) \/ h \in sharedFiles THEN entry
                 ELSE [entry EXCEPT ![h] = e]

LinkTaken(h) ==
    /\ step = "adding" /\ h \in todo
    /\ TakeLink(h)
    /\ offered' = offered \cup {h}
    /\ todo' = todo \ {h}
    /\ UNCHANGED <<store, step, queued, transferring, outstanding, shared, free, diskLow,
                   notices, got, sharedFiles, inflight, diskFree, intruded>>

LinkRejected(h) ==
    /\ "reject" \in Faults
    /\ step = "adding" /\ h \in todo
    /\ downloads' = [downloads EXCEPT ![h] = "failed"]
    /\ offered' = offered \cup {h}
    /\ todo' = todo \ {h}
    /\ UNCHANGED <<age, step, queued, transferring, outstanding, shared, free, diskLow,
                   notices, amuled, intruded>>

\* The call raised MuleUnreachableError: the iteration ends, and amuled may
\* still have received the link.
LinkUnreachable(h) ==
    /\ "unreachable" \in Faults
    /\ step = "adding" /\ h \in todo
    /\ \/ UNCHANGED <<inflight, offered>>
       \/ /\ "late" \in Faults
          /\ inflight' = inflight \cup {h}
          /\ offered' = offered \cup {h}
    /\ EndIteration
    /\ UNCHANGED <<store, diskLow, notices, entry, got, sharedFiles, diskFree, intruded>>

\* Every link is sent, or a RepositoryError ends the last step: a read's, or
\* that of the write that would have failed the row of a rejected link.
EndCycle ==
    /\ \/ step = "adding" /\ todo = {} /\ UNCHANGED offered
       \/ step \in {"links", "adding"} /\ "repo" \in Faults /\ UNCHANGED offered
       \/ /\ step = "adding" /\ {"repo", "reject"} \subseteq Faults
          /\ \E h \in todo : offered' = offered \cup {h}
    /\ EndIteration
    /\ UNCHANGED <<store, diskLow, notices, amuled, intruded>>

--------------------------------------------------------------------------------
(* The process: it can stop between any two steps and is started again.      *)

Crash ==
    /\ "crash" \in Faults
    /\ step # "down"
    /\ step' = "down" /\ Forget /\ diskLow' = FALSE
    /\ UNCHANGED <<store, notices, amuled, history>>

Restart ==
    /\ step = "down"
    /\ step' = "idle"
    /\ UNCHANGED <<store, locals, diskLow, notices, amuled, history>>

Tick ==
    /\ age' = [h \in Hash |-> IF Tracked(h) /\ age[h] <= TTL THEN age[h] + 1 ELSE age[h]]
    /\ UNCHANGED <<downloads, step, locals, diskLow, notices, amuled, history>>

--------------------------------------------------------------------------------
(* amuled, its operator and the filesystem, outside the crawler.             *)

\* For the history: h has entered the queue, and not by the loop's own call.
Intrudes(h) == intruded' = IF entry' = entry THEN intruded ELSE intruded \cup {h}

LateLink(h) ==
    /\ h \in inflight
    /\ inflight' = inflight \ {h}
    /\ TakeLink(h)
    /\ Intrudes(h)
    /\ UNCHANGED <<store, step, locals, diskLow, notices, got, sharedFiles, diskFree, offered>>

LearnSize(h) ==
    /\ entry[h] = "nascent"
    /\ entry' = [entry EXCEPT ![h] = "known"]
    /\ UNCHANGED <<store, step, locals, diskLow, notices, got, sharedFiles, inflight, diskFree,
                   history>>

\* A partial file may be shared, a finished one always is.
Receive(h) ==
    /\ entry[h] = "known" /\ got[h] < Size[h] /\ diskFree > 0
    /\ got' = [got EXCEPT ![h] = @ + 1]
    /\ diskFree' = diskFree - 1
    /\ \/ sharedFiles' = sharedFiles \cup {h}
       \/ got'[h] < Size[h] /\ UNCHANGED sharedFiles
    /\ UNCHANGED <<store, step, locals, diskLow, notices, entry, inflight, history>>

Clear(h) ==
    /\ entry[h] = "known" /\ got[h] = Size[h]
    /\ entry' = [entry EXCEPT ![h] = "absent"]
    /\ UNCHANGED <<store, step, locals, diskLow, notices, got, sharedFiles, inflight, diskFree,
                   history>>

\* The operator takes a finished file out of IncomingDir, or cancels a transfer.
DropFile(h) ==
    /\ entry' = [entry EXCEPT ![h] = "absent"]
    /\ got' = [got EXCEPT ![h] = 0]
    /\ sharedFiles' = sharedFiles \ {h}
    /\ diskFree' = diskFree + got[h]
    /\ UNCHANGED <<store, step, locals, diskLow, notices, inflight, history>>
MoveOut(h) ==
    /\ got[h] = Size[h]
    /\ downloads[h] = "completed" \/ "move" \in Faults
    /\ DropFile(h)
OperatorRemoves(h) == "operator" \in Faults /\ Transferring(h) /\ DropFile(h)

OperatorAdds(h) ==
    /\ "operator" \in Faults
    /\ ~InQueue(h) /\ h \notin sharedFiles
    /\ entry' = [entry EXCEPT ![h] = "known"]
    /\ Intrudes(h)
    /\ UNCHANGED <<store, step, locals, diskLow, notices, got, sharedFiles, inflight, diskFree,
                   offered>>

--------------------------------------------------------------------------------

Loop ==
    \/ ReadQueue \/ Monitor \/ ReadShared \/ SharedUnreachable
    \/ \E h \in Hash : \/ StampCompleted(h) \/ SkipCompletion(h)
                       \/ Notify(h) \/ TargetLookupFails(h)
    \/ EndCompletions \/ Presence \/ MeasureDisk \/ DiskUnmeasurable
    \/ \E h \in Hash : AdmitCandidate(h) \/ PassCandidate(h)
    \/ EndCandidates \/ ReadQueuedRows
    \/ \E h \in Hash : LinkTaken(h) \/ LinkRejected(h) \/ LinkUnreachable(h)
    \/ EndCycle

Environment ==
    \/ Crash \/ Restart \/ Tick
    \/ \E h \in Hash : \/ LateLink(h) \/ LearnSize(h) \/ Receive(h) \/ Clear(h)
                       \/ MoveOut(h) \/ OperatorRemoves(h) \/ OperatorAdds(h)

Next == Loop \/ Environment

Spec == Init /\ [][Next]_vars

--------------------------------------------------------------------------------
(* Fairness.  The loop goes on (the poll timer always fires), time passes,   *)
(* the process is stopped only so many times, and no call or write fails for *)
(* ever: what is tried again and again succeeds again and again.             *)

Fairness ==
    /\ <>[](step # "down")
    /\ WF_vars(Loop) /\ WF_vars(Tick)
    /\ SF_vars(Monitor /\ \A h \in ToMonitor : downloads'[h] = "downloading")
    /\ SF_vars(ReadShared) /\ SF_vars(ReadQueuedRows)
    /\ \A h \in Hash : SF_vars(StampCompleted(h)) /\ SF_vars(LinkTaken(h))

FairSpec == Spec /\ Fairness

--------------------------------------------------------------------------------
(* Properties.                                                               *)

\* What the proofs need of the types: everything but the sum kept in outstanding.
LoopTypeOK ==
    /\ downloads \in [Hash -> {NoRow} \cup DownloadState]
    /\ age \in [Hash -> Nat]
    /\ step \in Steps
    /\ queued \subseteq Hash /\ transferring \subseteq Hash
    /\ shared \subseteq Hash /\ todo \subseteq Hash
    /\ diskLow \in BOOLEAN
    /\ notices \in [Hash -> Nat]
    /\ entry \in [Hash -> {"absent", "nascent", "known"}]
    /\ got \in [Hash -> Nat]
    /\ sharedFiles \subseteq Hash /\ inflight \subseteq Hash
    /\ offered \subseteq Hash /\ intruded \subseteq Hash
    /\ free \in Nat /\ diskFree \in Nat

\* The type invariant.
TypeOK ==
    /\ LoopTypeOK
    /\ age \in [Hash -> 0 .. TTL + 1]
    /\ \A h \in Hash : got[h] <= Size[h]
    /\ outstanding \in Nat

\* A completed row never changes again, whatever amuled shows later ("COMPLETED
\* is one [wall], so its notification never fires twice", _monitor).
CompletedIsTerminal ==
    [][\A h \in Hash : downloads[h] = "completed" => downloads'[h] = "completed"]_vars

\* A completion is announced at most once, across failed writes, restarts and
\* rows that fail and come back, and never before it is committed.
AnnouncedAtMostOnce ==
    \A h \in Hash : notices[h] > 0 => notices[h] = 1 /\ downloads[h] = "completed"

\* "completed only once it is shared AND no longer transferring": when the loop
\* stamps a row, amuled is not fetching that file at that moment, although the
\* two lists the loop compared were read at different moments, sizes may be unknown
\* and links time out; only a file that entered the queue in between escapes it.
Completed(h) == downloads[h] # "completed" /\ downloads'[h] = "completed"
CompletionIsReal ==
    [][\A h \in Hash : Completed(h) /\ h \notin intruded => ~Transferring(h)]_vars

\* The TTL condemns only what amuled really no longer has: not one whose link
\* was refused, and not one that it holds at that moment, with the same exception.
Condemned(h) == step = "presence" /\ downloads[h] # "failed" /\ downloads'[h] = "failed"
CondemnedIsGone ==
    [][\A h \in Hash : Condemned(h) /\ h \notin intruded => ~InQueue(h) /\ h \notin sharedFiles]_vars

\* What the crawler commits never takes the filesystem below the floor.
FloorKept == diskFree >= MinFree

\* A tracked file amuled has finished and keeps sharing ends up completed.
Finished(h) == h \in sharedFiles /\ ~Transferring(h)
FinishedIsCompleted ==
    \A h \in Hash : Tracked(h) /\ Finished(h) ~> downloads[h] = "completed" \/ ~Finished(h)

\* amuled is the authority: a failed row it keeps in its queue comes back.
FailedComesBack ==
    \A h \in Hash : downloads[h] = "failed" /\ InQueue(h)
                    ~> downloads[h] # "failed" \/ ~InQueue(h)

\* A queued row is caught up: amuled gets its link, or the row leaves the state.
QueuedIsOffered ==
    \A h \in Hash : downloads[h] = "queued" ~> h \in offered \/ downloads[h] # "queued"

\* The loop implements the lifecycle its rows promise.
Lifecycle == INSTANCE DownloadLifecycle
                 WITH Hash <- Hash, downloads <- downloads, notices <- notices
ImplementsLifecycle == Lifecycle!Spec

================================================================================
