-------------------------- MODULE DownloadCycleProofs --------------------------
(***************************************************************************)
(* Theorems about the download loop, for any set of hashes, any sizes,     *)
(* floor and TTL, and any faults unless a theorem excludes some.           *)
(***************************************************************************)
EXTENDS DownloadCycle, FiniteLemmas

--------------------------------------------------------------------------------
(* The types.                                                                *)

LEMMA InitType == Init => LoopTypeOK
  <1> SUFFICES ASSUME Init PROVE LoopTypeOK
    OBVIOUS
  <1>1. /\ downloads \in [Hash -> {NoRow} \cup DownloadState]
        /\ age \in [Hash -> Nat] /\ notices \in [Hash -> Nat]
    BY DEF Init
  <1>2. /\ entry \in [Hash -> {"absent", "nascent", "known"}]
        /\ got \in [Hash -> Nat]
    BY DEF Init
  <1>3. step \in Steps /\ diskLow \in BOOLEAN /\ free \in Nat /\ diskFree \in Nat
    BY ParameterAssumption DEF Init, Steps
  <1>4. /\ queued \subseteq Hash /\ transferring \subseteq Hash
        /\ shared \subseteq Hash /\ todo \subseteq Hash
        /\ sharedFiles \subseteq Hash /\ inflight \subseteq Hash
        /\ offered \subseteq Hash /\ intruded \subseteq Hash
    BY DEF Init
  <1>5. QED
    BY <1>1, <1>2, <1>3, <1>4 DEF LoopTypeOK

LEMMA NextType == LoopTypeOK /\ [Next]_vars => LoopTypeOK'
  <1> SUFFICES ASSUME LoopTypeOK, [Next]_vars
               PROVE  LoopTypeOK'
    OBVIOUS
  <1> USE DEF LoopTypeOK, DownloadState, NoRow, Steps, history
  <1>1. CASE ReadQueue
    BY <1>1 DEF ReadQueue, store, amuled
  <1>2. CASE Monitor
    BY <1>2 DEF Monitor, locals, amuled
  <1>3. CASE ReadShared
    BY <1>3 DEF ReadShared, store, amuled
  <1>4. CASE SharedUnreachable
    BY <1>4 DEF SharedUnreachable, EndIteration, Forget, store, amuled
  <1>5. ASSUME NEW h \in Hash, \/ StampCompleted(h) \/ SkipCompletion(h)
                               \/ Notify(h) \/ TargetLookupFails(h)
        PROVE  LoopTypeOK'
    BY <1>5 DEF StampCompleted, SkipCompletion, Notify, TargetLookupFails, store, locals, amuled
  <1>6. CASE EndCompletions
    BY <1>6 DEF EndCompletions, store, locals, amuled
  <1>7. CASE Presence
    <2>1. age' \in [Hash -> Nat]
      BY <1>7 DEF Presence
    <2>2. downloads' \in [Hash -> {NoRow} \cup DownloadState]
      <3>1. CASE UNCHANGED downloads
        BY <3>1
      <3>2. ASSUME NEW seen \in SUBSET Known,
                   downloads' = [h \in Hash |-> IF h \in Lost(seen) THEN "failed"
                                                ELSE downloads[h]]
            PROVE  downloads' \in [Hash -> {NoRow} \cup DownloadState]
        BY <3>2
      <3>3. QED
        BY <1>7, <3>1, <3>2 DEF Presence
    <2>3. QED
      BY <1>7, <2>1, <2>2 DEF Presence, amuled
  <1>8. CASE MeasureDisk \/ DiskUnmeasurable
    <2>1. CASE MeasureDisk
      <3>1. diskLow' \in BOOLEAN
        BY <2>1, ParameterAssumption DEF MeasureDisk
      <3>2. QED
        BY <2>1, <3>1 DEF MeasureDisk, store, amuled
    <2>2. CASE DiskUnmeasurable
      BY <2>2 DEF DiskUnmeasurable, store, amuled
    <2>3. QED
      BY <1>8, <2>1, <2>2
  <1>9. ASSUME NEW h \in Hash, AdmitCandidate(h) \/ PassCandidate(h)
        PROVE  LoopTypeOK'
    BY <1>9 DEF AdmitCandidate, PassCandidate, store, amuled
  <1>10. CASE EndCandidates \/ ReadQueuedRows \/ EndCycle
    <2>1. CASE EndCandidates \/ ReadQueuedRows
      BY <2>1, ParameterAssumption DEF EndCandidates, ReadQueuedRows, store, amuled
    <2>2. CASE EndCycle
      <3>1. offered' \subseteq Hash
        BY <2>2 DEF EndCycle
      <3>2. QED
        BY <2>2, <3>1 DEF EndCycle, EndIteration, Forget, store, amuled
    <2>3. QED
      BY <1>10, <2>1, <2>2
  <1>11. ASSUME NEW h \in Hash, LinkTaken(h) \/ LinkRejected(h) \/ LinkUnreachable(h)
         PROVE  LoopTypeOK'
    <2>1. CASE LinkTaken(h)
      BY <2>1 DEF LinkTaken, TakeLink, store
    <2>2. CASE LinkRejected(h)
      BY <2>2 DEF LinkRejected, amuled
    <2>3. CASE LinkUnreachable(h)
      <3>1. inflight' \subseteq Hash /\ offered' \subseteq Hash
        BY <2>3 DEF LinkUnreachable
      <3>2. QED
        BY <2>3, <3>1 DEF LinkUnreachable, EndIteration, Forget, store
    <2>4. QED
      BY <1>11, <2>1, <2>2, <2>3
  <1>12. CASE Crash \/ Restart \/ Tick
    <2>1. CASE Crash
      BY <2>1 DEF Crash, Forget, store, amuled
    <2>2. CASE Restart
      BY <2>2 DEF Restart, store, locals, amuled
    <2>3. CASE Tick
      <3>1. age' \in [Hash -> Nat]
        BY <2>3 DEF Tick
      <3>2. QED
        BY <2>3, <3>1 DEF Tick, locals, amuled
    <2>4. QED
      BY <1>12, <2>1, <2>2, <2>3
  <1>13. ASSUME NEW h \in Hash, \/ LateLink(h) \/ LearnSize(h) \/ Receive(h) \/ Clear(h)
                                \/ MoveOut(h) \/ OperatorRemoves(h) \/ OperatorAdds(h)
         PROVE  LoopTypeOK'
    <2>1. CASE LateLink(h) \/ LearnSize(h) \/ Clear(h) \/ OperatorAdds(h)
      BY <2>1 DEF LateLink, TakeLink, Intrudes, LearnSize, Clear, OperatorAdds, store, locals
    <2>2. CASE Receive(h)
      <3>1. diskFree' \in Nat /\ got' \in [Hash -> Nat] /\ sharedFiles' \subseteq Hash
        BY <2>2 DEF Receive
      <3>2. QED
        BY <2>2, <3>1 DEF Receive, store, locals
    <2>3. CASE MoveOut(h) \/ OperatorRemoves(h)
      <3>1. DropFile(h)
        BY <2>3 DEF MoveOut, OperatorRemoves
      <3>2. diskFree' \in Nat /\ got' \in [Hash -> Nat] /\ sharedFiles' \subseteq Hash
        BY <3>1 DEF DropFile
      <3>3. QED
        BY <3>1, <3>2 DEF DropFile, store, locals
    <2>4. QED
      BY <1>13, <2>1, <2>2, <2>3
  <1>14. CASE UNCHANGED vars
    BY <1>14 DEF vars, store, locals, amuled
  <1>15. QED
    BY <1>1, <1>2, <1>3, <1>4, <1>5, <1>6, <1>7, <1>8, <1>9, <1>10, <1>11, <1>12, <1>13,
       <1>14 DEF Next, Loop, Environment

\* The bytes that are left of each file, as amuled reports them.
Rest == [h \in Hash |-> RemainingBytes(h)]

LEMMA RestTypes ==
  ASSUME LoopTypeOK
  PROVE  Rest \in [Hash -> Nat] /\ \A h \in Hash : Rest[h] = RemainingBytes(h)
  <1>1. got \in [Hash -> Nat] /\ Size \in [Hash -> Nat \ {0}]
    BY ParameterAssumption DEF LoopTypeOK
  <1>2. \A h \in Hash : RemainingBytes(h) \in Nat
    BY <1>1 DEF RemainingBytes, SizeFull
  <1>3. QED
    BY <1>2 DEF Rest

LEMMA OutstandingIs ==
  ASSUME LoopTypeOK, NEW Q \in SUBSET Hash
  PROVE  /\ MapThenSumSet(RemainingBytes, Q) = Total(Rest, Q)
         /\ Total(Rest, Q) \in Nat
  <1> DEFINE E(F) == F = [s \in SUBSET Q |-> IF s = {} THEN 0
                                            ELSE RemainingBytes(Member(s)) + F[s \ {Member(s)}]]
  <1>1. IsFiniteSet(Q) /\ \A h \in Q : Rest[h] = RemainingBytes(h) /\ Rest[h] \in Nat
    BY RestTypes, ParameterAssumption, FS_Subset
  <1>2. \A F : E(F) <=> Summing(F, Rest, Q)
    <2> SUFFICES ASSUME NEW F PROVE E(F) <=> Summing(F, Rest, Q)
      OBVIOUS
    <2>1. \A s \in SUBSET Q : s # {} => Member(s) \in Q
      BY DEF Member
    <2>2. [s \in SUBSET Q |-> IF s = {} THEN 0 ELSE RemainingBytes(Member(s)) + F[s \ {Member(s)}]]
          = [s \in SUBSET Q |-> IF s = {} THEN 0 ELSE Rest[Member(s)] + F[s \ {Member(s)}]]
      BY <1>1, <2>1
    <2>3. QED
      BY <2>2 DEF Summing
  <1>3. \E F : E(F)
    BY <1>1, <1>2, SummingExists
  <1>4. MapThenSumSet(RemainingBytes, Q) = (CHOOSE F : E(F))[Q]
    BY DEF MapThenSumSet, MapThenFoldSet, Member
  <1> HIDE DEF E
  <1>5. Summing(CHOOSE F : E(F), Rest, Q)
    BY <1>2, <1>3
  <1>6. \E F : Summing(F, Rest, Q)
    BY <1>5
  <1>7. Summing(CHOOSE F : Summing(F, Rest, Q), Rest, Q)
    BY <1>6
  <1>8. Q \in SUBSET (Q \cap Q)
    OBVIOUS
  <1>9. (CHOOSE F : E(F))[Q] = (CHOOSE F : Summing(F, Rest, Q))[Q]
    BY <1>1, <1>5, <1>7, <1>8, SummingUnique
  <1>10. Total(Rest, Q) \in Nat
    BY <1>1, TotalIs
  <1>11. QED
    BY <1>4, <1>9, <1>10 DEF Total

\* The parts of the type invariant the other proofs do without.
Bounds ==
    /\ age \in [Hash -> 0 .. TTL + 1]
    /\ \A h \in Hash : got[h] <= Size[h]
    /\ outstanding \in Nat

LEMMA NextBounds == LoopTypeOK /\ Bounds /\ [Next]_vars => Bounds'
  <1> SUFFICES ASSUME LoopTypeOK, Bounds, [Next]_vars
               PROVE  Bounds'
    OBVIOUS
  <1>a. TTL \in Nat /\ Size \in [Hash -> Nat \ {0}]
    BY ParameterAssumption
  <1>b. age \in [Hash -> 0 .. TTL + 1] /\ got \in [Hash -> Nat] /\ outstanding \in Nat
        /\ \A h \in Hash : got[h] <= Size[h]
    BY DEF Bounds, LoopTypeOK
  <1>1. age' \in [Hash -> 0 .. TTL + 1]
    <2>1. CASE Presence
      BY <1>a, <1>b, <2>1 DEF Presence
    <2>2. ASSUME NEW h \in Hash, AdmitCandidate(h)
          PROVE  age' \in [Hash -> 0 .. TTL + 1]
      BY <1>a, <1>b, <2>2 DEF AdmitCandidate
    <2>3. CASE Tick
      <3>1. \A h \in Hash : (IF Tracked(h) /\ age[h] <= TTL THEN age[h] + 1 ELSE age[h]) \in 0 .. TTL + 1
        BY <1>a, <1>b
      <3>2. QED
        BY <2>3, <3>1 DEF Tick
    <2>4. CASE UNCHANGED age
      BY <1>b, <2>4
    <2>5. Presence \/ Tick \/ UNCHANGED age \/ \E h \in Hash : AdmitCandidate(h)
      <3>1. CASE Loop
        BY <3>1
           DEF Loop, ReadQueue, Monitor, ReadShared, SharedUnreachable, StampCompleted,
               SkipCompletion, Notify, TargetLookupFails, EndCompletions, MeasureDisk,
               DiskUnmeasurable, PassCandidate, EndCandidates, ReadQueuedRows, LinkTaken,
               LinkRejected, LinkUnreachable, EndCycle, store
      <3>2. CASE Environment \/ UNCHANGED vars
        BY <3>2
           DEF Environment, Crash, Restart, LateLink, LearnSize, Receive, Clear, MoveOut,
               OperatorRemoves, OperatorAdds, DropFile, vars, store
      <3>3. QED
        BY <3>1, <3>2 DEF Next
    <2>6. QED
      BY <2>1, <2>2, <2>3, <2>4, <2>5
  <1>2. \A h \in Hash : got'[h] <= Size[h]
    <2>1. ASSUME NEW h \in Hash, Receive(h)
          PROVE  \A g \in Hash : got'[g] <= Size[g]
      BY <1>a, <1>b, <2>1 DEF Receive
    <2>2. ASSUME NEW h \in Hash, DropFile(h)
          PROVE  \A g \in Hash : got'[g] <= Size[g]
      BY <1>a, <1>b, <2>2 DEF DropFile
    <2>3. UNCHANGED got \/ \E h \in Hash : Receive(h) \/ DropFile(h)
      <3>1. CASE Loop
        BY <3>1
           DEF Loop, ReadQueue, Monitor, ReadShared, SharedUnreachable, StampCompleted,
               SkipCompletion, Notify, TargetLookupFails, EndCompletions, Presence, MeasureDisk,
               DiskUnmeasurable, AdmitCandidate, PassCandidate, EndCandidates, ReadQueuedRows,
               LinkTaken, LinkRejected, LinkUnreachable, EndCycle, amuled
      <3>2. CASE Environment \/ UNCHANGED vars
        BY <3>2
           DEF Environment, Crash, Restart, Tick, LateLink, LearnSize, Clear, MoveOut,
               OperatorRemoves, OperatorAdds, vars, amuled
      <3>3. QED
        BY <3>1, <3>2 DEF Next
    <2>4. QED
      BY <1>b, <2>1, <2>2, <2>3
  <1>3. outstanding' \in Nat
    <2>1. CASE ReadQueue
      <3>1. queued' \in SUBSET Hash /\ outstanding' = MapThenSumSet(RemainingBytes, queued')
        BY <2>1 DEF ReadQueue
      <3>2. QED
        BY <3>1, OutstandingIs
    <2>2. ASSUME NEW h \in Hash, AdmitCandidate(h) PROVE outstanding' \in Nat
      BY <1>a, <1>b, <2>2 DEF AdmitCandidate
    <2>3. \/ ReadQueue \/ UNCHANGED outstanding \/ outstanding' = 0
          \/ \E h \in Hash : AdmitCandidate(h)
      <3>1. CASE Loop
        BY <3>1
           DEF Loop, Monitor, ReadShared, SharedUnreachable, StampCompleted, EndIteration, Forget,
               SkipCompletion, Notify, TargetLookupFails, EndCompletions, Presence, MeasureDisk,
               DiskUnmeasurable, PassCandidate, EndCandidates, ReadQueuedRows, LinkTaken,
               LinkRejected, LinkUnreachable, EndCycle, locals
      <3>2. CASE Environment \/ UNCHANGED vars
        BY <3>2
           DEF Environment, Crash, Restart, Tick, LateLink, LearnSize, Receive, Clear, MoveOut,
               OperatorRemoves, OperatorAdds, DropFile, Forget, vars, locals
      <3>3. QED
        BY <3>1, <3>2 DEF Next
    <2>4. QED
      BY <1>b, <2>1, <2>2, <2>3
  <1>4. QED
    BY <1>1, <1>2, <1>3 DEF Bounds

\* The loop's variables keep their types, and the bytes it counts are the bytes of files:
\* never negative, and no more than their sizes (run_download_cycle.py).
THEOREM TypeCorrect == Spec => []TypeOK
  <1>1. Init => Bounds
    BY ParameterAssumption DEF Init, Bounds
  <1>2. LoopTypeOK /\ Bounds => TypeOK
    BY DEF Bounds, TypeOK
  <1>3. QED
    BY <1>1, <1>2, InitType, NextType, NextBounds, PTL DEF Spec

--------------------------------------------------------------------------------
(* The rows.  What a step may do to a row rests on what the loop's local todo *)
(* holds in each step: rows to complete, rows just stamped, or queued rows.   *)

CompletionsPending ==
    /\ step = "completions" => \A h \in todo : downloads[h] \notin {NoRow, "completed"}
    /\ step = "notify" =>
         \A h \in todo : /\ downloads[h] # NoRow
                         /\ notices[h] = 0
                         /\ \A g \in todo : downloads[g] = "completed"
                                            /\ downloads[h] = "completed" => g = h

LinksPending == step = "adding" => \A h \in todo : downloads[h] = "queued"

RowInv == LoopTypeOK /\ AnnouncedAtMostOnce /\ CompletionsPending /\ LinksPending

\* What one step does to the rows and to the announcements.
RowsKept == UNCHANGED <<downloads, notices>>
RowsMove == Lifecycle!MoveRows
RowAnnounced == \E h \in Hash : Lifecycle!Announce(h)

LEMMA RowStep == RowInv /\ [Next]_vars => RowsKept \/ RowsMove \/ RowAnnounced
  <1> SUFFICES ASSUME RowInv, [Next]_vars
               PROVE  RowsKept \/ RowsMove \/ RowAnnounced
    OBVIOUS
  <1> DEFINE R == RowsKept \/ RowsMove \/ RowAnnounced
  <1>0. LoopTypeOK' /\ downloads \in [Hash -> {NoRow} \cup DownloadState]
    BY NextType DEF RowInv, LoopTypeOK
  <1>t. downloads' \in [Hash -> Lifecycle!DownloadState \cup {Lifecycle!NoRow}]
    BY <1>0 DEF LoopTypeOK, DownloadState, NoRow, Lifecycle!DownloadState, Lifecycle!NoRow
  <1> USE DEF Lifecycle!Moves, Lifecycle!NoRow, NoRow
  <1>1. CASE Monitor
    <2>1. notices' = notices
      BY <1>1 DEF Monitor
    <2>2. ASSUME NEW h \in Hash, downloads'[h] # downloads[h]
          PROVE  <<downloads[h], downloads'[h]>> \in Lifecycle!Moves
      BY <1>0, <1>1, <2>2 DEF Monitor, ToMonitor, DownloadState
    <2>3. QED
      BY <1>t, <2>1, <2>2 DEF RowsMove, Lifecycle!MoveRows
  <1>2. ASSUME NEW h \in Hash, StampCompleted(h)
        PROVE  R
    <2>1. downloads[h] \notin {NoRow, "completed"} /\ notices' = notices
      BY <1>2 DEF RowInv, CompletionsPending, StampCompleted
    <2>2. ASSUME NEW g \in Hash, downloads'[g] # downloads[g]
          PROVE  <<downloads[g], downloads'[g]>> \in Lifecycle!Moves
      BY <1>0, <1>2, <2>1, <2>2 DEF StampCompleted, DownloadState
    <2>3. QED
      BY <1>t, <2>1, <2>2 DEF RowsMove, Lifecycle!MoveRows
  <1>3. ASSUME NEW h \in Hash, Notify(h)
        PROVE  R
    <2>1. notices[h] = 0 /\ downloads[h] = "completed"
      BY <1>3 DEF RowInv, CompletionsPending, Notify
    <2>2. downloads' = downloads /\ notices' = [notices EXCEPT ![h] = 1]
      BY <1>3, <2>1 DEF Notify, store, RowInv, LoopTypeOK
    <2>3. QED
      BY <2>1, <2>2 DEF RowAnnounced, Lifecycle!Announce
  <1>4. CASE Presence
    <2>1. notices' = notices
      BY <1>4 DEF Presence
    <2>2. ASSUME NEW h \in Hash, downloads'[h] # downloads[h]
          PROVE  <<downloads[h], downloads'[h]>> \in Lifecycle!Moves
      <3>1. downloads[h] \in {"queued", "downloading"} /\ downloads'[h] = "failed"
        BY <1>4, <2>2 DEF Presence, Lost
      <3>2. QED
        BY <3>1
    <2>3. QED
      BY <1>t, <2>1, <2>2 DEF RowsMove, Lifecycle!MoveRows
  <1>5. ASSUME NEW h \in Hash, AdmitCandidate(h)
        PROVE  R
    <2>1. downloads[h] = NoRow /\ notices' = notices
      BY <1>5 DEF AdmitCandidate, Admits, Tracked
    <2>2. ASSUME NEW g \in Hash, downloads'[g] # downloads[g]
          PROVE  <<downloads[g], downloads'[g]>> \in Lifecycle!Moves
      BY <1>0, <1>5, <2>1, <2>2 DEF AdmitCandidate
    <2>3. QED
      BY <1>t, <2>1, <2>2 DEF RowsMove, Lifecycle!MoveRows
  <1>6. ASSUME NEW h \in Hash, LinkRejected(h)
        PROVE  R
    <2>1. downloads[h] = "queued" /\ notices' = notices
      BY <1>6 DEF RowInv, LinksPending, LinkRejected
    <2>2. ASSUME NEW g \in Hash, downloads'[g] # downloads[g]
          PROVE  <<downloads[g], downloads'[g]>> \in Lifecycle!Moves
      BY <1>0, <1>6, <2>1, <2>2 DEF LinkRejected
    <2>3. QED
      BY <1>t, <2>1, <2>2 DEF RowsMove, Lifecycle!MoveRows
  <1>7. CASE \/ ReadQueue \/ ReadShared \/ SharedUnreachable \/ EndCompletions \/ MeasureDisk
             \/ DiskUnmeasurable \/ EndCandidates \/ ReadQueuedRows \/ EndCycle
             \/ Crash \/ Restart \/ Tick \/ UNCHANGED vars
    BY <1>7 DEF ReadQueue, ReadShared, SharedUnreachable, EndCompletions, MeasureDisk,
                DiskUnmeasurable, EndCandidates, ReadQueuedRows, EndCycle, Crash, Restart,
                Tick, store, vars, RowsKept
  <1>8. ASSUME NEW h \in Hash,
               \/ SkipCompletion(h) \/ TargetLookupFails(h) \/ PassCandidate(h)
               \/ LinkTaken(h) \/ LinkUnreachable(h)
        PROVE  R
    BY <1>8 DEF SkipCompletion, TargetLookupFails, PassCandidate, LinkTaken, LinkUnreachable,
                store, RowsKept
  <1>9. ASSUME NEW h \in Hash, \/ LateLink(h) \/ LearnSize(h) \/ Receive(h) \/ Clear(h)
                               \/ MoveOut(h) \/ OperatorRemoves(h) \/ OperatorAdds(h)
        PROVE  R
    BY <1>9 DEF LateLink, LearnSize, Receive, Clear, MoveOut, OperatorRemoves, OperatorAdds,
                DropFile, store, RowsKept
  <1>10. QED
    BY <1>1, <1>2, <1>3, <1>4, <1>5, <1>6, <1>7, <1>8, <1>9 DEF Next, Loop, Environment

LEMMA RowInit == Init => RowInv
  BY InitType DEF Init, RowInv, AnnouncedAtMostOnce, CompletionsPending, LinksPending

LEMMA RowNext == RowInv /\ [Next]_vars => RowInv'
  <1> SUFFICES ASSUME RowInv, [Next]_vars
               PROVE  RowInv'
    OBVIOUS
  <1>t. LoopTypeOK /\ LoopTypeOK' /\ downloads \in [Hash -> {NoRow} \cup DownloadState]
    BY NextType DEF RowInv, LoopTypeOK
  <1>a. AnnouncedAtMostOnce'
    <2> SUFFICES ASSUME NEW h \in Hash, notices'[h] > 0
                 PROVE  notices'[h] = 1 /\ downloads'[h] = "completed"
      BY DEF AnnouncedAtMostOnce
    <2>1. CASE RowsKept
      BY <2>1 DEF RowsKept, RowInv, AnnouncedAtMostOnce
    <2>2. CASE RowsMove
      <3>1. notices[h] = 1 /\ downloads[h] = "completed"
        BY <2>2 DEF RowsMove, Lifecycle!MoveRows, RowInv, AnnouncedAtMostOnce
      <3>2. downloads'[h] = downloads[h]
        BY <2>2, <3>1 DEF RowsMove, Lifecycle!MoveRows, Lifecycle!Moves, Lifecycle!NoRow
      <3>3. QED
        BY <2>2, <3>1, <3>2 DEF RowsMove, Lifecycle!MoveRows
    <2>3. ASSUME NEW g \in Hash, Lifecycle!Announce(g)
          PROVE  notices'[h] = 1 /\ downloads'[h] = "completed"
      BY <1>t, <2>3 DEF Lifecycle!Announce, RowInv, LoopTypeOK, AnnouncedAtMostOnce
    <2>4. QED
      BY <2>1, <2>2, <2>3, RowStep DEF RowAnnounced
  <1>p. CompletionsPending' /\ LinksPending'
    <2> USE DEF CompletionsPending, LinksPending
    <2>1. CASE \/ ReadQueue \/ Monitor \/ SharedUnreachable \/ EndCompletions \/ Presence
               \/ MeasureDisk \/ DiskUnmeasurable \/ EndCandidates \/ EndCycle
               \/ Crash \/ Restart
      BY <2>1 DEF ReadQueue, Monitor, SharedUnreachable, EndCompletions, Presence,
                  MeasureDisk, DiskUnmeasurable, EndCandidates, EndCycle, EndIteration,
                  Crash, Restart
    <2>2. ASSUME NEW h \in Hash, AdmitCandidate(h) \/ PassCandidate(h) \/ LinkUnreachable(h)
          PROVE  CompletionsPending' /\ LinksPending'
      BY <2>2 DEF AdmitCandidate, PassCandidate, LinkUnreachable, EndIteration
    <2>3. CASE ReadShared
      BY <2>3 DEF ReadShared, Completes, store
    <2>4. ASSUME NEW h \in Hash, StampCompleted(h)
          PROVE  CompletionsPending' /\ LinksPending'
      <3>1. todo' = todo /\ notices' = notices /\ step' = "notify"
        BY <2>4 DEF StampCompleted, locals
      <3>2. ASSUME NEW g \in todo
            PROVE  /\ downloads'[g] # NoRow /\ notices[g] = 0
                   /\ downloads'[g] = "completed" => g = h
        <4>1. downloads[g] \notin {NoRow, "completed"} /\ g \in Hash
          BY <1>t, <2>4 DEF StampCompleted, RowInv, LoopTypeOK
        <4>2. notices[g] = 0
          BY <1>t, <4>1 DEF RowInv, AnnouncedAtMostOnce, LoopTypeOK
        <4>3. QED
          BY <1>t, <2>4, <4>1, <4>2 DEF StampCompleted, NoRow
      <3>3. QED
        BY <3>1, <3>2
    <2>5. ASSUME NEW h \in Hash, SkipCompletion(h) \/ LinkTaken(h)
          PROVE  CompletionsPending' /\ LinksPending'
      BY <2>5 DEF SkipCompletion, LinkTaken, RowInv, store
    <2>6. ASSUME NEW h \in Hash, Notify(h) \/ TargetLookupFails(h)
          PROVE  CompletionsPending' /\ LinksPending'
      BY <2>6 DEF Notify, TargetLookupFails, RowInv, store
    <2>7. CASE ReadQueuedRows
      BY <2>7 DEF ReadQueuedRows, store
    <2>8. ASSUME NEW h \in Hash, LinkRejected(h)
          PROVE  CompletionsPending' /\ LinksPending'
      BY <1>t, <2>8 DEF LinkRejected, RowInv
    <2>9. CASE Tick \/ UNCHANGED vars
      BY <2>9 DEF Tick, vars, store, locals, RowInv
    <2>10. ASSUME NEW h \in Hash, \/ LateLink(h) \/ LearnSize(h) \/ Receive(h) \/ Clear(h)
                                  \/ MoveOut(h) \/ OperatorRemoves(h) \/ OperatorAdds(h)
           PROVE  CompletionsPending' /\ LinksPending'
      <3>1. UNCHANGED <<step, downloads, notices, todo>>
        BY <2>10 DEF LateLink, LearnSize, Receive, Clear, MoveOut, OperatorRemoves,
                     OperatorAdds, DropFile, store, locals
      <3>2. QED
        BY <3>1 DEF RowInv
    <2>11. QED
      BY <2>1, <2>2, <2>3, <2>4, <2>5, <2>6, <2>7, <2>8, <2>9, <2>10
         DEF Next, Loop, Environment
  <1>q. QED
    BY <1>t, <1>a, <1>p DEF RowInv

\* A completion is announced at most once, and only after it is committed.
THEOREM AnnouncementSafety == Spec => []AnnouncedAtMostOnce
  <1>1. RowInv => AnnouncedAtMostOnce
    BY DEF RowInv
  <1>2. QED
    BY <1>1, RowInit, RowNext, PTL DEF Spec

\* A completed row never changes again.
THEOREM CompletedStays == Spec => CompletedIsTerminal
  <1>1. RowInv /\ [Next]_vars
        => [\A h \in Hash : downloads[h] = "completed" => downloads'[h] = "completed"]_vars
    <2> SUFFICES ASSUME RowInv, [Next]_vars, NEW h \in Hash, downloads[h] = "completed"
                 PROVE  downloads'[h] = "completed"
      OBVIOUS
    <2>1. CASE RowsKept
      BY <2>1 DEF RowsKept
    <2>2. CASE RowsMove
      BY <2>2 DEF RowsMove, Lifecycle!MoveRows, Lifecycle!Moves, Lifecycle!NoRow
    <2>3. CASE RowAnnounced
      BY <2>3 DEF RowAnnounced, Lifecycle!Announce
    <2>4. QED
      BY <2>1, <2>2, <2>3, RowStep
  <1>2. QED
    BY <1>1, RowInit, RowNext, PTL DEF Spec, CompletedIsTerminal

\* Every run of the loop is a run of the lifecycle of its rows.
THEOREM LoopImplementsLifecycle == Spec => ImplementsLifecycle
  <1>1. Init => Lifecycle!Init
    BY DEF Init, Lifecycle!Init, NoRow, Lifecycle!NoRow
  <1>2. RowInv /\ [Next]_vars => [Lifecycle!Next]_<<downloads, notices>>
    BY RowStep DEF RowsKept, RowsMove, RowAnnounced, Lifecycle!Next
  <1>3. QED
    BY <1>1, <1>2, RowInit, RowNext, PTL DEF Spec, ImplementsLifecycle, Lifecycle!Spec

--------------------------------------------------------------------------------
(* The snapshot.  The loop acts on a queue and a shared list it read earlier. *)
(* They stay safe to act on because the loop gives amuled an entry only after *)
(* their last use: but for the files that intruded since the queue was read,  *)
(* the queue can only shrink and transfers can only finish.                   *)

SnapshotSteps == {"monitor", "shared", "completions", "notify", "presence"}
SharedSteps == {"completions", "notify", "presence"}

QueueCovered ==
    step \in SnapshotSteps =>
        \A h \in Hash \ intruded : /\ InQueue(h) => h \in queued
                                   /\ Transferring(h) => h \in transferring
SharedCovered == step \in SharedSteps => sharedFiles \ intruded \subseteq queued \cup shared
TodoLeftQueue == step \in {"completions", "notify"} => todo \cap transferring = {}

SnapshotInv == LoopTypeOK /\ QueueCovered /\ SharedCovered /\ TodoLeftQueue

LEMMA SnapshotInit == Init => SnapshotInv
  BY InitType DEF Init, SnapshotInv, QueueCovered, SharedCovered, TodoLeftQueue,
                  SnapshotSteps, SharedSteps

\* Outside the adding step of the loop only what intrudes enters the queue or starts a
\* transfer, and a file only becomes shared while it is in the queue.
LEMMA OnlyShrinks ==
    ASSUME LoopTypeOK, [Next]_vars, step # "adding"
    PROVE  /\ step # "idle" => intruded \subseteq intruded'
           /\ \A h \in Hash \ intruded' : /\ InQueue(h)' => InQueue(h)
                                          /\ Transferring(h)' => Transferring(h)
                                          /\ h \in sharedFiles' => h \in sharedFiles \/ InQueue(h)
  <1> DEFINE I == step # "idle" => intruded \subseteq intruded'
             G == I /\ \A h \in Hash \ intruded' :
                           /\ InQueue(h)' => InQueue(h)
                           /\ Transferring(h)' => Transferring(h)
                           /\ h \in sharedFiles' => h \in sharedFiles \/ InQueue(h)
  <1>t. /\ entry \in [Hash -> {"absent", "nascent", "known"}]
        /\ got \in [Hash -> Nat] /\ Size \in [Hash -> Nat \ {0}]
    BY ParameterAssumption DEF LoopTypeOK
  <1>1. CASE UNCHANGED amuled /\ I
    BY <1>1, <1>t DEF amuled, InQueue, Transferring, IsComplete, SizeFull
  \* What enters the queue here is marked; the other files are left alone.
  <1>2. ASSUME NEW h \in Hash, LateLink(h) \/ OperatorAdds(h)
        PROVE  G
    <2>1. /\ UNCHANGED <<got, sharedFiles>>
          /\ \A g \in Hash \ {h} : entry'[g] = entry[g]
          /\ intruded' = IF entry' = entry THEN intruded ELSE intruded \cup {h}
      BY <1>2, <1>t DEF LateLink, TakeLink, OperatorAdds, Intrudes
    <2>2. \A g \in Hash \ intruded' : entry'[g] = entry[g]
      BY <1>t, <2>1
    <2>3. QED
      BY <2>1, <2>2 DEF InQueue, Transferring, IsComplete, SizeFull
  <1>3. ASSUME NEW h \in Hash, LearnSize(h)
        PROVE  G
    BY <1>3, <1>t DEF LearnSize, history, InQueue, Transferring, IsComplete, SizeFull
  <1>4. ASSUME NEW h \in Hash, Receive(h)
        PROVE  G
    <2>1. ASSUME NEW g \in Hash
          PROVE  Transferring(g)' => Transferring(g)
      <3>1. CASE g = h
        BY <1>4, <1>t, <3>1 DEF Receive, InQueue, Transferring, IsComplete, SizeFull
      <3>2. CASE g # h
        BY <1>4, <1>t, <3>2 DEF Receive, InQueue, Transferring, IsComplete, SizeFull
      <3>3. QED
        BY <3>1, <3>2
    <2>2. QED
      BY <1>4, <1>t, <2>1 DEF Receive, history, InQueue
  <1>5. ASSUME NEW h \in Hash, Clear(h)
        PROVE  G
    BY <1>5, <1>t DEF Clear, history, InQueue, Transferring, IsComplete, SizeFull
  <1>6. ASSUME NEW h \in Hash, MoveOut(h) \/ OperatorRemoves(h)
        PROVE  G
    <2>1. DropFile(h)
      BY <1>6 DEF MoveOut, OperatorRemoves
    <2>2. QED
      BY <2>1, <1>t DEF DropFile, history, InQueue, Transferring, IsComplete, SizeFull
  <1>7. CASE Loop
    <2>1. \A h \in Hash : ~LinkUnreachable(h) /\ ~LinkTaken(h)
      BY DEF LinkUnreachable, LinkTaken
    <2>2. UNCHANGED amuled /\ I
      BY <1>7, <2>1
         DEF Loop, ReadQueue, Monitor, ReadShared, SharedUnreachable, StampCompleted,
             SkipCompletion, Notify, TargetLookupFails, EndCompletions, Presence,
             MeasureDisk, DiskUnmeasurable, AdmitCandidate, PassCandidate,
             EndCandidates, ReadQueuedRows, LinkRejected, EndCycle, history
    <2>3. QED
      BY <1>1, <2>2
  <1>8. CASE Crash \/ Restart \/ Tick \/ UNCHANGED vars
    BY <1>1, <1>8 DEF Crash, Restart, Tick, vars, history
  <1>9. QED
    BY <1>2, <1>3, <1>4, <1>5, <1>6, <1>7, <1>8 DEF Next, Environment

LEMMA SnapshotNext == SnapshotInv /\ [Next]_vars => SnapshotInv'
  <1> SUFFICES ASSUME SnapshotInv, [Next]_vars
               PROVE  SnapshotInv'
    OBVIOUS
  <1>t. LoopTypeOK /\ LoopTypeOK'
    BY NextType DEF SnapshotInv
  <1> DEFINE P == QueueCovered' /\ SharedCovered' /\ TodoLeftQueue'
  <1> USE DEF QueueCovered, SharedCovered, TodoLeftQueue, SnapshotSteps, SharedSteps
  <1>1. CASE step = "adding"
    <2>1. step' \in {"adding", "idle", "down"}
      BY <1>1 DEF Next, Loop, Environment, ReadQueue, Monitor, ReadShared, SharedUnreachable,
                  StampCompleted, SkipCompletion, Notify, TargetLookupFails, EndCompletions,
                  Presence, MeasureDisk, DiskUnmeasurable, AdmitCandidate, PassCandidate,
                  EndCandidates, ReadQueuedRows, LinkTaken, LinkRejected, LinkUnreachable,
                  EndCycle, EndIteration, Crash, Restart, Tick, LateLink, LearnSize, Receive,
                  Clear, MoveOut, OperatorRemoves, OperatorAdds, DropFile, vars
    <2>2. QED
      BY <1>t, <2>1 DEF SnapshotInv
  <1>2. CASE step # "adding"
    <2>0. /\ step # "idle" => intruded \subseteq intruded'
          /\ \A h \in Hash \ intruded' : /\ InQueue(h)' => InQueue(h)
                                         /\ Transferring(h)' => Transferring(h)
                                         /\ h \in sharedFiles' => h \in sharedFiles \/ InQueue(h)
      BY <1>2, <1>t, OnlyShrinks
    <2>1. CASE ReadQueue
      <3>1. \A h \in Hash : InQueue(h)' = InQueue(h) /\ Transferring(h)' = Transferring(h)
        BY <2>1 DEF ReadQueue, amuled, InQueue, Transferring, IsComplete, SizeFull
      <3>2. P
        BY <2>1, <3>1 DEF ReadQueue
      <3>3. QED
        BY <1>t, <2>0, <3>2 DEF SnapshotInv
    <2>2. CASE ReadShared
      <3>1. sharedFiles' = sharedFiles /\ UNCHANGED <<queued, transferring>>
        BY <2>2 DEF ReadShared, amuled
      <3>2. QueueCovered'
        BY <2>0, <2>2, <3>1 DEF ReadShared, SnapshotInv
      <3>3. SharedCovered' /\ TodoLeftQueue'
        BY <2>2, <3>1 DEF ReadShared, Completes
      <3>4. QED
        BY <1>t, <2>0, <3>2, <3>3 DEF SnapshotInv
    <2>3. CASE /\ UNCHANGED <<queued, transferring, shared>>
               /\ todo' \subseteq todo
               /\ step' \in SnapshotSteps => step \in SnapshotSteps
               /\ step' \in SharedSteps => step \in SharedSteps
               /\ step' \in {"completions", "notify"} => step \in {"completions", "notify"}
      <3>1. QueueCovered'
        BY <2>0, <2>3 DEF SnapshotInv
      <3>2. SharedCovered'
        <4> SUFFICES ASSUME step' \in SharedSteps, NEW h \in sharedFiles' \ intruded'
                     PROVE  h \in queued' \cup shared'
          OBVIOUS
        <4>1. h \in Hash
          BY <1>t DEF LoopTypeOK
        <4>2. QED
          BY <2>0, <2>3, <4>1 DEF SnapshotInv
      <3>3. TodoLeftQueue'
        BY <2>3 DEF SnapshotInv
      <3>4. QED
        BY <1>t, <2>0, <3>1, <3>2, <3>3 DEF SnapshotInv
    <2>4. CASE step' \notin SnapshotSteps
      BY <1>t, <2>0, <2>4 DEF SnapshotInv
    <2>5. ReadQueue \/ ReadShared \/ step' \notin SnapshotSteps
          \/ /\ UNCHANGED <<queued, transferring, shared>>
             /\ todo' \subseteq todo
             /\ step' \in SnapshotSteps => step \in SnapshotSteps
             /\ step' \in SharedSteps => step \in SharedSteps
             /\ step' \in {"completions", "notify"} => step \in {"completions", "notify"}
      <3> DEFINE Q == step' \notin SnapshotSteps
                      \/ /\ UNCHANGED <<queued, transferring, shared>>
                         /\ todo' \subseteq todo
                         /\ step' \in SnapshotSteps => step \in SnapshotSteps
                         /\ step' \in SharedSteps => step \in SharedSteps
                         /\ step' \in {"completions", "notify"}
                            => step \in {"completions", "notify"}
      <3>1. CASE \/ SharedUnreachable \/ Presence \/ MeasureDisk \/ DiskUnmeasurable
                 \/ EndCandidates \/ ReadQueuedRows \/ EndCycle \/ Crash \/ Restart
        BY <3>1 DEF SharedUnreachable, Presence, MeasureDisk, DiskUnmeasurable,
                    EndCandidates, ReadQueuedRows, EndCycle, EndIteration, Crash, Restart
      <3>2. CASE Monitor \/ EndCompletions
        BY <3>2 DEF Monitor, EndCompletions, locals
      <3>3. ASSUME NEW h \in Hash,
                   \/ StampCompleted(h) \/ SkipCompletion(h) \/ Notify(h) \/ TargetLookupFails(h)
            PROVE  Q
        BY <3>3 DEF StampCompleted, SkipCompletion, Notify, TargetLookupFails, locals
      <3>4. ASSUME NEW h \in Hash,
                   \/ AdmitCandidate(h) \/ PassCandidate(h)
                   \/ LinkTaken(h) \/ LinkRejected(h) \/ LinkUnreachable(h)
            PROVE  Q
        BY <3>4 DEF AdmitCandidate, PassCandidate, LinkTaken, LinkRejected, LinkUnreachable,
                    EndIteration
      <3>5. ASSUME NEW h \in Hash, \/ LateLink(h) \/ LearnSize(h) \/ Receive(h) \/ Clear(h)
                                   \/ MoveOut(h) \/ OperatorRemoves(h) \/ OperatorAdds(h)
            PROVE  Q
        BY <3>5 DEF LateLink, LearnSize, Receive, Clear, MoveOut, OperatorRemoves,
                    OperatorAdds, DropFile, locals
      <3>6. CASE Tick \/ UNCHANGED vars
        BY <3>6 DEF Tick, vars, locals
      <3>7. QED
        BY <3>1, <3>2, <3>3, <3>4, <3>5, <3>6 DEF Next, Loop, Environment
    <2>6. QED
      BY <2>1, <2>2, <2>3, <2>4, <2>5
  <1>3. QED
    BY <1>1, <1>2

\* Under any faults, a row is stamped completed only while amuled is not fetching
\* its file, however far amuled has moved on since the loop read its queue: all that
\* escapes is a file that entered the queue since, by a late link or the operator.
THEOREM CompletionsAreReal == Spec => CompletionIsReal
  <1>1. SnapshotInv /\ [Next]_vars
        => [\A h \in Hash : Completed(h) /\ h \notin intruded => ~Transferring(h)]_vars
    <2> SUFFICES ASSUME SnapshotInv, [Next]_vars, NEW h \in Hash, Completed(h), h \notin intruded
                 PROVE  ~Transferring(h)
      OBVIOUS
    <2>1. downloads[h] # "completed" /\ downloads'[h] = "completed"
      BY DEF Completed
    <2>2. PICK g \in Hash : StampCompleted(g)
      <3>1. ~Monitor /\ ~Presence
        BY <2>1 DEF Monitor, Presence
      <3>2. \A g \in Hash : ~AdmitCandidate(g) /\ ~LinkRejected(g)
        BY <2>1 DEF AdmitCandidate, LinkRejected, SnapshotInv, LoopTypeOK
      <3>3. CASE /\ \A g \in Hash : ~StampCompleted(g)
                 /\ Loop
        <4>1. UNCHANGED downloads
          BY <3>1, <3>2, <3>3
             DEF Loop, ReadQueue, ReadShared, SharedUnreachable, SkipCompletion, Notify,
                 TargetLookupFails, EndCompletions, MeasureDisk, DiskUnmeasurable,
                 PassCandidate, EndCandidates, ReadQueuedRows, LinkTaken, LinkUnreachable,
                 EndCycle, store
        <4>2. QED
          BY <2>1, <4>1
      <3>4. CASE Environment \/ UNCHANGED vars
        BY <2>1, <3>4
           DEF Environment, Crash, Restart, Tick, LateLink, LearnSize, Receive, Clear, MoveOut,
               OperatorRemoves, OperatorAdds, DropFile, vars, store
      <3>5. QED
        BY <3>3, <3>4 DEF Next
    <2>3. g = h
      BY <2>1, <2>2 DEF StampCompleted, SnapshotInv, LoopTypeOK
    <2>4. QED
      BY <2>2, <2>3 DEF StampCompleted, SnapshotInv, QueueCovered, TodoLeftQueue, SnapshotSteps
  <1>2. SnapshotInv /\ [Next]_vars => SnapshotInv'
    BY SnapshotNext
  <1>3. QED
    BY <1>1, <1>2, SnapshotInit, PTL DEF Spec, CompletionIsReal

\* Under any faults, the TTL condemns only what amuled neither queues nor shares at
\* that moment, with the same exception.
THEOREM CondemnedAreGone == Spec => CondemnedIsGone
  <1>1. SnapshotInv /\ [Next]_vars
        => [\A h \in Hash : Condemned(h) /\ h \notin intruded
                             => ~InQueue(h) /\ h \notin sharedFiles]_vars
    <2> SUFFICES ASSUME SnapshotInv, [Next]_vars, NEW h \in Hash, Condemned(h), h \notin intruded
                 PROVE  ~InQueue(h) /\ h \notin sharedFiles
      OBVIOUS
    <2>1. step = "presence" /\ downloads'[h] # downloads[h]
      BY DEF Condemned
    <2>2. Presence
      <3>1. CASE Loop
        BY <2>1, <3>1
           DEF Loop, ReadQueue, Monitor, ReadShared, SharedUnreachable, StampCompleted,
               SkipCompletion, Notify, TargetLookupFails, EndCompletions, MeasureDisk,
               DiskUnmeasurable, AdmitCandidate, PassCandidate, EndCandidates,
               ReadQueuedRows, LinkTaken, LinkRejected, LinkUnreachable, EndCycle
      <3>2. CASE Environment \/ UNCHANGED vars
        BY <2>1, <3>2
           DEF Environment, Crash, Restart, Tick, LateLink, LearnSize, Receive, Clear, MoveOut,
               OperatorRemoves, OperatorAdds, DropFile, vars, store
      <3>3. QED
        BY <3>1, <3>2 DEF Next
    <2>3. h \in Lost(Known)
      BY <2>1, <2>2 DEF Presence, SnapshotInv, LoopTypeOK
    <2>4. h \notin queued \cup shared
      BY <2>3 DEF Lost, Known, Tracked, NoRow
    <2>5. QED
      BY <2>1, <2>4 DEF SnapshotInv, QueueCovered, SharedCovered, SnapshotSteps, SharedSteps
  <1>2. SnapshotInv /\ [Next]_vars => SnapshotInv'
    BY SnapshotNext
  <1>3. QED
    BY <1>1, <1>2, SnapshotInit, PTL DEF Spec, CondemnedIsGone

--------------------------------------------------------------------------------
(* The floor.  A byte of the filesystem is free, received, or owed: to an      *)
(* entry of amuled that has not received it yet, or to a row whose link is not *)
(* sent yet.  What is owed never takes the free space below the floor.         *)

\* The faults of the run that checks the floor.
Undisturbed == Faults \subseteq {"disk", "reject"}

Waits(h) == downloads[h] = "queued" /\ ~InQueue(h) /\ h \notin sharedFiles
Owed(h) == IF InQueue(h) THEN RemainingBytes(h) ELSE IF Waits(h) THEN Size[h] ELSE 0
Owing == [h \in Hash |-> Owed(h)]
OwedBytes == Total(Owing, Hash)

EntriesOK ==
    /\ inflight = {} /\ \A h \in Hash : entry[h] # "nascent"
    /\ \A h \in Hash : ~InQueue(h) /\ h \notin sharedFiles => got[h] = 0
    /\ \A h \in Hash : got[h] = Size[h] => h \in sharedFiles
    /\ \A h \in Hash : downloads[h] = "queued" => h \in Observed

\* A row waits for its link only in the cycle that admitted it.
WaitingOK ==
    step \notin {"candidates", "links"} =>
        \A h \in Hash : Waits(h) => step = "adding" /\ h \in todo

QueueSteps == {"monitor", "shared", "completions", "notify", "presence", "disk"}
BytesOK ==
    /\ step \in QueueSteps => OwedBytes <= outstanding
    /\ step = "candidates" => OwedBytes + free <= diskFree + outstanding
    /\ OwedBytes + MinFree <= diskFree

FloorInv == LoopTypeOK /\ Bounds /\ RowInv /\ EntriesOK /\ WaitingOK /\ BytesOK

LEMMA OwingTypes ==
    LoopTypeOK => /\ Owing \in [Hash -> Nat] /\ \A h \in Hash : Owing[h] = Owed(h)
                  /\ OwedBytes \in Nat
  <1> SUFFICES ASSUME LoopTypeOK
               PROVE  /\ Owing \in [Hash -> Nat] /\ \A h \in Hash : Owing[h] = Owed(h)
                      /\ OwedBytes \in Nat
    OBVIOUS
  <1>1. \A h \in Hash : RemainingBytes(h) \in Nat
    BY RestTypes
  <1>2. \A h \in Hash : Owed(h) \in Nat
    BY <1>1, ParameterAssumption DEF Owed
  <1>3. Owing \in [Hash -> Nat] /\ \A h \in Hash : Owing[h] = Owed(h)
    BY <1>2 DEF Owing
  <1>4. OwedBytes \in Nat
    BY <1>3, ParameterAssumption, TotalIs DEF OwedBytes
  <1>5. QED
    BY <1>3, <1>4

\* Owing less leaves what was below a bound below it.
LEMMA OwingLess ==
  \A o, p, m, a, b \in Nat : p <= o /\ o + m <= a /\ a <= b => p + m <= b
  OBVIOUS

LEMMA SumsOfNaturals ==
  /\ \A a, b \in Nat : a + b \in Nat
  /\ \A a, b, c \in Nat : a <= c => a + b <= c + b
  /\ \A a \in Nat : a <= a
  OBVIOUS

LEMMA NextFloor ==
  ASSUME Undisturbed, FloorInv, [Next]_vars
  PROVE  EntriesOK' /\ WaitingOK' /\ BytesOK'
  <1>a. LoopTypeOK /\ LoopTypeOK' /\ Bounds /\ Bounds' /\ RowInv
    BY NextType, NextBounds DEF FloorInv
  <1>b. /\ Owing \in [Hash -> Nat] /\ Owing' \in [Hash -> Nat]
        /\ OwedBytes \in Nat /\ OwedBytes' \in Nat
        /\ \A h \in Hash : Owing[h] = Owed(h) /\ Owing'[h] = Owed(h)'
    <2>1. \A h \in Hash : /\ got'[h] \in Nat /\ Size[h] \in Nat
                          /\ got'[h] <= Size[h]
      BY <1>a, ParameterAssumption DEF LoopTypeOK, Bounds
    <2>2. \A h \in Hash : Owed(h)' \in Nat
      BY <2>1 DEF Owed, RemainingBytes, SizeFull
    <2>3. Owing' \in [Hash -> Nat] /\ \A h \in Hash : Owing'[h] = Owed(h)'
      BY <2>2 DEF Owing
    <2>4. OwedBytes' \in Nat
      BY <2>3, ParameterAssumption, TotalIs DEF OwedBytes
    <2>5. QED
      BY <1>a, <2>3, <2>4, OwingTypes
  <1>c. /\ IsFiniteSet(Hash) /\ Size \in [Hash -> Nat \ {0}] /\ MinFree \in Nat
        /\ outstanding \in Nat /\ free \in Nat /\ diskFree \in Nat
        /\ outstanding' \in Nat /\ free' \in Nat /\ diskFree' \in Nat
        /\ got \in [Hash -> Nat] /\ entry \in [Hash -> {"absent", "nascent", "known"}]
        /\ downloads \in [Hash -> {NoRow} \cup DownloadState]
        /\ \A h \in Hash : got[h] <= Size[h]
    BY <1>a, ParameterAssumption DEF LoopTypeOK, Bounds
  <1>d. EntriesOK /\ WaitingOK /\ BytesOK
    BY DEF FloorInv
  <1>n. /\ OwedBytes \in Nat /\ outstanding \in Nat /\ free \in Nat /\ diskFree \in Nat
        /\ OwedBytes' \in Nat /\ outstanding' \in Nat /\ free' \in Nat /\ diskFree' \in Nat
        /\ MinFree \in Nat
    BY <1>b, <1>c
  <1>v. /\ outstanding \in Nat /\ free \in Nat /\ diskFree \in Nat
        /\ outstanding' \in Nat /\ free' \in Nat /\ diskFree' \in Nat
    BY <1>c
  <1>e. {"repo", "unreachable", "crash", "move", "operator", "nascent", "late"} \cap Faults = {}
    BY DEF Undisturbed
  \* The total, when it changes at one file or at none.
  <1>1. (\A h \in Hash : Owed(h)' <= Owed(h)) => OwedBytes' <= OwedBytes
    BY <1>b, <1>c, TotalMonotone DEF OwedBytes
  <1>2. \A y \in Hash : (\A h \in Hash \ {y} : Owed(h)' = Owed(h))
                        => OwedBytes' + Owed(y) = OwedBytes + Owed(y)'
    BY <1>b, <1>c, TotalChange DEF OwedBytes
  \* The steps of the loop that leave amuled alone and send no row to the queue.
  <1>3. ASSUME UNCHANGED amuled,
               \A h \in Hash : downloads'[h] = "queued" => downloads[h] = "queued"
        PROVE  /\ EntriesOK' /\ OwedBytes' <= OwedBytes /\ \A h \in Hash : Waits(h)' => Waits(h)
               /\ OwedBytes' + MinFree <= diskFree'
    <2>1. \A h \in Hash : /\ InQueue(h)' = InQueue(h) /\ RemainingBytes(h)' = RemainingBytes(h)
                          /\ (h \in sharedFiles)' = (h \in sharedFiles)
      BY <1>3 DEF amuled, InQueue, RemainingBytes, SizeFull
    <2>2. \A h \in Hash : Waits(h)' => Waits(h)
      BY <1>3, <2>1 DEF Waits
    <2>3. \A h \in Hash : Owed(h)' <= Owed(h)
      BY <1>a, <1>b, <1>c, <2>1, <2>2 DEF Owed
    <2>4. EntriesOK'
      BY <1>3, <1>d, <2>1 DEF EntriesOK, amuled
    <2>5. diskFree' = diskFree
      BY <1>3 DEF amuled
    <2>6. OwedBytes' <= OwedBytes
      BY <1>1, <2>3
    <2>7. OwedBytes + MinFree <= diskFree
      BY <1>d DEF BytesOK
    <2>8. OwedBytes' + MinFree <= diskFree'
      <3>1. diskFree <= diskFree'
        BY <1>n, <2>5
      <3>2. QED
        BY <1>n, <2>6, <2>7, <3>1, OwingLess, Zenon
    <2>9. QED
      BY <2>2, <2>4, <2>6, <2>8
  <1>4. CASE ReadQueue
    <2>1. /\ UNCHANGED <<amuled, downloads, todo>> /\ step = "idle" /\ step' = "monitor"
          /\ queued' = {h \in Hash : InQueue(h)}
          /\ outstanding' = MapThenSumSet(RemainingBytes, queued')
      BY <1>4 DEF ReadQueue, store
    <2>2. /\ EntriesOK' /\ OwedBytes' <= OwedBytes /\ \A h \in Hash : Waits(h)' => Waits(h)
          /\ OwedBytes' + MinFree <= diskFree'
      BY <1>3, <2>1
    <2>3. \A h \in Hash : ~Waits(h)
      BY <1>d, <2>1 DEF WaitingOK
    <2>4. \A h \in Hash \ queued' : Owing[h] = 0
      BY <1>b, <2>1, <2>3 DEF Owed
    <2>5. \A h \in queued' : Owing[h] = Rest[h]
      BY <1>a, <1>b, <2>1, RestTypes DEF Owed
    <2>6. queued' \in SUBSET Hash /\ IsFiniteSet(queued')
      BY <1>c, <2>1, FS_Subset
    <2>7. Total(Owing, queued') = OwedBytes
      BY <1>b, <1>c, <2>4, <2>6, TotalSubset DEF OwedBytes
    <2>8. Total(Owing, queued') = Total(Rest, queued')
      BY <2>5, <2>6, TotalSame
    <2>9. outstanding' = OwedBytes
      BY <1>a, <2>1, <2>6, <2>7, <2>8, OutstandingIs
    <2>10. WaitingOK' /\ BytesOK'
      BY <2>1, <2>2, <2>3, <2>9 DEF WaitingOK, BytesOK
    <2>11. QED
      BY <2>2, <2>10
  <1>5. CASE \/ Monitor \/ ReadShared \/ EndCompletions \/ Presence
             \/ \E h \in Hash : StampCompleted(h) \/ Notify(h)
    <2>1. /\ UNCHANGED <<amuled, outstanding>>
          /\ \A h \in Hash : downloads'[h] = "queued" => downloads[h] = "queued"
          /\ step \in QueueSteps /\ step' \in QueueSteps
      <3> USE DEF QueueSteps, store, locals
      <3>1. CASE Monitor
        BY <1>c, <3>1 DEF Monitor
      <3>2. CASE ReadShared \/ EndCompletions
        BY <3>2 DEF ReadShared, EndCompletions
      <3>3. CASE Presence
        <4>1. UNCHANGED <<amuled, outstanding>> /\ step = "presence" /\ step' = "disk"
          BY <3>3 DEF Presence
        <4>2. \A h \in Hash : downloads'[h] = "queued" => downloads[h] = "queued"
          BY <3>3 DEF Presence
        <4>3. QED
          BY <4>1, <4>2
      <3>4. ASSUME NEW h \in Hash, StampCompleted(h) \/ Notify(h)
            PROVE  /\ UNCHANGED <<amuled, outstanding>>
                   /\ \A g \in Hash : downloads'[g] = "queued" => downloads[g] = "queued"
                   /\ step \in QueueSteps /\ step' \in QueueSteps
        BY <1>c, <3>4 DEF StampCompleted, Notify
      <3>5. QED
        BY <1>5, <3>1, <3>2, <3>3, <3>4
    <2>2. /\ EntriesOK' /\ OwedBytes' <= OwedBytes /\ \A h \in Hash : Waits(h)' => Waits(h)
          /\ OwedBytes' + MinFree <= diskFree'
      BY <1>3, <2>1
    <2>3. (\A h \in Hash : ~Waits(h)) /\ OwedBytes <= outstanding
      BY <1>d, <2>1 DEF WaitingOK, BytesOK, QueueSteps
    <2>4. OwedBytes' <= outstanding'
      BY <1>b, <1>c, <2>1, <2>2, <2>3
    <2>5. step' # "candidates"
      BY <2>1 DEF QueueSteps
    <2>6. QED
      BY <2>2, <2>3, <2>4, <2>5 DEF WaitingOK, BytesOK
  <1>6. CASE MeasureDisk
    <2>1. /\ UNCHANGED <<amuled, downloads, outstanding>> /\ step = "disk" /\ step' = "candidates"
          /\ free' = diskFree /\ diskFree' = diskFree
      BY <1>6 DEF MeasureDisk, store, amuled
    <2>2. /\ EntriesOK' /\ OwedBytes' <= OwedBytes /\ OwedBytes' + MinFree <= diskFree'
      BY <1>3, <2>1
    <2>3. OwedBytes <= outstanding
      BY <1>d, <2>1 DEF BytesOK, QueueSteps
    <2>4. OwedBytes' <= OwedBytes /\ free' = diskFree /\ diskFree' = diskFree
          /\ outstanding' = outstanding
      BY <2>1, <2>2
    <2>5. OwedBytes + free' <= diskFree' + outstanding'
      BY <1>n, <2>3, <2>4
    <2>6. OwedBytes' + free' <= diskFree' + outstanding'
      <3>1. diskFree' + outstanding' \in Nat
        BY <1>v, SumsOfNaturals, Zenon
      <3>2. diskFree' + outstanding' <= diskFree' + outstanding'
        BY <3>1, SumsOfNaturals, Zenon
      <3>3. QED
        BY <1>n, <2>4, <2>5, <3>1, <3>2, OwingLess, Zenon
    <2>7. QED
      BY <2>1, <2>2, <2>6 DEF WaitingOK, BytesOK, QueueSteps
  <1>7. CASE DiskUnmeasurable \/ EndCandidates
    <2>1. UNCHANGED <<amuled, downloads>> /\ step' = "links"
      BY <1>7 DEF DiskUnmeasurable, EndCandidates, store
    <2>2. EntriesOK' /\ OwedBytes' + MinFree <= diskFree'
      BY <1>3, <2>1
    <2>3. QED
      BY <2>1, <2>2 DEF WaitingOK, BytesOK, QueueSteps
  <1>8. ASSUME NEW h \in Hash, PassCandidate(h)
        PROVE  EntriesOK' /\ WaitingOK' /\ BytesOK'
    <2>1. UNCHANGED <<amuled, downloads, step, outstanding, free>> /\ step = "candidates"
      BY <1>8 DEF PassCandidate, store
    <2>2. EntriesOK' /\ OwedBytes' <= OwedBytes /\ OwedBytes' + MinFree <= diskFree'
      BY <1>3, <2>1
    <2>3. diskFree' = diskFree /\ OwedBytes + free <= diskFree + outstanding
      BY <1>d, <2>1 DEF amuled, BytesOK
    <2>4. /\ OwedBytes' <= OwedBytes
          /\ free' = free /\ diskFree' = diskFree /\ outstanding' = outstanding
      BY <2>1, <2>2, <2>3
    <2>5. OwedBytes + free' <= diskFree' + outstanding'
      BY <2>3, <2>4
    <2>6. OwedBytes' + free' <= diskFree' + outstanding'
      <3>1. diskFree' + outstanding' \in Nat
        BY <1>v, SumsOfNaturals, Zenon
      <3>2. diskFree' + outstanding' <= diskFree' + outstanding'
        BY <3>1, SumsOfNaturals, Zenon
      <3>3. QED
        BY <1>n, <2>4, <2>5, <3>1, <3>2, OwingLess, Zenon
    <2>7. QED
      BY <2>1, <2>2, <2>6 DEF WaitingOK, BytesOK, QueueSteps
  <1>9. CASE ReadQueuedRows
    <2>1. /\ UNCHANGED <<amuled, downloads>> /\ step' = "adding"
          /\ todo' = {h \in Observed : downloads[h] = "queued"}
      BY <1>9 DEF ReadQueuedRows, store
    <2>2. /\ EntriesOK' /\ OwedBytes' + MinFree <= diskFree'
          /\ \A h \in Hash : Waits(h)' => Waits(h)
      BY <1>3, <2>1
    <2>3. \A h \in Hash : Waits(h) => h \in todo'
      BY <1>d, <2>1 DEF Waits, EntriesOK
    <2>4. QED
      BY <2>1, <2>2, <2>3 DEF WaitingOK, BytesOK, QueueSteps
  <1>10. ASSUME NEW h \in Hash, LinkRejected(h)
         PROVE  EntriesOK' /\ WaitingOK' /\ BytesOK'
    <2>1. /\ UNCHANGED <<amuled, step>> /\ step = "adding" /\ todo' = todo \ {h}
          /\ downloads' = [downloads EXCEPT ![h] = "failed"]
      BY <1>10 DEF LinkRejected
    <2>2. \A g \in Hash : downloads'[g] = IF g = h THEN "failed" ELSE downloads[g]
      BY <1>c, <2>1
    <2>3. /\ EntriesOK' /\ OwedBytes' + MinFree <= diskFree'
          /\ \A g \in Hash : Waits(g)' => Waits(g)
      BY <1>3, <2>1, <2>2
    <2>4. \A g \in Hash : Waits(g)' => g \in todo'
      BY <1>d, <2>1, <2>2, <2>3 DEF WaitingOK, Waits
    <2>5. QED
      BY <2>1, <2>3, <2>4 DEF WaitingOK, BytesOK, QueueSteps
  <1>11. CASE EndCycle
    <2>1. /\ UNCHANGED <<amuled, downloads>> /\ step = "adding" /\ todo = {} /\ step' = "idle"
      BY <1>11, <1>e DEF EndCycle, EndIteration, store
    <2>2. /\ EntriesOK' /\ OwedBytes' + MinFree <= diskFree'
          /\ \A h \in Hash : Waits(h)' => Waits(h)
      BY <1>3, <2>1
    <2>3. \A h \in Hash : ~Waits(h)
      BY <1>d, <2>1 DEF WaitingOK
    <2>4. QED
      BY <2>1, <2>2, <2>3 DEF WaitingOK, BytesOK, QueueSteps
  \* The admission of a candidate commits its size.
  <1>12. ASSUME NEW h \in Hash, AdmitCandidate(h)
         PROVE  EntriesOK' /\ WaitingOK' /\ BytesOK'
    <2>1. /\ UNCHANGED <<amuled, step, free>> /\ step = "candidates"
          /\ downloads' = [downloads EXCEPT ![h] = "queued"]
          /\ outstanding' = outstanding + Size[h]
          /\ downloads[h] = NoRow /\ h \in Observed
          /\ free - outstanding - Size[h] >= MinFree
      BY <1>12 DEF AdmitCandidate, Admits, Tracked
    <2>2. \A g \in Hash : downloads'[g] = IF g = h THEN "queued" ELSE downloads[g]
      BY <1>c, <2>1
    <2>3. \A g \in Hash : /\ InQueue(g)' = InQueue(g) /\ RemainingBytes(g)' = RemainingBytes(g)
                          /\ (g \in sharedFiles)' = (g \in sharedFiles)
      BY <2>1 DEF amuled, InQueue, RemainingBytes, SizeFull
    <2>4. \A g \in Hash \ {h} : Owed(g)' = Owed(g)
      BY <2>2, <2>3 DEF Owed, Waits
    <2>5. OwedBytes' + Owed(h) = OwedBytes + Owed(h)'
      BY <1>2, <2>4
    <2>6. Owed(h)' \in Nat /\ Owed(h) \in Nat /\ Size[h] \in Nat
      BY <1>b, <1>c
    <2>7. Owed(h)' <= Owed(h) + Size[h]
      <3>1. CASE InQueue(h)
        BY <2>3, <2>6, <3>1 DEF Owed
      <3>2. CASE ~InQueue(h)
        BY <2>3, <2>6, <3>2 DEF Owed
      <3>3. QED
        BY <3>1, <3>2
    <2>8. OwedBytes' <= OwedBytes + Size[h]
      BY <1>b, <2>5, <2>6, <2>7
    <2>9. diskFree' = diskFree /\ OwedBytes + free <= diskFree + outstanding
      BY <1>d, <2>1 DEF amuled, BytesOK
    <2>10. /\ OwedBytes' + free' <= diskFree' + outstanding'
           /\ OwedBytes' + MinFree <= diskFree'
      <3>1. OwedBytes' \in Nat /\ OwedBytes \in Nat /\ OwedBytes' <= OwedBytes + Size[h]
        BY <1>n, <2>8
      <3>2. /\ OwedBytes + Size[h] \in Nat /\ diskFree' + outstanding' \in Nat
            /\ (OwedBytes + Size[h]) + free' <= diskFree' + outstanding'
            /\ (OwedBytes + Size[h]) + MinFree <= diskFree'
            /\ diskFree' <= diskFree' /\ diskFree' + outstanding' <= diskFree' + outstanding'
        BY <1>n, <2>1, <2>6, <2>9
      <3>3. QED
        BY <1>n, <3>1, <3>2, OwingLess, Zenon
    <2>11. EntriesOK'
      BY <1>d, <2>1, <2>2, <2>3 DEF EntriesOK, amuled
    <2>12. QED
      BY <2>1, <2>10, <2>11 DEF WaitingOK, BytesOK, QueueSteps
  \* The entry that amuled adds owes what its row did.
  <1>13. ASSUME NEW h \in Hash, LinkTaken(h)
         PROVE  EntriesOK' /\ WaitingOK' /\ BytesOK'
    <2>1. /\ UNCHANGED <<downloads, step, got, sharedFiles, inflight, diskFree>>
          /\ step = "adding" /\ todo' = todo \ {h} /\ h \in todo
          /\ entry' = IF InQueue(h) \/ h \in sharedFiles THEN entry
                      ELSE [entry EXCEPT ![h] = "known"]
      BY <1>13, <1>e DEF LinkTaken, TakeLink, store
    <2>2. downloads[h] = "queued"
      BY <1>a, <2>1 DEF RowInv, LinksPending
    <2>3. \A g \in Hash \ {h} : Owed(g)' = Owed(g) /\ InQueue(g)' = InQueue(g)
      BY <1>c, <2>1 DEF Owed, Waits, InQueue, RemainingBytes, SizeFull
    <2>4. InQueue(h)' \/ h \in sharedFiles
      BY <1>c, <2>1 DEF InQueue
    <2>5. Owed(h)' <= Owed(h)
      <3>1. CASE InQueue(h) \/ h \in sharedFiles
        <4>1. entry' = entry
          BY <2>1, <3>1
        <4>2. Owed(h)' = Owed(h)
          BY <2>1, <4>1 DEF Owed, Waits, InQueue, RemainingBytes, SizeFull
        <4>3. QED
          BY <1>b, <4>2
      <3>2. CASE ~InQueue(h) /\ h \notin sharedFiles
        <4>1. got[h] = 0 /\ Owed(h) = Size[h]
          BY <1>d, <2>2, <3>2 DEF EntriesOK, Owed, Waits
        <4>2. entry'[h] = "known"
          BY <1>c, <2>1, <3>2
        <4>3. Owed(h)' = Size[h]
          BY <1>c, <2>1, <4>1, <4>2 DEF Owed, InQueue, RemainingBytes, SizeFull
        <4>4. QED
          BY <1>c, <4>1, <4>3
      <3>3. QED
        BY <3>1, <3>2
    <2>6. \A g \in Hash : Owed(g)' <= Owed(g)
      BY <1>b, <2>3, <2>5
    <2>7. OwedBytes' + MinFree <= diskFree'
      <3>1. OwedBytes' <= OwedBytes /\ diskFree' = diskFree /\ OwedBytes + MinFree <= diskFree
        BY <1>1, <1>d, <2>1, <2>6 DEF BytesOK
      <3>2. diskFree <= diskFree'
        BY <1>n, <3>1
      <3>3. QED
        BY <1>n, <3>1, <3>2, OwingLess, Zenon
    <2>8. EntriesOK'
      BY <1>c, <1>d, <2>1, <2>3, <2>4 DEF EntriesOK
    <2>9. \A g \in Hash : Waits(g)' => Waits(g) /\ g # h
      BY <2>1, <2>3, <2>4 DEF Waits
    <2>10. WaitingOK'
      BY <1>d, <2>1, <2>9 DEF WaitingOK
    <2>11. QED
      BY <2>1, <2>7, <2>8, <2>10 DEF BytesOK, QueueSteps
  \* A byte received is a byte less to receive.
  <1>14. ASSUME NEW h \in Hash, Receive(h)
         PROVE  EntriesOK' /\ WaitingOK' /\ BytesOK'
    <2>1. /\ UNCHANGED <<downloads, step, outstanding, free, todo, entry, inflight>>
          /\ entry[h] = "known" /\ got[h] < Size[h] /\ got' = [got EXCEPT ![h] = @ + 1]
          /\ diskFree' = diskFree - 1
          /\ sharedFiles \subseteq sharedFiles' /\ sharedFiles' \subseteq sharedFiles \cup {h}
          /\ got'[h] < Size[h] \/ h \in sharedFiles'
      BY <1>14 DEF Receive, store, locals
    <2>2. \A g \in Hash : got'[g] = IF g = h THEN got[h] + 1 ELSE got[g]
      BY <1>c, <2>1
    <2>3. InQueue(h) /\ InQueue(h)'
      BY <2>1 DEF InQueue
    <2>4. \A g \in Hash \ {h} : Owed(g)' = Owed(g) /\ Waits(g)' = Waits(g)
      BY <2>1, <2>2 DEF Owed, Waits, InQueue, RemainingBytes, SizeFull
    <2>5. Owed(h) = Size[h] - got[h] /\ Owed(h)' = Size[h] - (got[h] + 1)
      BY <1>c, <2>1, <2>2, <2>3 DEF Owed, RemainingBytes, SizeFull
    <2>6. OwedBytes' = OwedBytes - 1
      <3>1. OwedBytes' + Owed(h) = OwedBytes + Owed(h)'
        BY <1>2, <2>4
      <3>2. QED
        BY <1>b, <1>c, <2>5, <3>1
    <2>7. BytesOK'
      BY <1>b, <1>c, <1>d, <2>1, <2>6 DEF BytesOK
    <2>8. EntriesOK'
      <3>1. \A g \in Hash : ~InQueue(g)' /\ g \notin sharedFiles' => got'[g] = 0
        BY <1>d, <2>1, <2>2, <2>3 DEF EntriesOK, InQueue
      <3>2. \A g \in Hash : got'[g] = Size[g] => g \in sharedFiles'
        BY <1>c, <1>d, <2>1, <2>2 DEF EntriesOK
      <3>3. QED
        BY <1>d, <2>1, <3>1, <3>2 DEF EntriesOK
    <2>9. \A g \in Hash : Waits(g)' => Waits(g)
      BY <2>3, <2>4 DEF Waits
    <2>10. WaitingOK'
      BY <1>d, <2>1, <2>9 DEF WaitingOK
    <2>11. QED
      BY <2>7, <2>8, <2>10
  \* An entry that is complete owes nothing, and leaves nothing owed.
  <1>15. ASSUME NEW h \in Hash, Clear(h) \/ MoveOut(h)
         PROVE  EntriesOK' /\ WaitingOK' /\ BytesOK'
    <2>1. /\ UNCHANGED <<downloads, step, outstanding, free, todo, inflight>>
          /\ entry' = [entry EXCEPT ![h] = "absent"]
          /\ got[h] = Size[h] /\ diskFree' >= diskFree
          /\ \/ UNCHANGED <<got, sharedFiles>>
             \/ /\ got' = [got EXCEPT ![h] = 0] /\ sharedFiles' = sharedFiles \ {h}
                /\ downloads[h] = "completed"
      BY <1>15, <1>c, <1>e DEF Clear, MoveOut, DropFile, store, locals
    <2>2. \A g \in Hash \ {h} : /\ Owed(g)' = Owed(g) /\ Waits(g)' = Waits(g)
                                /\ InQueue(g)' = InQueue(g) /\ got'[g] = got[g] /\ entry'[g] = entry[g]
                                /\ (g \in sharedFiles)' = (g \in sharedFiles)
      BY <1>c, <2>1 DEF Owed, Waits, InQueue, RemainingBytes, SizeFull
    <2>3. ~InQueue(h)' /\ ~Waits(h)'
      BY <1>c, <1>d, <2>1 DEF InQueue, Waits, EntriesOK
    <2>4. \A g \in Hash : Owed(g)' <= Owed(g)
      BY <1>b, <2>2, <2>3 DEF Owed
    <2>5. OwedBytes' <= OwedBytes
      BY <1>1, <2>4
    <2>6. BytesOK'
      <3>1. /\ step \in QueueSteps => OwedBytes <= outstanding
            /\ step = "candidates" => OwedBytes + free <= diskFree + outstanding
            /\ OwedBytes + MinFree <= diskFree
        BY <1>d DEF BytesOK
      <3>2. /\ OwedBytes' <= OwedBytes /\ outstanding' = outstanding /\ free' = free
            /\ step' = step
        BY <2>1, <2>5
      <3>3. diskFree <= diskFree'
        BY <1>v, <2>1
      <3>4. diskFree + outstanding \in Nat /\ diskFree' + outstanding \in Nat
        BY <1>v, SumsOfNaturals, Zenon
      <3>5. diskFree + outstanding <= diskFree' + outstanding
        BY <1>v, <3>3, SumsOfNaturals, Zenon
      <3>6. OwedBytes' + MinFree <= diskFree'
        BY <1>n, <3>1, <3>2, <3>3, <3>4, <3>5, OwingLess, Zenon
      <3>7. step' \in QueueSteps => OwedBytes' <= outstanding'
        <4>1. ASSUME OwedBytes <= outstanding PROVE OwedBytes' <= outstanding
          BY <1>n, <3>2, <4>1
        <4>2. QED
          BY <3>1, <3>2, <4>1
      <3>8. step' = "candidates" => OwedBytes' + free' <= diskFree' + outstanding'
        <4>1. ASSUME OwedBytes + free <= diskFree + outstanding
              PROVE  OwedBytes' + free <= diskFree' + outstanding
          BY <1>n, <3>2, <3>3, <3>4, <3>5, <4>1, OwingLess, Zenon
        <4>2. QED
          BY <3>1, <3>2, <4>1
      <3>9. QED
        BY <3>6, <3>7, <3>8 DEF BytesOK
    <2>7. EntriesOK'
      <3>1. /\ got'[h] = Size[h] => h \in sharedFiles'
            /\ h \notin sharedFiles' => got'[h] = 0
            /\ entry'[h] # "nascent"
        BY <1>c, <1>d, <2>1 DEF EntriesOK
      <3>2. QED
        BY <1>d, <2>1, <2>2, <3>1 DEF EntriesOK
    <2>8. WaitingOK'
      BY <1>d, <2>1, <2>2, <2>3 DEF WaitingOK
    <2>9. QED
      BY <2>6, <2>7, <2>8
  <1>16. CASE Restart \/ Tick \/ UNCHANGED vars
    <2>1. /\ UNCHANGED <<amuled, downloads, outstanding, free, todo>>
          /\ step' = step \/ (step = "down" /\ step' = "idle")
      BY <1>16 DEF Restart, Tick, vars, store, locals
    <2>2. /\ EntriesOK' /\ OwedBytes' <= OwedBytes /\ \A h \in Hash : Waits(h)' => Waits(h)
          /\ OwedBytes' + MinFree <= diskFree'
      BY <1>3, <2>1
    <2>3. WaitingOK'
      BY <1>d, <2>1, <2>2 DEF WaitingOK
    <2>4. diskFree' = diskFree
      BY <2>1 DEF amuled
    <2>5. BytesOK'
      <3>1. /\ step \in QueueSteps => OwedBytes <= outstanding
            /\ step = "candidates" => OwedBytes + free <= diskFree + outstanding
        BY <1>d DEF BytesOK
      <3>2. /\ OwedBytes' <= OwedBytes /\ outstanding' = outstanding /\ free' = free
            /\ diskFree + outstanding \in Nat
            /\ diskFree + outstanding <= diskFree + outstanding
            /\ step' = step \/ step' = "idle"
        BY <1>n, <2>1, <2>2
      <3>3. step' \in QueueSteps => OwedBytes' <= outstanding'
        <4>1. ASSUME OwedBytes <= outstanding PROVE OwedBytes' <= outstanding
          BY <1>n, <3>2, <4>1
        <4>2. QED
          BY <3>1, <3>2, <4>1 DEF QueueSteps
      <3>4. step' = "candidates" => OwedBytes' + free' <= diskFree' + outstanding'
        <4>1. ASSUME OwedBytes + free <= diskFree + outstanding
              PROVE  OwedBytes' + free <= diskFree + outstanding
          BY <1>n, <3>2, <4>1, OwingLess, Zenon
        <4>2. QED
          BY <2>4, <3>1, <3>2, <4>1
      <3>5. QED
        BY <2>2, <3>3, <3>4 DEF BytesOK
    <2>6. QED
      BY <2>2, <2>3, <2>5
  \* The rest asks for a fault that is excluded.
  <1>17. /\ ~SharedUnreachable /\ ~Crash
         /\ \A h \in Hash : /\ ~SkipCompletion(h) /\ ~TargetLookupFails(h) /\ ~LinkUnreachable(h)
                            /\ ~LateLink(h) /\ ~LearnSize(h)
                            /\ ~OperatorRemoves(h) /\ ~OperatorAdds(h)
    BY <1>d, <1>e DEF SharedUnreachable, Crash, SkipCompletion, TargetLookupFails,
                      LinkUnreachable, LateLink, LearnSize, OperatorRemoves, OperatorAdds, EntriesOK
  <1>18. QED
    BY <1>4, <1>5, <1>6, <1>7, <1>8, <1>9, <1>10, <1>11, <1>12, <1>13, <1>14, <1>15, <1>16, <1>17
       DEF Next, Loop, Environment

\* What the crawler commits never takes the filesystem below the floor, for any files, sizes
\* and floor, however the transfers advance between the measurement, the admissions and the
\* links, when no stop, refusal or operator comes in between (run_download_cycle.py, step 3:
\* the free space less the bytes still to come of what was taken before).
THEOREM FloorIsKept ==
  ASSUME Undisturbed, Capacity >= MinFree
  PROVE  Spec => []FloorKept
  <1>1. Init => FloorInv
    <2> SUFFICES ASSUME Init PROVE FloorInv
      OBVIOUS
    <2>1. LoopTypeOK /\ RowInv /\ Bounds
      BY InitType, RowInit, ParameterAssumption DEF Init, Bounds
    <2>2. EntriesOK /\ WaitingOK
      BY ParameterAssumption DEF Init, EntriesOK, WaitingOK, Waits, NoRow
    <2>3. \A h \in Hash : Owing[h] = 0
      BY DEF Init, Owing, Owed, Waits, InQueue, NoRow
    <2>4. OwedBytes = 0
      <3>1. IsFiniteSet(Hash) /\ {} \in SUBSET Hash /\ \A h \in Hash : Owing[h] \in Nat
        BY <2>3, ParameterAssumption
      <3>2. Total(Owing, {}) = 0 /\ Total(Owing, {}) = Total(Owing, Hash)
        BY <2>3, <3>1, TotalIs, TotalSubset
      <3>3. QED
        BY <3>2 DEF OwedBytes
    <2>5. BytesOK
      BY <2>4, ParameterAssumption DEF Init, BytesOK, QueueSteps
    <2>6. QED
      BY <2>1, <2>2, <2>5 DEF FloorInv
  <1>2. FloorInv /\ [Next]_vars => FloorInv'
    BY NextFloor, NextType, NextBounds, RowNext DEF FloorInv
  <1>3. FloorInv => FloorKept
    <2>1. LoopTypeOK /\ OwedBytes + MinFree <= diskFree => diskFree >= MinFree
      BY OwingTypes, ParameterAssumption DEF LoopTypeOK
    <2>2. QED
      BY <2>1 DEF FloorInv, BytesOK, FloorKept
  <1>4. QED
    BY <1>1, <1>2, <1>3, PTL DEF Spec

================================================================================
