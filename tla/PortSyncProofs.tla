----------------------------- MODULE PortSyncProofs -----------------------------
(***************************************************************************)
(* Theorems about the port-sync loop, for any ports, window and faults.    *)
(***************************************************************************)
EXTENDS PortSync, TLAPS

LEMMA InitType == Init => TypeOK
  <1> SUFFICES ASSUME Init PROVE TypeOK
    OBVIOUS
  <1>1. /\ sinceDecision \in 0 .. Window /\ sinceRestart \in 0 .. Window
        /\ step \in Steps /\ target \in Port \cup {NoPort}
    BY PortSyncAssumption DEF Init, Steps
  <1>2. alert \in BOOLEAN /\ running \in BOOLEAN /\ pending \in BOOLEAN /\ highId \in BOOLEAN
    BY DEF Init
  <1>3. QED
    BY <1>1, <1>2 DEF Init, TypeOK

LEMMA NextType == TypeOK /\ [Next]_vars => TypeOK'
  <1> SUFFICES ASSUME TypeOK, [Next]_vars PROVE TypeOK'
    OBVIOUS
  <1> USE PortSyncAssumption DEF TypeOK, Steps, Goto, local, amuled, history
  <1>1. CASE ReadForwarded \/ CallFails
    BY <1>1 DEF ReadForwarded, CallFails
  <1>2. CASE Compare
    BY <1>2 DEF Compare
  <1>3. CASE WritePreference \/ WriteLost \/ RequestRestart \/ RestartRefused
    <2>1. CASE RestartRefused
      <3>1. refused' \in BOOLEAN
        BY <2>1 DEF RestartRefused
      <3>2. QED
        BY <2>1, <3>1 DEF RestartRefused
    <2>2. QED
      BY <1>3, <2>1 DEF WritePreference, WriteLost, RequestRestart
  <1>4. CASE Verify \/ Recheck
    <2>1. alert' \in BOOLEAN
      <3>1. CASE Verify
        BY <3>1 DEF Verify
      <3>2. CASE Recheck
        BY <3>2 DEF Recheck
      <3>3. QED
        BY <1>4, <3>1, <3>2
    <2>2. UNCHANGED <<history, target, sinceDecision, sinceRestart, forwarded, amuled>> /\ step' = "idle"
      BY <1>4 DEF Verify, Recheck
    <2>3. QED
      BY <2>1, <2>2
  <1>5. CASE Crash \/ Boot
    <2>1. CASE Crash
      <3>1. sinceDecision' \in 0 .. Window /\ sinceRestart' \in 0 .. Window
        BY <2>1 DEF Crash
      <3>2. alert' \in BOOLEAN
        BY <2>1 DEF Crash
      <3>3. orphaned' \in BOOLEAN /\ refused' \in BOOLEAN
        BY <2>1 DEF Crash
      <3>4. QED
        BY <2>1, <3>1, <3>2, <3>3 DEF Crash
    <2>2. CASE Boot
      BY <2>2 DEF Boot
    <2>3. QED
      BY <1>5, <2>1, <2>2
  <1>6. CASE Tick
    BY <1>6 DEF Tick, Later
  <1>7. CASE Renegotiate \/ Stop \/ Die \/ Start
    <2>1. CASE Renegotiate
      BY <2>1 DEF Renegotiate
    <2>2. CASE GoesDown
      BY <2>2 DEF GoesDown
    <2>3. CASE Start
      BY <2>3 DEF Start
    <2>4. QED
      BY <1>7, <2>1, <2>2, <2>3 DEF Stop, Die
  <1>8. CASE Login
    <2>1. highId' \in BOOLEAN /\ refused' \in BOOLEAN
      BY <1>8 DEF Login
    <2>2. QED
      BY <1>8, <2>1 DEF Login
  <1>9. CASE UNCHANGED vars
    BY <1>9 DEF vars
  <1>10. QED
    BY <1>1, <1>2, <1>3, <1>4, <1>5, <1>6, <1>7, <1>8, <1>9 DEF Next, Loop

\* Every variable keeps its type, and a cycle under way has read a real port.
THEOREM TypeCorrect == Spec => []TypeOK
  BY InitType, NextType, PTL DEF Spec

--------------------------------------------------------------------------------

\* A preference that is not bound yet always has a restart on its way, unless
\* a write lost its follow-up: the written preference may stand for the bound
\* port in every later comparison.
THEOREM WrittenPreferenceIsPending == Spec => []WrittenIsPending
  <1>1. Init => WrittenIsPending
    BY DEF Init, WrittenIsPending
  <1>2. TypeOK /\ WrittenIsPending /\ [Next]_vars => WrittenIsPending'
    <2> SUFFICES ASSUME TypeOK, WrittenIsPending, [Next]_vars PROVE WrittenIsPending'
      OBVIOUS
    <2> USE DEF WrittenIsPending, Goto, amuled, local, history
    <2>1. CASE UNCHANGED <<amuled, orphaned>> /\ (step = "restart" => step' = "restart")
      BY <2>1
    <2>2. CASE \/ ReadForwarded \/ Compare \/ Verify \/ Recheck \/ CallFails
               \/ Boot \/ Tick \/ UNCHANGED vars
      BY <2>1, <2>2
         DEF ReadForwarded, Compare, Verify, Recheck, CallFails, Boot, Tick, vars
    <2>3. CASE WriteLost \/ RestartRefused \/ Crash
      BY <2>3 DEF WriteLost, RestartRefused, Crash
    <2>4. CASE WritePreference \/ RequestRestart
      BY <2>4 DEF WritePreference, RequestRestart
    <2>5. CASE Renegotiate \/ Login
      BY <2>5 DEF Renegotiate, Login
    <2>6. CASE Stop \/ Die
      BY <2>6 DEF Stop, Die, GoesDown, TypeOK
    <2>7. CASE Start
      BY <2>7 DEF Start
    <2>8. QED
      BY <2>2, <2>3, <2>4, <2>5, <2>6, <2>7 DEF Next, Loop
  <1>3. QED
    BY <1>1, <1>2, TypeCorrect, PTL DEF Spec

--------------------------------------------------------------------------------

\* A refused restart keeps its alert lit until amuled shows a High-ID.  The paths
\* that touch the alert read the High-ID, so the argument is that none was read:
\* refused also means that amuled has no High-ID.
THEOREM RefusalIsShown == Spec => []RefusalShows
  <1> DEFINE Unproven == refused => alert /\ ~highId
  <1>1. Init => Unproven
    BY DEF Init
  <1>2. Unproven /\ [Next]_vars => Unproven'
    <2> SUFFICES ASSUME Unproven, [Next]_vars PROVE Unproven'
      OBVIOUS
    <2> USE DEF amuled, local, history
    <2>1. CASE UNCHANGED <<refused, alert, highId>>
      BY <2>1
    <2>2. CASE \/ ReadForwarded \/ Compare \/ WritePreference \/ WriteLost \/ RequestRestart
               \/ CallFails \/ Boot \/ Tick \/ Start \/ UNCHANGED vars
      BY <2>1, <2>2 DEF ReadForwarded, Compare, WritePreference, WriteLost, RequestRestart,
                        CallFails, Boot, Tick, Start, vars
    <2>3. CASE Verify \/ Recheck
      BY <2>3 DEF Verify, Recheck
    <2>4. CASE RestartRefused \/ Crash
      BY <2>4 DEF RestartRefused, Crash
    <2>5. CASE Renegotiate \/ Stop \/ Die
      BY <2>5 DEF Renegotiate, Stop, Die, GoesDown
    <2>6. CASE Login
      BY <2>6 DEF Login
    <2>7. QED
      BY <2>2, <2>3, <2>4, <2>5, <2>6 DEF Next, Loop
  <1>3. Unproven => RefusalShows
    BY DEF RefusalShows
  <1>4. QED
    BY <1>1, <1>2, <1>3, PTL DEF Spec

================================================================================
