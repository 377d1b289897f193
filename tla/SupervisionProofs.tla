--------------------------- MODULE SupervisionProofs ----------------------------
(***************************************************************************)
(* Theorems about the life of the process, for any startup, any set of     *)
(* loops and any faults.                                                   *)
(***************************************************************************)
EXTENDS Supervision, SequenceTheorems, TLAPS

--------------------------------------------------------------------------------
(* The stack of the resources to close.                                      *)

\* StackOK, of any stack and any number of steps done.
Stacked(s, n) ==
    /\ s \in Seq(Resources)
    /\ \A i \in DOMAIN s : \E k \in DOMAIN Startup : k <= n + 1 /\ s[i] = Startup[k]
    /\ \A i, j \in DOMAIN s : i < j => Later(s[j], s[i])
    /\ \A i \in DOMAIN s, q \in Resources : Later(s[i], q) => \E j \in DOMAIN s : s[j] = q

\* While the startup goes on, the stack holds exactly what its steps have opened.
Opened(s, n) ==
    /\ \A i \in DOMAIN s : \E k \in 1 .. n : s[i] = Startup[k]
    /\ \A k \in 1 .. n : Startup[k] # "backfill" => \E i \in DOMAIN s : s[i] = Startup[k]

LEMMA StartupOnce ==
  /\ Startup \in Seq(Resources \cup {"backfill"}) /\ DOMAIN Startup = 1 .. Len(Startup)
  /\ Len(Startup) \in Nat
  /\ \A k, l \in DOMAIN Startup : Startup[k] = Startup[l] => k = l
  <1>1. Startup \in Seq(Resources \cup {"backfill"})
    BY SupervisionAssumption
  <1>2. DOMAIN Startup = 1 .. Len(Startup) /\ Len(Startup) \in Nat
    BY <1>1
  <1>3. QED
    BY <1>1, <1>2, SupervisionAssumption DEF IsInjective

LEMMA LaterIsStrict ==
  ASSUME NEW q, NEW r, Later(r, q)
  PROVE  ~Later(q, r) /\ q # r
  BY StartupOnce DEF Later

LEMMA FrontIsStacked ==
  ASSUME NEW n \in Nat, NEW s, Stacked(s, n), s # <<>>
  PROVE  Stacked(Front(s), n)
  <1> DEFINE t == Front(s)
  <1>1. s \in Seq(Resources) /\ Len(s) \in Nat \ {0} /\ DOMAIN s = 1 .. Len(s)
    BY EmptySeq DEF Stacked
  <1>2. /\ t \in Seq(Resources) /\ Len(t) = Len(s) - 1 /\ DOMAIN t = 1 .. Len(s) - 1
        /\ \A i \in DOMAIN t : t[i] = s[i] /\ i \in DOMAIN s
    BY <1>1 DEF Front
  <1>3. ASSUME NEW i \in DOMAIN t, NEW q \in Resources, Later(t[i], q)
        PROVE  \E j \in DOMAIN t : t[j] = q
    <2>1. PICK j \in DOMAIN s : s[j] = q
      BY <1>2, <1>3 DEF Stacked
    <2>2. ~(i <= j)
      BY <1>1, <1>2, <1>3, <2>1, LaterIsStrict DEF Stacked
    <2>3. QED
      BY <1>1, <1>2, <2>1, <2>2
  <1> HIDE DEF t
  <1>4. \A i \in DOMAIN t : \E k \in DOMAIN Startup : k <= n + 1 /\ t[i] = Startup[k]
    BY <1>2 DEF Stacked
  <1>5. \A i, j \in DOMAIN t : i < j => Later(t[j], t[i])
    BY <1>2 DEF Stacked
  <1>6. Stacked(t, n)
    BY <1>2, <1>3, <1>4, <1>5 DEF Stacked
  <1>7. QED
    BY <1>6 DEF t

\* A resource of the next step is pushed.
LEMMA PushIsStacked ==
  ASSUME NEW n \in Nat, n < Len(Startup), Startup[n + 1] # "backfill",
         NEW s, Stacked(s, n), Opened(s, n),
         NEW t, t = Append(s, Startup[n + 1])
  PROVE  Stacked(t, n) /\ Opened(t, n + 1)
  <1>1. s \in Seq(Resources) /\ Len(s) \in Nat /\ DOMAIN s = 1 .. Len(s)
    BY DEF Stacked
  <1>2. /\ Startup[n + 1] \in Resources /\ n + 1 \in DOMAIN Startup
        /\ \A k \in 1 .. n + 1 : k \in DOMAIN Startup /\ k <= n + 1
    BY StartupOnce
  <1>3. /\ t \in Seq(Resources) /\ Len(t) = Len(s) + 1 /\ DOMAIN t = 1 .. Len(s) + 1
        /\ \A i \in DOMAIN s : t[i] = s[i] /\ i \in DOMAIN t
        /\ t[Len(s) + 1] = Startup[n + 1]
    BY <1>1, <1>2
  <1>4. \A i \in DOMAIN t : i \in DOMAIN s \/ i = Len(s) + 1
    BY <1>1, <1>3
  <1>5. Len(s) + 1 \in DOMAIN t
    BY <1>1, <1>3
  <1>6. \A i \in DOMAIN t : \E k \in 1 .. n + 1 : t[i] = Startup[k]
    BY <1>2, <1>3, <1>4 DEF Opened
  <1>7. \A i \in DOMAIN t : \E k \in DOMAIN Startup : k <= n + 1 /\ t[i] = Startup[k]
    BY <1>2, <1>6
  <1>8. ASSUME NEW i \in DOMAIN t, NEW j \in DOMAIN t, i < j
        PROVE  Later(t[j], t[i])
    <2>1. i \in DOMAIN s
      BY <1>1, <1>3, <1>8
    <2>2. CASE j \in DOMAIN s
      BY <2>1, <2>2, <1>3, <1>8 DEF Stacked
    <2>3. CASE j = Len(s) + 1
      <3>1. PICK k \in 1 .. n : s[i] = Startup[k]
        BY <2>1 DEF Opened
      <3>2. k \in DOMAIN Startup /\ k < n + 1
        BY StartupOnce
      <3>3. QED
        BY <1>2, <1>3, <2>1, <2>3, <3>1, <3>2 DEF Later
    <2>4. QED
      BY <1>4, <2>2, <2>3
  <1>9. \A k \in 1 .. n + 1 : Startup[k] # "backfill" => \E i \in DOMAIN t : t[i] = Startup[k]
    <2> SUFFICES ASSUME NEW k \in 1 .. n + 1, Startup[k] # "backfill"
                 PROVE  \E i \in DOMAIN t : t[i] = Startup[k]
      OBVIOUS
    <2>1. CASE k = n + 1
      BY <2>1, <1>3, <1>5
    <2>2. CASE k \in 1 .. n
      BY <2>2, <1>3 DEF Opened
    <2>3. QED
      BY <2>1, <2>2
  <1>10. ASSUME NEW i \in DOMAIN t, NEW q \in Resources, Later(t[i], q)
         PROVE  \E j \in DOMAIN t : t[j] = q
    <2>1. PICK k \in DOMAIN Startup, l \in DOMAIN Startup : k < l /\ Startup[k] = q /\ Startup[l] = t[i]
      BY <1>10 DEF Later
    <2>2. l <= n + 1
      BY <1>6, <2>1, StartupOnce
    <2>3. k \in 1 .. n + 1
      BY <2>1, <2>2, StartupOnce
    <2>4. Startup[k] # "backfill"
      BY <1>10, <2>1 DEF Resources
    <2>5. QED
      BY <1>9, <2>1, <2>3, <2>4
  <1>11. QED
    BY <1>3, <1>6, <1>7, <1>8, <1>9, <1>10 DEF Stacked, Opened

--------------------------------------------------------------------------------
(* The types.                                                                *)

\* What the startup has opened so far.
StackInv == StackOK /\ (phase = "startup" => Opened(stack, started))

LEMMA InitTypes == Init => PhaseOK /\ StackInv
  <1> SUFFICES ASSUME Init PROVE PhaseOK /\ StackInv
    OBVIOUS
  <1>a. /\ loop \in [Loops -> Stages] /\ {wake, owed} \subseteq SUBSET Wakers
        /\ told \subseteq {l \in Loops : Live(l)} /\ \A l \in Loops : loop[l] \in Over
    BY DEF Init, Stages, Over
  <1>b. /\ aborting \in BOOLEAN /\ failed \in BOOLEAN /\ resumed \in BOOLEAN
        /\ shutdown \in BOOLEAN /\ ran \in BOOLEAN
    BY DEF Init
  <1>c. started \in 0 .. Len(Startup)
    <2>1. started = 0 /\ Len(Startup) \in Nat
      BY StartupOnce DEF Init
    <2>2. QED
      BY <2>1
  <1>1. PhaseOK
    BY <1>a, <1>b, <1>c DEF Init, PhaseOK
  <1>2. stack = <<>> /\ DOMAIN stack = {} /\ stack \in Seq(Resources)
    BY EmptySeq DEF Init
  <1>3. started = 0 /\ 1 .. started = {}
    BY DEF Init
  <1>4. StackInv
    BY <1>2, <1>3 DEF StackInv, StackOK, Opened
  <1>5. QED
    BY <1>1, <1>4

\* The stack changes with the startup, and by what is closed.
LEMMA StackStep == PhaseOK /\ StackInv /\ [Next]_vars => StackInv'
  <1> SUFFICES ASSUME PhaseOK, StackInv, [Next]_vars PROVE StackInv'
    OBVIOUS
  <1>1. started \in Nat /\ Stacked(stack, started)
    BY StartupOnce DEF PhaseOK, StackInv, StackOK, Stacked
  <1>a. ASSUME Stacked(stack', started') PROVE StackOK'
    BY <1>a DEF StackOK, Stacked
  <1>2. CASE UNCHANGED <<stack, started>> /\ (phase' = "startup" => phase = "startup")
    BY <1>2 DEF StackInv, StackOK, Opened
  <1>3. CASE stack # <<>> /\ stack' = Front(stack) /\ started' = started /\ phase' # "startup"
    BY <1>1, <1>3, <1>a, FrontIsStacked DEF StackInv
  <1>4. CASE StartStep
    <2> DEFINE next == Startup[started + 1]
    <2>0. started < Len(Startup) /\ Opened(stack, started)
      BY <1>4 DEF StartStep, StackInv
    <2>1. CASE next # "backfill" /\ stack' = Append(stack, next)
      <3>1. Stacked(stack', started) /\ Opened(stack', started + 1)
        BY <1>1, <2>0, <2>1, PushIsStacked
      <3>2. Stacked(stack', started')
        BY <1>1, <1>4, <3>1 DEF StartStep, Stacked
      <3>3. phase' = "startup" => started' = started + 1
        BY <1>4 DEF StartStep
      <3>4. QED
        BY <1>a, <3>1, <3>2, <3>3 DEF StackInv
    <2>2. CASE next = "backfill" /\ stack' = stack
      <3>1. Stacked(stack', started')
        BY <1>1, <1>4, <2>2 DEF StartStep, Stacked
      <3>2. \A i \in DOMAIN stack : \E k \in 1 .. started + 1 : stack[i] = Startup[k]
        BY <1>1, <2>0 DEF Opened
      <3>3. \A k \in 1 .. started + 1 : k = started + 1 \/ k \in 1 .. started
        BY <1>1
      <3>4. Opened(stack', started + 1)
        BY <2>0, <2>2, <3>2, <3>3 DEF Opened
      <3>5. phase' = "startup" => started' = started + 1
        BY <1>4 DEF StartStep
      <3>6. QED
        BY <1>a, <3>1, <3>4, <3>5 DEF StackInv
    <2>3. CASE stack' = stack /\ phase' = "close" /\ started' = started
      BY <2>3 DEF StackInv, StackOK
    <2>4. QED
      BY <1>4, <2>1, <2>2, <2>3 DEF StartStep
  <1>5. CASE CloseOne
    BY <1>3, <1>5 DEF CloseOne
  <1>6. CASE BoundFires
    BY <1>2, <1>3, <1>6 DEF BoundFires
  <1>7. CASE Signal
    BY <1>2, <1>3, <1>7 DEF Signal
  <1>8. CASE CreateTasks \/ SeeShutdown \/ GroupEnds \/ End
    BY <1>2, <1>8 DEF CreateTasks, SeeShutdown, GroupEnds, End
  <1>9. ASSUME NEW l \in Loops, Step(l) \/ Raises(l) PROVE StackInv'
    BY <1>2, <1>9 DEF Step, Raises, Begin, CycleEnds, AfterCycle, EventWakes, TimerWakes, CancelLoser, Slept,
       Cancelled, Notice, PassGate, main
  <1>10. CASE ForceCycle \/ Pause \/ Resume \/ RestartIntent \/ Nudge \/ UNCHANGED vars
    BY <1>2, <1>10 DEF ForceCycle, Pause, Resume, RestartIntent, Nudge, vars, main
  <1>11. QED
    BY <1>4, <1>5, <1>6, <1>7, <1>8, <1>9, <1>10 DEF Next, MainStep

\* Every step keeps the types.  Most of them move one task, or cancel some.
LEMMA MoveTyped ==
  ASSUME PhaseOK, NEW l \in Loops, NEW stage \in Stages, Move(l, stage)
  PROVE  /\ loop' \in [Loops -> Stages] /\ loop'[l] = stage
         /\ \A k \in Loops \ {l} : loop'[k] = loop[k]
  BY DEF PhaseOK, Move

\* A live task took a step, and is not among those told to stop unless it goes on living.
LEMMA PhaseKept ==
  ASSUME PhaseOK, NEW l \in Loops, NEW stage \in Stages, Move(l, stage), Live(l),
         told' \subseteq told, l \in told' => stage \notin Over \cup {"raised"},
         wake' \subseteq wake, owed' \subseteq owed, ran' \in BOOLEAN,
         UNCHANGED <<main, controls>>
  PROVE  PhaseOK'
  <1>1. phase \notin {"startup", "close", "ended"}
    BY DEF PhaseOK, Live, Over
  <1>2. loop' \in [Loops -> Stages] /\ loop'[l] = stage /\ \A k \in Loops \ {l} : loop'[k] = loop[k]
    BY MoveTyped
  <1>3. told' \subseteq {k \in Loops : Live(k)}'
    BY <1>2 DEF PhaseOK, Live
  <1>4. {wake', owed'} \subseteq SUBSET Wakers /\ {aborting, failed, resumed, shutdown, ran'} \subseteq BOOLEAN
    BY DEF PhaseOK
  <1>5. QED
    BY <1>1, <1>2, <1>3, <1>4 DEF PhaseOK, main, controls

LEMMA PhaseStep == PhaseOK /\ [Next]_vars => PhaseOK'
  <1> SUFFICES ASSUME PhaseOK, [Next]_vars PROVE PhaseOK'
    OBVIOUS
  <1>s. Search \in Loops
    BY SupervisionAssumption
  <1>1. ASSUME NEW l \in Loops, Begin(l) PROVE PhaseOK'
    <2>1. PICK stage \in {"done", "gate", "cycle"} : Move(l, stage)
      BY <1>1 DEF Begin, Top, StartCycle
    <2>2. owed' \subseteq owed /\ ran' \in BOOLEAN
      BY <1>1 DEF Begin, Top, StartCycle, PhaseOK
    <2>3. Live(l) /\ l \notin told' /\ stage \in Stages
      BY <1>1 DEF Begin, Live, Over, tasks, Stages
    <2>4. QED
      BY <1>1, <2>1, <2>2, <2>3, PhaseKept DEF Begin
  <1>2. CASE PassGate
    <2>1. Move(Search, "cycle") /\ owed' \subseteq owed /\ ran' \in BOOLEAN
      BY <1>2 DEF PassGate, StartCycle, PhaseOK
    <2>2. Live(Search) /\ "cycle" \in Stages
      BY <1>2 DEF PassGate, Live, Over, Stages
    <2>3. QED
      BY <1>s, <1>2, <2>1, <2>2, PhaseKept DEF PassGate, Over
  <1>3. ASSUME NEW l \in Loops, CycleEnds(l) PROVE PhaseOK'
    <2>1. PICK stage \in {"done", "sleep"} : Move(l, stage)
      BY <1>3 DEF CycleEnds, AfterCycle
    <2>2. Live(l) /\ stage \in Stages /\ ran' \in BOOLEAN
      BY <1>3 DEF CycleEnds, AfterCycle, Live, Over, Stages, PhaseOK
    <2>3. QED
      BY <1>3, <2>1, <2>2, PhaseKept DEF CycleEnds, AfterCycle
  <1>4. ASSUME NEW l \in Loops, EventWakes(l) \/ CancelLoser(l) PROVE PhaseOK'
    <2>1. PICK stage \in {"woken", "waking"} : Move(l, stage)
      BY <1>4 DEF EventWakes, CancelLoser
    <2>2. Live(l) /\ stage \in Stages /\ ran' \in BOOLEAN
      BY <1>4 DEF EventWakes, CancelLoser, Live, Over, Stages, PhaseOK
    <2>3. QED
      BY <1>4, <2>1, <2>2, PhaseKept DEF EventWakes, CancelLoser, Over
  <1>5. ASSUME NEW l \in Loops, TimerWakes(l) PROVE PhaseOK'
    <2>1. PICK stage \in {"woken", "done", "gate", "cycle"} : Move(l, stage)
      BY <1>5 DEF TimerWakes, Top, StartCycle
    <2>2. Live(l) /\ stage \in Stages /\ ran' \in BOOLEAN /\ owed' \subseteq owed
      BY <1>5 DEF TimerWakes, Top, StartCycle, Live, Over, Stages, PhaseOK
    <2>3. QED
      BY <1>5, <2>1, <2>2, PhaseKept DEF TimerWakes
  <1>6. ASSUME NEW l \in Loops, Slept(l) \/ Cancelled(l) \/ Raises(l) PROVE PhaseOK'
    <2>1. PICK stage \in {"raised", "done", "gate", "cycle"} : Move(l, stage)
      BY <1>6 DEF Slept, Cancelled, Raises, Top, StartCycle
    <2>2. Live(l) /\ stage \in Stages /\ ran' \in BOOLEAN /\ owed' \subseteq owed
      BY <1>6 DEF Slept, Cancelled, Raises, Top, StartCycle, Live, Over, Stages, PhaseOK
    <2>3. told' \subseteq told /\ l \notin told' /\ wake' \subseteq wake
      BY <1>6 DEF Slept, Cancelled, Raises
    <2>4. UNCHANGED <<main, controls>>
      BY <1>6 DEF Slept, Cancelled, Raises
    <2>5. QED
      BY <2>1, <2>2, <2>3, <2>4, PhaseKept
  <1>7. ASSUME NEW l \in Loops, Notice(l) PROVE PhaseOK'
    <2>1. loop' \in [Loops -> Stages] /\ loop'[l] = "dead" /\ \A k \in Loops \ {l} : loop'[k] = loop[k]
      BY <1>7, MoveTyped DEF Notice, Stages
    <2>2. told' \subseteq {k \in Loops : Live(k)}'
      BY <1>7, <2>1 DEF Notice, CancelAll, Live, PhaseOK
    <2>3. phase \in {"loops", "unwind"} /\ phase' = "unwind"
      BY <1>7 DEF Notice, PhaseOK, Over
    <2>4. QED
      BY <1>7, <2>1, <2>2, <2>3 DEF Notice, PhaseOK, controls
  <1>8. CASE StartStep \/ CloseOne
    <2>1. CASE StartStep
      <3>1. started \in 0 .. Len(Startup) /\ Len(Startup) \in Nat /\ started < Len(Startup)
        BY <2>1, StartupOnce DEF StartStep, PhaseOK
      <3>2. started' \in 0 .. Len(Startup)
        <4>1. started' = started + 1 \/ started' = started
          BY <2>1 DEF StartStep
        <4>2. QED
          BY <3>1, <4>1
      <3>3. phase' \in {"startup", "close"} /\ failed' \in BOOLEAN /\ \A l \in Loops : loop[l] = "none"
        BY <2>1 DEF StartStep, PhaseOK
      <3>4. QED
        BY <2>1, <3>2, <3>3 DEF StartStep, PhaseOK, tasks, controls, Live, Over
    <2>2. CASE CloseOne
      BY <2>2 DEF CloseOne, PhaseOK, tasks, controls, Live, Over
    <2>3. QED
      BY <1>8, <2>1, <2>2
  <1>9. CASE CreateTasks
    BY <1>9 DEF CreateTasks, PhaseOK, controls, Live, Over, Stages
  <1>10. CASE SeeShutdown \/ GroupEnds \/ End
    BY <1>10 DEF SeeShutdown, GroupEnds, End, ExitCode, CancelAll, PhaseOK, tasks, controls, Live, Over
  <1>11. CASE BoundFires
    BY <1>11 DEF BoundFires, CancelAll, PhaseOK, controls, Live
  <1>12. CASE Signal
    <2>1. CASE signals = 0 /\ signals' = 1 /\ shutdown' = TRUE /\ UNCHANGED <<phase, aborting, told>>
      BY <1>12, <2>1 DEF Signal, PhaseOK, Live
    <2>2. CASE signals = 1 /\ signals' = 2 /\ CancelAll /\ UNCHANGED shutdown
      <3>1. /\ phase' = CASE phase = "startup" -> "close" [] phase = "loops" -> "unwind" [] OTHER -> phase
            /\ aborting' \in BOOLEAN /\ phase # "ended"
        BY <1>12, <2>2 DEF Signal, PhaseOK
      <3>2. told' \subseteq {k \in Loops : Live(k)}'
        BY <1>12, <2>2 DEF Signal, CancelAll, PhaseOK, Live
      <3>3. phase' \in {"loops", "unwind", "close"} /\ (phase' = "close" => \A l \in Loops : loop'[l] \in Over)
        BY <1>12, <3>1 DEF Signal, PhaseOK, Over
      <3>4. QED
        BY <1>12, <2>2, <3>1, <3>2, <3>3 DEF Signal, PhaseOK
    <2>3. QED
      BY <1>12, <2>1, <2>2 DEF Signal
  <1>13. CASE ForceCycle \/ Nudge
    <2>1. {wake', owed'} \subseteq SUBSET Wakers
      BY <1>13, <1>s DEF ForceCycle, Nudge, PhaseOK, Wakers
    <2>2. QED
      BY <1>13, <2>1 DEF ForceCycle, Nudge, PhaseOK, main, controls, Live
  <1>14. CASE Pause \/ RestartIntent \/ UNCHANGED vars
    BY <1>14 DEF Pause, RestartIntent, vars, PhaseOK, main, tasks, controls, Live
  <1>15. CASE Resume
    <2>1. CASE loop[Search] = "gate"
      <3>1. loop' \in [Loops -> Stages] /\ loop'[Search] = "cleared"
            /\ \A k \in Loops \ {Search} : loop'[k] = loop[k]
        BY <1>15, <1>s, <2>1, MoveTyped DEF Resume, Move, Stages
      <3>2. phase \in {"loops", "unwind"}
        BY <1>s, <2>1 DEF PhaseOK, Over
      <3>3. QED
        BY <1>15, <3>1, <3>2 DEF Resume, PhaseOK, main, Live, Over
    <2>2. CASE loop' = loop
      BY <1>15, <2>2 DEF Resume, PhaseOK, main, Live
    <2>3. QED
      BY <1>15, <2>1, <2>2 DEF Resume
  <1>16. QED
    BY <1>1, <1>2, <1>3, <1>4, <1>5, <1>6, <1>7, <1>8, <1>9, <1>10, <1>11, <1>12, <1>13, <1>14,
       <1>15 DEF Next, MainStep, Step

\* The types of every variable, what each phase implies for the tasks and for the bound,
\* and the order of the stack.
THEOREM TypeCorrect == Spec => []TypeOK
  <1>1. StackInv => StackOK
    BY DEF StackInv
  <1>2. PhaseOK /\ StackInv /\ [Next]_vars => (PhaseOK /\ StackInv)'
    BY PhaseStep, StackStep
  <1>3. QED
    BY InitTypes, <1>1, <1>2, PTL DEF Spec, TypeOK

--------------------------------------------------------------------------------
(* What is asked for.  A request sets the event of the loop it is for, and a  *)
(* loop that consumes the event can only go on to a cycle, to the gate, which *)
(* a cycle follows, or to its end.                                            *)

PromptInv == \A l \in owed : loop[l] \in {"cycle", "sleep"} => l \in wake

LEMMA PromptStep == PhaseOK /\ PromptInv /\ [Next]_vars => PromptInv'
  <1> SUFFICES ASSUME PhaseOK, PromptInv, [Next]_vars PROVE PromptInv'
    OBVIOUS
  <1>s. Search \in Loops /\ owed \subseteq Loops
    BY SupervisionAssumption DEF PhaseOK, Wakers
  <1>k. ASSUME NEW l \in Loops, NEW stage \in Stages, Move(l, stage), owed' \subseteq owed,
               wake' \cup {l} = wake \cup {l},
               stage \in {"cycle", "sleep"} => l \notin owed' \/ (loop[l] = "cycle" /\ wake' = wake)
        PROVE  PromptInv'
    <2>1. loop'[l] = stage /\ \A k \in Loops \ {l} : loop'[k] = loop[k]
      BY <1>k, MoveTyped
    <2>2. \A k \in owed' : k # l => (k \in wake' <=> k \in wake)
      BY <1>k
    <2>3. QED
      BY <1>s, <1>k, <2>1, <2>2 DEF PromptInv
  <1>1. ASSUME NEW l \in Loops, Begin(l) \/ Slept(l) \/ (l = Search /\ PassGate) PROVE PromptInv'
    <2>1. PICK stage \in {"done", "gate", "cycle"} :
            Move(l, stage) /\ owed' \subseteq owed /\ (stage = "cycle" => l \notin owed')
      BY <1>1 DEF Begin, Slept, PassGate, Top, StartCycle
    <2>2. wake' \cup {l} = wake \cup {l}
      BY <1>1 DEF Begin, Slept, PassGate
    <2>3. QED
      BY <1>k, <2>1, <2>2 DEF Stages
  <1>2. ASSUME NEW l \in Loops, TimerWakes(l) PROVE PromptInv'
    <2>1. PICK stage \in {"woken", "done", "gate", "cycle"} :
            Move(l, stage) /\ owed' \subseteq owed /\ (stage = "cycle" => l \notin owed')
      <3>1. owed \subseteq Wakers
        BY DEF PhaseOK
      <3>2. QED
        BY <1>2, <3>1 DEF TimerWakes, Top, StartCycle
    <2>2. QED
      BY <1>2, <1>k, <2>1 DEF Stages, TimerWakes
  <1>3. ASSUME NEW l \in Loops, CycleEnds(l) PROVE PromptInv'
    <2>1. PICK stage \in {"done", "sleep"} : Move(l, stage)
      BY <1>3 DEF CycleEnds, AfterCycle
    <2>2. QED
      BY <1>3, <1>k, <2>1 DEF Stages, CycleEnds, AfterCycle
  <1>4. ASSUME NEW l \in Loops,
               EventWakes(l) \/ CancelLoser(l) \/ Cancelled(l) \/ Raises(l) \/ Notice(l)
        PROVE PromptInv'
    <2>1. PICK stage \in {"woken", "waking", "done", "raised", "dead"} : Move(l, stage)
      BY <1>4 DEF EventWakes, CancelLoser, Cancelled, Raises, Notice
    <2>2. wake' \cup {l} = wake \cup {l} /\ owed' = owed
      BY <1>4 DEF EventWakes, CancelLoser, Cancelled, Raises, Notice
    <2>3. QED
      BY <1>k, <2>1, <2>2 DEF Stages
  <1>5. CASE CreateTasks
    BY <1>5, <1>s DEF CreateTasks, PromptInv
  <1>6. CASE \/ StartStep \/ SeeShutdown \/ GroupEnds \/ CloseOne \/ End \/ BoundFires
             \/ Signal \/ Pause \/ RestartIntent \/ UNCHANGED vars
    <2>1. UNCHANGED <<loop, wake, owed>>
      BY <1>6 DEF StartStep, SeeShutdown, GroupEnds, CloseOne, End, BoundFires, Signal, Pause,
         RestartIntent, vars, tasks
    <2>2. QED
      BY <2>1 DEF PromptInv
  <1>7. CASE ForceCycle \/ Nudge
    BY <1>7 DEF ForceCycle, Nudge, PromptInv
  <1>8. CASE Resume
    <2>1. CASE loop[Search] = "gate"
      BY <1>8, <1>s, <2>1 DEF Resume, PromptInv, PhaseOK
    <2>2. CASE loop' = loop
      BY <1>8, <2>2 DEF Resume, PromptInv
    <2>3. QED
      BY <1>8, <2>1, <2>2 DEF Resume
  <1>9. QED
    BY <1>1, <1>2, <1>3, <1>4, <1>5, <1>6, <1>7, <1>8 DEF Next, MainStep, Step

\* No loop sleeps on while a cycle is owed to it (_sleep_or_forced, _sleep_or_nudge).
THEOREM RequestsAreServed == Spec => []AskedIsPrompt
  <1>1. Init => PromptInv
    BY DEF Init, PromptInv
  <1>2. PromptInv => AskedIsPrompt
    BY DEF PromptInv, AskedIsPrompt
  <1>3. Spec => []PhaseOK
    BY TypeCorrect, PTL DEF TypeOK
  <1>4. QED
    BY <1>1, <1>2, <1>3, PromptStep, PTL DEF Spec

--------------------------------------------------------------------------------
(* The pause.  Only Resume opens the gate, which begins a new count; so a     *)
(* loop that is on its way out of the gate has begun nothing since.           *)

GateInv == loop[Search] = "cleared" => ~ran

LEMMA GateStep == PhaseOK /\ GateInv /\ [Next]_vars => GateInv' /\ (loop[Search] # "cycle" /\ loop'[Search] = "cycle" => resumed \/ ~ran)
  <1> SUFFICES ASSUME PhaseOK, GateInv, [Next]_vars
               PROVE  GateInv' /\ (loop[Search] # "cycle" /\ loop'[Search] = "cycle" => resumed \/ ~ran)
    OBVIOUS
  <1>s. Search \in Loops
    BY SupervisionAssumption
  <1> DEFINE Goal == GateInv' /\ (loop[Search] # "cycle" /\ loop'[Search] = "cycle" => resumed \/ ~ran)
  <1>k. ASSUME NEW l \in Loops, NEW stage \in Stages \ {"cleared"}, Move(l, stage),
               l # Search => ran' = ran,
               l = Search /\ stage = "cycle" => resumed \/ loop[Search] = "cleared"
        PROVE  Goal
    <2>1. loop'[l] = stage /\ \A k \in Loops \ {l} : loop'[k] = loop[k]
      BY <1>k, MoveTyped
    <2>2. CASE l = Search
      BY <1>k, <2>1, <2>2 DEF GateInv
    <2>3. CASE l # Search
      BY <1>k, <1>s, <2>1, <2>3 DEF GateInv
    <2>4. QED
      BY <2>2, <2>3
  <1>1. ASSUME NEW l \in Loops, Begin(l) \/ Slept(l) \/ TimerWakes(l) PROVE Goal
    <2>1. PICK stage \in {"woken", "done", "gate", "cycle"} :
            /\ Move(l, stage) /\ (l # Search => ran' = ran)
            /\ l = Search /\ stage = "cycle" => resumed
      <3>1. Search \in Wakers
        BY SupervisionAssumption DEF Wakers
      <3>2. CASE Begin(l) \/ Slept(l)
        BY <3>2 DEF Begin, Slept, Top, StartCycle
      <3>3. CASE TimerWakes(l)
        BY <3>1, <3>3 DEF TimerWakes, Top, StartCycle
      <3>4. QED
        BY <1>1, <3>2, <3>3
    <2>2. QED
      BY <1>k, <2>1 DEF Stages
  <1>2. CASE PassGate
    BY <1>2, <1>k, <1>s DEF PassGate, StartCycle, Stages
  <1>3. ASSUME NEW l \in Loops,
               \/ CycleEnds(l) \/ EventWakes(l) \/ CancelLoser(l) \/ Cancelled(l) \/ Raises(l)
               \/ Notice(l)
        PROVE  Goal
    <2>1. PICK stage \in {"done", "sleep", "woken", "waking", "raised", "dead"} : Move(l, stage) /\ ran' = ran
      BY <1>3 DEF CycleEnds, AfterCycle, EventWakes, CancelLoser, Cancelled, Raises, Notice
    <2>2. QED
      BY <1>k, <2>1 DEF Stages
  <1>4. CASE CreateTasks
    BY <1>4, <1>s DEF CreateTasks, GateInv
  <1>5. CASE \/ StartStep \/ SeeShutdown \/ GroupEnds \/ CloseOne \/ End \/ BoundFires
             \/ Signal \/ Pause \/ RestartIntent \/ ForceCycle \/ Nudge \/ UNCHANGED vars
    <2>1. loop' = loop /\ (ran' = ran \/ ran' = FALSE)
      BY <1>5 DEF StartStep, SeeShutdown, GroupEnds, CloseOne, End, BoundFires, Signal, Pause,
         RestartIntent, ForceCycle, Nudge, vars, tasks
    <2>2. QED
      BY <2>1 DEF GateInv
  <1>6. CASE Resume
    BY <1>6, <1>s DEF Resume, GateInv, PhaseOK
  <1>7. QED
    BY <1>1, <1>2, <1>3, <1>4, <1>5, <1>6 DEF Next, MainStep, Step

\* A pause lets at most one more cycle begin (pause, _run_loop).
THEOREM PausesHold == Spec => OneCyclePerPause
  <1>1. Init => GateInv
    BY SupervisionAssumption DEF Init, GateInv
  <1>2. Spec => []PhaseOK
    BY TypeCorrect, PTL DEF TypeOK
  <1>3. PhaseOK /\ GateInv /\ [Next]_vars => GateInv'
    BY GateStep
  <1>4. PhaseOK /\ GateInv /\ [Next]_vars =>
            [loop[Search] # "cycle" /\ loop'[Search] = "cycle" => resumed \/ ~ran]_vars
    BY GateStep
  <1>5. QED
    BY <1>1, <1>2, <1>3, <1>4, PTL DEF Spec, OneCyclePerPause

--------------------------------------------------------------------------------
(* The bound of the shutdown.  It is armed as every task is cancelled; only a *)
(* task that was waking takes the cancellation for something else, and it     *)
(* finds the shutdown at the top of its loop.                                 *)

BoundInv ==
    /\ phase \in {"startup", "loops"} => bound = "off"
    /\ phase = "unwind" /\ bound = "armed" => \A l \in Loops : Live(l) => l \in told

LEMMA BoundStep == PhaseOK /\ BoundInv /\ [Next]_vars => BoundInv'
  <1> SUFFICES ASSUME PhaseOK, BoundInv, [Next]_vars PROVE BoundInv'
    OBVIOUS
  <1>s. Search \in Loops
    BY SupervisionAssumption
  <1>k. ASSUME NEW l \in Loops, NEW stage \in Stages, Move(l, stage), told \ {l} \subseteq told',
               UNCHANGED main, shutdown => l \in told' \/ stage \in Over \cup {"raised"}
        PROVE  BoundInv'
    <2>1. loop'[l] = stage /\ \A k \in Loops \ {l} : loop'[k] = loop[k]
      BY <1>k, MoveTyped
    <2>2. ASSUME phase = "unwind", bound = "armed", NEW k \in Loops, loop'[k] \notin Over \cup {"raised"}
          PROVE  k \in told'
      <3>1. CASE k = l
        BY <1>k, <2>1, <2>2, <3>1 DEF PhaseOK
      <3>2. CASE k # l
        BY <1>k, <2>1, <2>2, <3>2 DEF BoundInv, Live
      <3>3. QED
        BY <3>1, <3>2
    <2>3. QED
      BY <1>k, <2>2 DEF BoundInv, Live, main
  <1>q. ASSUME phase = "unwind", bound = "armed" PROVE shutdown
    BY <1>q DEF PhaseOK
  <1>1. ASSUME NEW l \in Loops,
               \/ Begin(l) \/ CycleEnds(l) \/ EventWakes(l) \/ TimerWakes(l) \/ CancelLoser(l)
               \/ Raises(l) \/ (l = Search /\ PassGate)
        PROVE  BoundInv'
    <2>1. Live(l) /\ l \notin told /\ UNCHANGED main
      BY <1>1 DEF Begin, CycleEnds, AfterCycle, EventWakes, TimerWakes, CancelLoser, Raises, PassGate, Live, Over
    <2>2. QED
      BY <2>1 DEF BoundInv, main
  <1>2. ASSUME NEW l \in Loops, Slept(l) PROVE BoundInv'
    <2>1. PICK stage \in {"done", "gate", "cycle"} : Move(l, stage) /\ (shutdown => stage = "done")
      BY <1>2 DEF Slept, Top, StartCycle
    <2>2. QED
      BY <1>2, <1>k, <2>1 DEF Slept, Stages, Over
  <1>3. ASSUME NEW l \in Loops, Cancelled(l) PROVE BoundInv'
    BY <1>3, <1>k DEF Cancelled, Stages, Over
  <1>4. ASSUME NEW l \in Loops, Notice(l) PROVE BoundInv'
    <2>1. loop'[l] = "dead" /\ \A k \in Loops \ {l} : loop'[k] = loop[k]
      BY <1>4, MoveTyped DEF Notice, Stages
    <2>2. CASE phase = "unwind"
      BY <1>4, <2>1, <2>2 DEF Notice, CancelAll, BoundInv, Live, Over
    <2>3. CASE phase # "unwind"
      BY <1>4, <2>3 DEF Notice, PhaseOK, BoundInv, Over
    <2>4. QED
      BY <2>2, <2>3
  <1>5. CASE SeeShutdown
    BY <1>5 DEF SeeShutdown, CancelAll, BoundInv, Live
  <1>6. CASE BoundFires
    BY <1>6 DEF BoundFires, BoundInv
  <1>7. CASE StartStep \/ GroupEnds \/ CloseOne \/ End
    BY <1>7 DEF StartStep, GroupEnds, CloseOne, End, BoundInv
  <1>8. CASE CreateTasks
    BY <1>8 DEF CreateTasks, BoundInv
  <1>9. CASE Signal
    <2>1. bound' = bound /\ loop' = loop /\ (phase' = phase \/ phase \in {"startup", "loops"})
          /\ (phase' \in {"startup", "loops"} => phase \in {"startup", "loops"}) /\ told \subseteq told'
      BY <1>9 DEF Signal, CancelAll
    <2>2. QED
      BY <2>1 DEF BoundInv, Live
  <1>10. CASE ForceCycle \/ Pause \/ RestartIntent \/ Nudge \/ UNCHANGED vars
    <2>1. UNCHANGED <<main, loop, told>>
      BY <1>10 DEF ForceCycle, Pause, RestartIntent, Nudge, vars, tasks
    <2>2. QED
      BY <2>1 DEF BoundInv, Live, main
  <1>11. CASE Resume
    <2>1. CASE loop[Search] = "gate"
      BY <1>11, <1>s, <2>1 DEF Resume, PhaseOK, BoundInv, Live, Over, main
    <2>2. CASE loop' = loop
      BY <1>11, <2>2 DEF Resume, BoundInv, Live, main
    <2>3. QED
      BY <1>11, <2>1, <2>2 DEF Resume
  <1>12. QED
    BY <1>1, <1>2, <1>3, <1>4, <1>5, <1>6, <1>7, <1>8, <1>9, <1>10, <1>11 DEF Next, MainStep, Step

LEMMA OnlySlowIsCut ==
  ASSUME PhaseOK, BoundInv, [Next]_vars, bound = "armed", bound' = "fired"
  PROVE  \A l \in Loops : loop[l] \notin {"gate", "sleep"}
  <1>1. CASE BoundFires
    <2>1. CASE phase = "unwind" /\ \A l \in Loops : ~Quick(l)
      BY <2>1 DEF BoundInv, Quick, Live, Over
    <2>2. CASE phase = "close"
      BY <2>2 DEF PhaseOK, Over
    <2>3. QED
      BY <1>1, <2>1, <2>2 DEF BoundFires
  <1>2. ASSUME NEW l \in Loops, Step(l) \/ Raises(l) PROVE FALSE
    BY <1>2 DEF Step, Raises, Begin, CycleEnds, AfterCycle, EventWakes, TimerWakes, CancelLoser, Slept,
       Cancelled, Notice, PassGate, main
  <1>3. ~(MainStep \/ Signal)
    BY DEF MainStep, StartStep, CreateTasks, SeeShutdown, GroupEnds, CloseOne, End, Signal
  <1>4. ~(ForceCycle \/ Pause \/ Resume \/ RestartIntent \/ Nudge \/ UNCHANGED vars)
    BY DEF ForceCycle, Pause, Resume, RestartIntent, Nudge, vars, main
  <1>5. QED
    BY <1>1, <1>2, <1>3, <1>4 DEF Next

\* The deadline never cuts a loop that only sleeps or waits at the gate (_supervise).
THEOREM DeadlineIsForTheSlow == Spec => BoundIsForTheSlow
  <1>1. Init => BoundInv
    BY DEF Init, BoundInv
  <1>2. Spec => []PhaseOK
    BY TypeCorrect, PTL DEF TypeOK
  <1>3. PhaseOK /\ BoundInv /\ [Next]_vars =>
            [bound = "armed" /\ bound' = "fired" => \A l \in Loops : loop[l] \notin {"gate", "sleep"}]_vars
    BY OnlySlowIsCut
  <1>4. QED
    BY <1>1, <1>2, <1>3, BoundStep, PTL DEF Spec, BoundIsForTheSlow

--------------------------------------------------------------------------------
(* The exit code.  It is computed from failed and signals after the last task *)
(* is over; what it says of the tasks was decided in the unwind.              *)

LifeInv ==
    /\ phase \in {"loops", "unwind"} => started = Len(Startup) /\ \A l \in Loops : loop[l] # "none"
    /\ \A l \in Loops : loop[l] = "dead" => failed
    /\ failed => (phase \in {"close", "ended"} /\ started < Len(Startup)) \/ \E l \in Loops : loop[l] = "dead"
    /\ (phase \in {"unwind", "close", "ended"} /\ ~failed /\ signals # 2) => shutdown
    /\ (phase \in {"close", "ended"} /\ ~failed /\ signals # 2) =>
            started = Len(Startup) /\ \A l \in Loops : loop[l] # "none"
    /\ phase = "ended" => stack = <<>> /\ exit = ExitCode

LEMMA LifeStep == PhaseOK /\ StackInv /\ LifeInv /\ [Next]_vars => LifeInv'
  <1> SUFFICES ASSUME PhaseOK, StackInv, LifeInv, [Next]_vars PROVE LifeInv'
    OBVIOUS
  <1>s. Search \in Loops
    BY SupervisionAssumption
  <1>k. ASSUME NEW l \in Loops, NEW stage \in Stages \ {"none", "dead"}, Move(l, stage), Live(l),
               UNCHANGED <<main, controls>>
        PROVE  LifeInv'
    <2>1. loop'[l] = stage /\ \A k \in Loops \ {l} : loop'[k] = loop[k]
      BY <1>k, MoveTyped
    <2>2. loop[l] \notin {"none", "dead"} /\ phase \notin {"close", "ended"}
      BY <1>k DEF Live, Over, PhaseOK
    <2>3. QED
      BY <1>k, <2>1, <2>2 DEF LifeInv, main, controls
  <1>1. ASSUME NEW l \in Loops,
               \/ Begin(l) \/ CycleEnds(l) \/ EventWakes(l) \/ TimerWakes(l) \/ CancelLoser(l)
               \/ Slept(l) \/ Cancelled(l) \/ Raises(l) \/ (l = Search /\ PassGate)
        PROVE  LifeInv'
    <2>1. Live(l) /\ UNCHANGED <<main, controls>>
      BY <1>1 DEF Begin, CycleEnds, AfterCycle, EventWakes, TimerWakes, CancelLoser, Slept, Cancelled, Raises,
         PassGate, Live, Over
    <2>2. PICK stage \in {"done", "gate", "cycle", "sleep", "woken", "waking", "raised"} : Move(l, stage)
      BY <1>1 DEF Begin, CycleEnds, AfterCycle, EventWakes, TimerWakes, CancelLoser, Slept, Cancelled, Raises,
         PassGate, Top, StartCycle
    <2>3. QED
      BY <1>k, <2>1, <2>2 DEF Stages
  <1>2. ASSUME NEW l \in Loops, Notice(l) PROVE LifeInv'
    <2>1. loop'[l] = "dead" /\ \A k \in Loops \ {l} : loop'[k] = loop[k]
      BY <1>2, MoveTyped DEF Notice, Stages
    <2>2. phase \in {"loops", "unwind"} /\ phase' = "unwind" /\ failed'
      BY <1>2 DEF Notice, PhaseOK, Over
    <2>3. QED
      BY <1>2, <2>1, <2>2 DEF Notice, LifeInv
  <1>3. CASE StartStep
    <2>1. started < Len(Startup) /\ phase = "startup" /\ loop' = loop /\ signals' = signals
      BY <1>3 DEF StartStep, tasks, controls
    <2>2. /\ \A l \in Loops : loop[l] = "none"
          /\ ~failed
      BY <2>1 DEF PhaseOK, LifeInv
    <2>3. \/ phase' = "startup" /\ failed' = failed
          \/ phase' = "close" /\ failed' /\ started' = started
      BY <1>3 DEF StartStep
    <2>4. QED
      BY <2>1, <2>2, <2>3 DEF LifeInv
  <1>4. CASE CreateTasks
    BY <1>4 DEF CreateTasks, LifeInv, PhaseOK, controls
  <1>5. CASE SeeShutdown \/ GroupEnds
    BY <1>5 DEF SeeShutdown, GroupEnds, LifeInv, tasks, controls
  <1>6. CASE CloseOne \/ BoundFires
    BY <1>6 DEF CloseOne, BoundFires, LifeInv, tasks, controls
  <1>7. CASE End
    BY <1>7 DEF End, LifeInv, ExitCode, tasks, controls
  <1>8. CASE Signal
    <2>1. phase # "ended" /\ UNCHANGED <<started, failed, exit, loop>>
      BY <1>8 DEF Signal
    <2>2. CASE signals' = 1 /\ shutdown' /\ phase' = phase
      <3>1. signals = 0
        BY <1>8, <2>2 DEF Signal
      <3>2. QED
        BY <2>1, <2>2, <3>1 DEF LifeInv
    <2>3. CASE signals' = 2 /\ phase' = CASE phase = "startup" -> "close" [] phase = "loops" -> "unwind" [] OTHER -> phase
      <3>1. phase' # "ended" /\ (phase' \in {"loops", "unwind"} => phase \in {"loops", "unwind"})
            /\ (phase \in {"close", "ended"} => phase' = phase)
        BY <2>1, <2>3 DEF PhaseOK
      <3>2. QED
        BY <2>1, <2>3, <3>1 DEF LifeInv
    <2>4. QED
      BY <1>8, <2>2, <2>3 DEF Signal
  <1>9. CASE ForceCycle \/ Pause \/ RestartIntent \/ Nudge \/ UNCHANGED vars
    <2>1. UNCHANGED <<main, loop, signals>> /\ (shutdown => shutdown')
      BY <1>9 DEF ForceCycle, Pause, RestartIntent, Nudge, vars, tasks, controls
    <2>2. QED
      BY <2>1 DEF LifeInv, ExitCode, main
  <1>10. CASE Resume
    <2>1. UNCHANGED <<main, signals, shutdown>>
      BY <1>10 DEF Resume
    <2>2. CASE loop[Search] = "gate"
      <3>1. \A l \in Loops : loop'[l] = IF l = Search THEN "cleared" ELSE loop[l]
        BY <1>10, <1>s, <2>2 DEF Resume, PhaseOK
      <3>2. QED
        BY <2>1, <2>2, <3>1 DEF LifeInv, ExitCode, main
    <2>3. CASE loop' = loop
      BY <2>1, <2>3 DEF LifeInv, ExitCode, main
    <2>4. QED
      BY <1>10, <2>2, <2>3 DEF Resume
  <1>11. QED
    BY <1>1, <1>2, <1>3, <1>4, <1>5, <1>6, <1>7, <1>8, <1>9, <1>10 DEF Next, MainStep, Step

LEMMA LifeTells == PhaseOK /\ LifeInv => ExitTellsWhy
  <1> SUFFICES ASSUME PhaseOK, LifeInv PROVE ExitTellsWhy
    OBVIOUS
  <1>1. ASSUME exit = 0 PROVE shutdown /\ started = Len(Startup) /\ \A l \in Loops : loop[l] = "done"
    <2>1. phase = "ended" /\ ~failed /\ signals # 2
      BY <1>1 DEF PhaseOK, LifeInv, ExitCode
    <2>2. QED
      BY <2>1 DEF PhaseOK, LifeInv, Over
  <1>2. ASSUME exit = 1 PROVE signals = 2 \/ started < Len(Startup) \/ \E l \in Loops : loop[l] = "dead"
    <2>1. failed \/ signals = 2
      BY <1>2 DEF PhaseOK, LifeInv, ExitCode
    <2>2. QED
      BY <2>1 DEF LifeInv
  <1>3. QED
    BY <1>1, <1>2 DEF ExitTellsWhy

\* The exit code says why the process ended (main).
THEOREM ExitCodeIsTrue == Spec => []ExitTellsWhy
  <1>1. Init => LifeInv
    BY StartupOnce DEF Init, LifeInv
  <1>2. PhaseOK /\ StackInv /\ [Next]_vars => (PhaseOK /\ StackInv)'
    BY PhaseStep, StackStep
  <1>3. QED
    BY <1>1, <1>2, InitTypes, LifeStep, LifeTells, PTL DEF Spec

================================================================================
