------------------------------ MODULE Supervision -------------------------------
(***************************************************************************)
(* One life of the crawler process (composition/app.py, __main__.py): the  *)
(* startup, the loops in their task group, the intents of the web thread,  *)
(* the signals, the shutdown and its armed bound, the exit code.  A step   *)
(* is what one task does between two awaits of the event loop.             *)
(***************************************************************************)
EXTENDS Integers, Sequences, SequencesExt

CONSTANTS
    Startup,  \* the steps of run() before its loops, in order
    Loops,    \* the tasks of the group
    Faults    \* which failures may happen

Search == "search"
Download == "download"

Resources == {"databases", "webui", "client", "download client", "port client"}
FaultKinds ==
    {"startup",  \* a step of the startup raises: a database, a refused password
     "death",    \* a loop raises what it does not catch: ApiAuthError, and the
                 \* OverflowError of a backoff (SearchCycle)
     "forced"}   \* a second signal

ASSUME SupervisionAssumption ==
    /\ Startup \in Seq(Resources \cup {"backfill"}) /\ IsInjective(Startup)
    /\ Loops \subseteq {Search, Download, "port"} /\ Search \in Loops
    /\ Faults \subseteq FaultKinds

VARIABLES
    \* The main task.
    phase,    \* "startup", "loops", "unwind" of the group, "close" of the stack, "ended"
    started,  \* the steps of the startup that are done
    stack,    \* the resources to close
    bound,    \* the shutdown timeout: "off", "armed", "fired"
    aborting, \* the group has cancelled its tasks by itself
    failed,   \* the startup or the group raised
    exit,     \* the exit code
    \* The loops.
    loop,     \* where each task is
    told,     \* the tasks that were cancelled and have not noticed yet
    wake,     \* _force_cycle, and the event of the download nudge
    resumed, shutdown, signals,
    \* History.
    owed,     \* a cycle was asked for since the last one began
    ran       \* a search cycle began since the gate was closed

main == <<phase, started, stack, bound, aborting, failed, exit>>
tasks == <<loop, told, wake>>
controls == <<resumed, shutdown, signals>>
vars == <<main, tasks, controls, owed, ran>>

Stages == {"none", "new", "gate", "cleared", "cycle", "sleep", "woken", "waking",
           "done", "raised", "dead"}
Over == {"none", "done", "dead"}
Live(l) == loop[l] \notin Over \cup {"raised"}
Wakers == {Search, Download} \cap Loops

Init ==
    /\ phase = "startup" /\ started = 0 /\ stack = <<>> /\ bound = "off"
    /\ aborting = FALSE /\ failed = FALSE /\ exit = -1
    /\ loop = [l \in Loops |-> "none"] /\ told = {} /\ wake = {}
    /\ resumed = TRUE /\ shutdown = FALSE /\ signals = 0
    /\ owed = {} /\ ran = FALSE

--------------------------------------------------------------------------------
(* The loops: _run_loop, download_loop, port_sync_loop.                      *)

Move(l, stage) == loop' = [loop EXCEPT ![l] = stage]

StartCycle(l) ==
    /\ Move(l, "cycle")
    /\ owed' = owed \ {l}
    /\ ran' = IF l = Search THEN ~resumed ELSE ran

\* The top of the while: the shutdown, then the pause gate of the search loop.
\* Variant to refute: the gate is not there.
TopUngated(l) ==
    \/ shutdown /\ Move(l, "done") /\ UNCHANGED <<owed, ran>>
    \/ ~shutdown /\ StartCycle(l)
Top(l) ==
    \/ shutdown /\ Move(l, "done") /\ UNCHANGED <<owed, ran>>
    \/ ~shutdown /\ l = Search /\ ~resumed /\ Move(l, "gate") /\ UNCHANGED <<owed, ran>>
    \/ ~shutdown /\ (l = Search => resumed) /\ StartCycle(l)

Begin(l) ==
    /\ loop[l] = "new" /\ l \notin told
    /\ Top(l)
    /\ UNCHANGED <<main, told, wake, controls>>

\* The gate was opened while the loop waited at it; it may be closed again by now.
PassGate ==
    /\ loop[Search] = "cleared" /\ Search \notin told
    /\ StartCycle(Search)
    /\ UNCHANGED <<main, told, wake, controls>>

\* The download loop looks at the shutdown before it sleeps.  The port loop sleeps within
\* its cycle, and looks at it at once when a re-check ends the cycle.
AfterCycle(l) ==
    \/ (l = Download => ~shutdown) /\ Move(l, "sleep")
    \/ l # Search /\ shutdown /\ Move(l, "done")

\* Variant to refute: the event is cleared before the wait.
CycleEndsClearing(l) ==
    /\ loop[l] = "cycle" /\ l \notin told
    /\ AfterCycle(l)
    /\ wake' = wake \ {l}
    /\ UNCHANGED <<main, told, controls, owed, ran>>
CycleEnds(l) ==
    /\ loop[l] = "cycle" /\ l \notin told
    /\ AfterCycle(l)
    /\ UNCHANGED <<main, told, wake, controls, owed, ran>>

\* The event ends the sleep; the wait of the nudge consumes it on the way.
EventWakes(l) ==
    /\ loop[l] = "sleep" /\ l \in wake /\ l \notin told
    /\ Move(l, "woken")
    /\ wake' = IF l = Download THEN wake \ {l} ELSE wake
    /\ UNCHANGED <<main, told, controls, owed, ran>>

\* The clock ends it.  The port loop then begins a cycle, or goes on with the one it
\* slept in: the re-check after a restart.
TimerWakes(l) ==
    /\ loop[l] = "sleep" /\ l \notin told
    /\ \/ l \in Wakers /\ Move(l, "woken") /\ UNCHANGED <<owed, ran>>
       \/ l \notin Wakers /\ Top(l)
       \/ l \notin Wakers /\ Move(l, "cycle") /\ UNCHANGED <<owed, ran>>
    /\ UNCHANGED <<main, told, wake, controls>>

\* _sleep_or_forced, _sleep_or_nudge: the finally, first as it cancels the loser and
\* awaits it, then as it goes on.  A cancellation that comes in between is taken for
\* the loser's, and suppressed.
CancelLoser(l) ==
    /\ loop[l] = "woken" /\ l \notin told
    /\ Move(l, "waking")
    /\ UNCHANGED <<main, told, wake, controls, owed, ran>>
Slept(l) ==
    /\ loop[l] = "waking"
    /\ told' = told \ {l}
    /\ wake' = wake \ ({l} \cap {Search})
    /\ Top(l)
    /\ UNCHANGED <<main, controls>>

\* Anywhere else it ends the task, at the await the task is in.  A task that never
\* took a step never does.
Cancelled(l) ==
    /\ l \in told /\ Live(l) /\ loop[l] # "waking"
    /\ Move(l, "done")
    /\ told' = told \ {l}
    /\ wake' = IF loop[l] \in {"sleep", "woken"} THEN wake \ ({l} \cap {Search}) ELSE wake
    /\ UNCHANGED <<main, controls, owed, ran>>

\* The search loop, which reads its index first, and the download loop let some errors
\* through; run_port_sync_cycle lets none.
Raises(l) ==
    /\ "death" \in Faults /\ l \in Wakers /\ l \notin told
    /\ loop[l] = "cycle" \/ (l = Search /\ loop[l] = "new")
    /\ Move(l, "raised")
    /\ UNCHANGED <<main, told, wake, controls, owed, ran>>

--------------------------------------------------------------------------------
(* The main task: run, _supervise, main.                                     *)

\* Variant to refute: a loop that waits at the gate is left there.
CancelRunning == told' = told \cup {l \in Loops : Live(l) /\ loop[l] # "gate"}
CancelAll == told' = told \cup {l \in Loops : Live(l)}

\* One step of the startup: a resource is on the stack before it is connected, the
\* databases after.
StartStep ==
    /\ phase = "startup" /\ started < Len(Startup)
    /\ LET step == Startup[started + 1]
           Push == IF step = "backfill" THEN stack ELSE Append(stack, step)
       IN  \/ started' = started + 1 /\ stack' = Push /\ UNCHANGED <<phase, failed>>
           \/ /\ "startup" \in Faults /\ step # "webui"
              /\ failed' = TRUE /\ phase' = "close"
              /\ stack' = IF step = "databases" THEN stack ELSE Push
              /\ UNCHANGED started
    /\ UNCHANGED <<bound, aborting, exit, tasks, controls, owed, ran>>

\* The tasks are created; none has run yet when the main task first waits.
CreateTasks ==
    /\ phase = "startup" /\ started = Len(Startup)
    /\ phase' = "loops" /\ loop' = [l \in Loops |-> "new"]
    /\ UNCHANGED <<started, stack, bound, aborting, failed, exit, told, wake, controls, owed, ran>>

\* Variant to refute: only the search loop is cancelled.
SeeShutdownOfSearch ==
    /\ phase = "loops" /\ shutdown
    /\ bound' = "armed" /\ phase' = "unwind"
    /\ told' = told \cup {l \in {Search} : Live(l)}
    /\ UNCHANGED <<started, stack, aborting, failed, exit, loop, wake, controls, owed, ran>>
SeeShutdown ==
    /\ phase = "loops" /\ shutdown
    /\ bound' = "armed" /\ phase' = "unwind"
    /\ CancelAll
    /\ UNCHANGED <<started, stack, aborting, failed, exit, loop, wake, controls, owed, ran>>

\* The group hears of a task that raised: it cancels the others and its parent, once.
Notice(l) ==
    /\ loop[l] = "raised" /\ Move(l, "dead")
    /\ failed' = TRUE /\ aborting' = TRUE
    /\ IF aborting THEN UNCHANGED told ELSE CancelAll
    /\ phase' = IF phase = "loops" THEN "unwind" ELSE phase
    /\ UNCHANGED <<started, stack, bound, exit, wake, controls, owed, ran>>

\* The group waits for every task, whatever cancels the main task meanwhile; what it
\* raises, if anything, leaves the timeout.
\* Variant to refute: a loop in its cycle is left behind.
GroupEndsEarly ==
    /\ phase = "unwind" /\ \A l \in Loops : loop[l] \in Over \cup {"cycle"}
    /\ phase' = "close"
    /\ bound' = IF failed \/ signals = 2 THEN "off" ELSE bound
    /\ UNCHANGED <<started, stack, aborting, failed, exit, tasks, controls, owed, ran>>
GroupEnds ==
    /\ phase = "unwind" /\ \A l \in Loops : loop[l] \in Over
    /\ phase' = "close"
    /\ bound' = IF failed \/ signals = 2 THEN "off" ELSE bound
    /\ UNCHANGED <<started, stack, aborting, failed, exit, tasks, controls, owed, ran>>

\* The deadline is far longer than the steps the event loop has ready.
Quick(l) ==
    \/ loop[l] \in {"new", "cleared", "woken", "waking", "raised"}
    \/ l \in told /\ loop[l] \in {"gate", "sleep"}
    \/ l \in wake /\ loop[l] = "sleep"

\* It cancels the tasks again, or the resource being closed; those left on the stack are
\* closed all the same.
BoundFires ==
    /\ bound = "armed" /\ bound' = "fired"
    /\ \/ /\ phase = "unwind" /\ \E l \in Loops : loop[l] \notin Over
          /\ \A l \in Loops : ~Quick(l)
          /\ aborting' = TRUE /\ (IF aborting THEN UNCHANGED told ELSE CancelAll)
          /\ UNCHANGED stack
       \/ /\ phase = "close" /\ stack # <<>>
          /\ stack' = Front(stack) /\ UNCHANGED <<aborting, told>>
    /\ UNCHANGED <<phase, started, failed, exit, loop, wake, controls, owed, ran>>

CloseOne ==
    /\ phase = "close" /\ stack # <<>>
    /\ stack' = Front(stack)
    /\ UNCHANGED <<phase, started, bound, aborting, failed, exit, tasks, controls, owed, ran>>

\* main(): an exception group or a forced exit is an error, the bound is not.
\* Variant to refute: the bound is taken for an error.
ExitCodeOfBound == IF failed \/ signals = 2 \/ bound = "fired" THEN 1 ELSE 0
ExitCode == IF failed \/ signals = 2 THEN 1 ELSE 0

End ==
    /\ phase = "close" /\ stack = <<>>
    /\ phase' = "ended" /\ exit' = ExitCode
    /\ UNCHANGED <<started, stack, bound, aborting, failed, tasks, controls, owed, ran>>

--------------------------------------------------------------------------------
(* The operator and the web thread, by callbacks on the event loop.          *)

\* _on_signal: the first asks; the second raises SystemExit, upon which asyncio cancels
\* every task, the main one included, and runs them to their end.
Signal ==
    /\ phase # "ended"
    /\ \/ /\ signals = 0 /\ signals' = 1 /\ shutdown' = TRUE
          /\ UNCHANGED <<phase, aborting, told, stack>>
       \/ /\ "forced" \in Faults /\ signals = 1 /\ signals' = 2
          /\ phase' = CASE phase = "startup" -> "close" [] phase = "loops" -> "unwind"
                        [] OTHER -> phase
          /\ CancelAll
          /\ aborting' = (aborting \/ phase \in {"loops", "unwind"})
          /\ stack' = IF phase = "close" /\ stack # <<>> THEN Front(stack) ELSE stack
          /\ UNCHANGED shutdown
    /\ UNCHANGED <<started, bound, failed, exit, loop, wake, resumed, owed, ran>>

Served == "webui" \in ToSet(stack)

ForceCycle ==
    /\ Served
    /\ wake' = wake \cup {Search} /\ owed' = owed \cup {Search}
    /\ UNCHANGED <<main, loop, told, controls, ran>>

Pause ==
    /\ Served /\ resumed
    /\ resumed' = FALSE /\ ran' = FALSE
    /\ UNCHANGED <<main, tasks, shutdown, signals, owed>>

\* It wakes a loop that waits at the gate.
Resume ==
    /\ Served /\ ~resumed
    /\ resumed' = TRUE /\ ran' = FALSE
    /\ loop' = IF loop[Search] = "gate" THEN [loop EXCEPT ![Search] = "cleared"] ELSE loop
    /\ UNCHANGED <<main, told, wake, shutdown, signals, owed>>

RestartIntent ==
    /\ Served
    /\ shutdown' = TRUE
    /\ UNCHANGED <<main, tasks, resumed, signals, owed, ran>>

\* A download decision was committed, by the backfill or by a search cycle.
Nudge ==
    /\ Download \in Loops
    /\ \/ loop[Search] = "cycle"
       \/ phase = "startup" /\ started < Len(Startup) /\ Startup[started + 1] = "backfill"
    /\ wake' = wake \cup {Download} /\ owed' = owed \cup {Download}
    /\ UNCHANGED <<main, loop, told, controls, ran>>

--------------------------------------------------------------------------------

Step(l) ==
    \/ Begin(l) \/ CycleEnds(l) \/ EventWakes(l) \/ TimerWakes(l)
    \/ CancelLoser(l) \/ Slept(l) \/ Cancelled(l) \/ Notice(l)
    \/ l = Search /\ PassGate

MainStep == StartStep \/ CreateTasks \/ SeeShutdown \/ GroupEnds \/ CloseOne \/ End

Next ==
    \/ MainStep \/ BoundFires
    \/ \E l \in Loops : Step(l) \/ Raises(l)
    \/ Signal \/ ForceCycle \/ Pause \/ Resume \/ RestartIntent \/ Nudge

Spec == Init /\ [][Next]_vars

\* The event loop runs what is ready; sleeps, cycles and the close of a resource end.
Fairness == WF_vars(MainStep) /\ \A l \in Loops : WF_vars(Step(l))

FairSpec == Spec /\ Fairness

--------------------------------------------------------------------------------
(* Properties.                                                               *)

\* The resources on the stack are those of the startup so far, in its order, without a gap.
Later(r, q) == \E k, l \in DOMAIN Startup : k < l /\ Startup[k] = q /\ Startup[l] = r
StackOK ==
    /\ stack \in Seq(Resources)
    /\ \A i \in DOMAIN stack : \E k \in DOMAIN Startup : k <= started + 1 /\ stack[i] = Startup[k]
    /\ \A i, j \in DOMAIN stack : i < j => Later(stack[j], stack[i])
    /\ \A i \in DOMAIN stack, q \in Resources : Later(stack[i], q) => \E j \in DOMAIN stack : stack[j] = q

\* What each phase implies for the tasks and the bound.
PhaseOK ==
    /\ phase \in {"startup", "loops", "unwind", "close", "ended"}
    /\ started \in 0 .. Len(Startup) /\ exit \in -1 .. 1
    /\ bound \in {"off", "armed", "fired"} /\ {aborting, failed, resumed, shutdown, ran} \subseteq BOOLEAN
    /\ loop \in [Loops -> Stages] /\ {wake, owed} \subseteq SUBSET Wakers
    /\ signals \in 0 .. 2 /\ (signals > 0 => shutdown)
    /\ told \subseteq {l \in Loops : Live(l)}
    /\ phase = "startup" => \A l \in Loops : loop[l] = "none"
    /\ phase \in {"close", "ended"} => \A l \in Loops : loop[l] \in Over
    /\ bound # "off" => shutdown
    /\ (phase = "ended") <=> (exit # -1)

\* The type invariant, of the phases and of the stack.
TypeOK == PhaseOK /\ StackOK

\* A forced cycle, or a download decision, never waits for the clock: whenever it came,
\* before the wait, during it or as it ended, the loop does not sleep on with a cycle
\* owed (crawler_control_loop.py: "Interrupt the inter-cycle sleep so the next search
\* cycle starts immediately").
AskedIsPrompt == \A l \in owed : loop[l] = "sleep" => l \in wake

\* After a pause the search loop begins at most one more cycle, the one whose gate had
\* just been opened, and then idles until it is resumed (pause: "the current cycle
\* finishes, then the crawler idles").
OneCyclePerPause == [][loop[Search] # "cycle" /\ loop'[Search] = "cycle" => resumed \/ ~ran]_vars

\* The deadline cuts a cycle or a close that drags, never a loop that is only asleep or
\* paused (_supervise: "a routine Ctrl-C would then force the exit instead of a clean
\* shutdown. So we cancel the ENTIRE set of created tasks").
BoundIsForTheSlow ==
    [][bound = "armed" /\ bound' = "fired" => \A l \in Loops : loop[l] \notin {"gate", "sleep"}]_vars

\* The exit code tells s6 the truth: 0 only when somebody asked for the end and no loop
\* died on the way, and, when nothing failed, 0 even though the bound had to fire
\* (main: "THE EXIT CODE IS A SUPERVISION CONTRACT").
ExitTellsWhy ==
    /\ exit = 0 => shutdown /\ started = Len(Startup) /\ \A l \in Loops : loop[l] = "done"
    /\ exit = 1 => signals = 2 \/ started < Len(Startup) \/ \E l \in Loops : loop[l] = "dead"

\* Once the end is asked for and no loop has died, the process ends, from every stage of
\* the startup, of the loops and of a pause.
ShutdownEnds ==
    (shutdown /\ \A l \in Loops : loop[l] \notin {"raised", "dead"}) ~> phase = "ended"

\* A loop that dies takes the process with it (_supervise: "A real worker exception,
\* however, would propagate as an ExceptionGroup - we don't mask it").
DeadLoopEndsProcess == \A l \in Loops : loop[l] = "raised" ~> phase = "ended"

================================================================================
