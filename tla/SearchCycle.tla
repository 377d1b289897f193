------------------------------ MODULE SearchCycle ------------------------------
(***************************************************************************)
(* The search cycle: run_search_cycle.py fills a LIFO queue with one task  *)
(* per keyword and channel, the workers of search_worker.py drain it, and  *)
(* the loop of composition/app.py runs one cycle after the other.          *)
(*                                                                         *)
(*   gate --Begin--> drain --Join--> leaving --Gather--> save --> backoff  *)
(*        --> gate                                                         *)
(*                                                                         *)
(* A step boundary is an await of a worker; between two of them a worker   *)
(* runs alone, so taking a task, judging it and putting it back is one     *)
(* step.  Each worker drives one amuled.  The registry of backoffs is      *)
(* shared; it reaches the database only when a cycle ends.                 *)
(***************************************************************************)
EXTENDS Integers, FiniteSets, Sequences, SequencesExt

CONSTANTS
    Worker,    \* the amuled instances, one worker each
    Keyword,   \* search.keywords
    Delay,     \* the backoff after the 1st, 2nd, ... consecutive failure, in ticks;
               \* its last element is the cap
    Faults     \* which failures may happen

FaultKinds ==
    {"down",     \* an amuled goes down and comes back
     "lost",     \* a call to a running amuled gets no answer
     "lowid",    \* a running amuled has neither a High-ID nor Kad
     "refused",  \* amuled refuses a search: MuleSearchFailedError
     "repo",     \* RepositoryError when a cycle is saved
     "crash"}    \* the process stops, or is told to

Channel == {"global", "kad"}
Task == Keyword \X Channel

\* The registry is keyed by instance and by instance and channel.
Key == Worker \cup (Worker \X Channel)

ASSUME SearchCycleAssumption ==
    /\ IsFiniteSet(Worker) /\ Worker # {}
    /\ Worker \cap (Worker \X Channel) = {}
    /\ IsFiniteSet(Keyword)
    /\ Delay \in Seq(Nat \ {0}) /\ Delay # <<>>
    /\ Faults \subseteq FaultKinds

VARIABLES
    phase,      \* where the cycle is
    queue,      \* asyncio.LifoQueue, the last element is the next one taken
    unfinished, \* its count of items put and not yet marked done
    at,         \* where each worker is
    hand,       \* the task each worker is running
    spaced,     \* history: the worker has not searched since it last slept a pause
    ended,      \* history: the tasks of this cycle that were run or dropped
    dropped,    \* history: those of them that were dropped (SearchTaskDropped)
    connected,  \* SearchWorker._connected
    session,    \* the client of the worker holds an HTTP session
    backoff,    \* the shared BackoffRegistry
    saved,      \* local.db: the registry as last saved
    unsaved,    \* the cycle index of the loop minus the one in local.db
    blind,      \* the EdgeState condition "coverage_blind"
    up          \* the amuled of each worker answers

cycle == <<phase, queue, unfinished, ended, dropped>>
workers == <<at, hand, spaced, connected, session>>
store == <<saved, unsaved>>
vars == <<cycle, workers, backoff, store, blind, up>>

NoTask == <<>>
Entry(t, skippers) == [task |-> t, skipped_by |-> skippers]
Sentinel == Entry(NoTask, {})

Phases == {"gate", "drain", "leaving", "save", "backoff", "down"}
Steps == {"get", "yield", "connect", "search", "pause", "left"}

--------------------------------------------------------------------------------
(* The backoff registry: how often a key has failed, and how long it waits.  *)

Clear == [attempts |-> 0, wait |-> 0]
Lowest(a, b) == IF a < b THEN a ELSE b

\* Variant to refute: a key is in backoff for as long as it is in the map.
IsInBackoffWhileKnown(k) == backoff[k].attempts > 0
IsInBackoff(k) == backoff[k].wait > 0

\* attempts is counted up to the failure that reaches the cap, which stands for every
\* later one as well.  The code counts on: backoff_delay caps the power only after it
\* has computed it, so one of those later failures raises OverflowError instead.
Failed(b) ==
    LET attempts == Lowest(b.attempts + 1, Len(Delay))
    IN  [attempts |-> attempts, wait |-> Delay[attempts]]
AtCap(k) == backoff[k].attempts = Len(Delay)
RecordFailure(k) == backoff' = [backoff EXCEPT ![k] = Failed(@)]
Reset(k) == backoff' = [backoff EXCEPT ![k] = Clear]

Blocked(w, c) == IsInBackoff(w) \/ IsInBackoff(<<w, c>>)

--------------------------------------------------------------------------------

\* Composition connects each client once and tolerates the ones it cannot reach.
Unanswered(w) == ~up[w] \/ "lost" \in Faults
Wired(s) == \A w \in Worker : IF w \in s THEN up[w] ELSE Unanswered(w)

Init ==
    /\ phase = "gate" /\ queue = <<>> /\ unfinished = 0
    /\ ended = {} /\ dropped = {}
    /\ at = [w \in Worker |-> "left"] /\ hand = [w \in Worker |-> NoTask]
    /\ spaced = [w \in Worker |-> TRUE]
    /\ connected = [w \in Worker |-> FALSE]
    /\ up \in [Worker -> BOOLEAN]
    /\ \E s \in SUBSET Worker : Wired(s) /\ session = [w \in Worker |-> w \in s]
    /\ backoff = [k \in Key |-> Clear] /\ saved = backoff
    /\ unsaved = 0 /\ blind = FALSE

\* Coverage is read first, with a call per client: an instance without a session counts as incapable.
\* Then the keywords in the order of the seed, each on both channels.
\* Variant to refute: the alert is entered but never left.
BlindForGood(capable) == blind \/ capable = {}
Blind(capable) == capable = {}

Reachable == {w \in Worker : up[w] /\ session[w]}
Filled(order) ==
    [i \in 1 .. 2 * Len(order) |->
        Entry(<<order[(i + 1) \div 2], IF i % 2 = 1 THEN "global" ELSE "kad">>, {})]

Begin ==
    /\ phase = "gate"
    /\ phase' = "drain"
    /\ \E order \in SetToSeqs(Keyword) : queue' = Filled(order)
    /\ unfinished' = Len(queue')
    /\ ended' = {} /\ dropped' = {}
    /\ at' = [w \in Worker |-> "get"] /\ spaced' = [w \in Worker |-> TRUE]
    /\ \E capable \in SUBSET Reachable :
            /\ {"lost", "lowid"} \cap Faults = {} => capable = Reachable
            /\ blind' = Blind(capable)
    /\ UNCHANGED <<hand, connected, session, backoff, store, up>>

--------------------------------------------------------------------------------
(* A worker: one disjunct per way on from an item it takes.                  *)

Goto(w, s) == at' = [at EXCEPT ![w] = s]

Takes(w) == at[w] = "get" /\ queue # <<>>
TakesTask(w) == Takes(w) /\ Last(queue) # Sentinel
Top == Last(queue)
Refusers(w) == Top.skipped_by \cup {w}

\* The sentinel: task_done, and the worker returns.
Leave(w) ==
    /\ Takes(w) /\ Last(queue) = Sentinel
    /\ queue' = Front(queue) /\ unfinished' = unfinished - 1
    /\ Goto(w, "left")
    /\ UNCHANGED <<phase, ended, dropped, hand, spaced, connected, session, backoff,
                   store, blind, up>>

\* Variant to refute: the blocked worker takes the task and does not put it back.
HandBackForgotten(w) ==
    /\ TakesTask(w) /\ Blocked(w, Top.task[2])
    /\ Cardinality(Refusers(w)) < Cardinality(Worker)
    /\ queue' = Front(queue)
    /\ Goto(w, "yield")
    /\ UNCHANGED <<phase, unfinished, ended, dropped, hand, spaced, connected, session,
                   backoff, store, blind, up>>

\* Blocked, and a peer may still take it: back on top, then yield to the peers.
HandBack(w) ==
    /\ TakesTask(w) /\ Blocked(w, Top.task[2])
    /\ Cardinality(Refusers(w)) < Cardinality(Worker)
    /\ queue' = Append(Front(queue), Entry(Top.task, Refusers(w)))
    /\ unfinished' = unfinished + 1
    /\ Goto(w, "yield")
    /\ UNCHANGED <<phase, ended, dropped, hand, spaced, connected, session, backoff,
                   store, blind, up>>

\* Variant to refute: the first worker that is blocked drops the task.
DropAtFirstRefusal(w) ==
    /\ TakesTask(w) /\ Blocked(w, Top.task[2])
    /\ queue' = Front(queue) /\ unfinished' = unfinished - 1
    /\ ended' = ended \cup {Top.task} /\ dropped' = dropped \cup {Top.task}
    /\ UNCHANGED <<phase, workers, backoff, store, blind, up>>

\* Blocked, and every worker has refused it by now.
Drop(w) ==
    /\ TakesTask(w) /\ Blocked(w, Top.task[2])
    /\ Cardinality(Refusers(w)) >= Cardinality(Worker)
    /\ queue' = Front(queue) /\ unfinished' = unfinished - 1
    /\ ended' = ended \cup {Top.task} /\ dropped' = dropped \cup {Top.task}
    /\ UNCHANGED <<phase, workers, backoff, store, blind, up>>

\* run_task: connect() does nothing when the client already has a session.
Run(w) ==
    /\ TakesTask(w) /\ ~Blocked(w, Top.task[2])
    /\ queue' = Front(queue)
    /\ hand' = [hand EXCEPT ![w] = Top.task]
    /\ \/ /\ connected[w]
          /\ Goto(w, "search") /\ spaced' = [spaced EXCEPT ![w] = FALSE]
          /\ UNCHANGED <<connected, backoff>>
       \/ /\ ~connected[w] /\ session[w]
          /\ Goto(w, "search") /\ spaced' = [spaced EXCEPT ![w] = FALSE]
          /\ connected' = [connected EXCEPT ![w] = TRUE]
          /\ Reset(w)
       \/ /\ ~connected[w] /\ ~session[w]
          /\ Goto(w, "connect")
          /\ UNCHANGED <<spaced, connected, backoff>>
    /\ UNCHANGED <<phase, unfinished, ended, dropped, session, store, blind, up>>

\* Variant to refute: no pause before the last item of the queue.
FinishHasty(w) ==
    /\ hand' = [hand EXCEPT ![w] = NoTask]
    /\ ended' = ended \cup {hand[w]}
    /\ IF Len(queue) > 1
       THEN Goto(w, "pause") /\ UNCHANGED unfinished
       ELSE Goto(w, "get") /\ unfinished' = unfinished - 1
    /\ UNCHANGED <<phase, queue, dropped, store, blind, up>>

\* The task is over for this cycle, whatever became of it.  The pause comes
\* before the next item, and not at all when the queue is empty.
Finish(w) ==
    /\ hand' = [hand EXCEPT ![w] = NoTask]
    /\ ended' = ended \cup {hand[w]}
    /\ IF queue # <<>>
       THEN Goto(w, "pause") /\ UNCHANGED unfinished
       ELSE Goto(w, "get") /\ unfinished' = unfinished - 1
    /\ UNCHANGED <<phase, queue, dropped, store, blind, up>>

ConnectOk(w) ==
    /\ at[w] = "connect" /\ up[w]
    /\ Goto(w, "search") /\ spaced' = [spaced EXCEPT ![w] = FALSE]
    /\ connected' = [connected EXCEPT ![w] = TRUE]
    /\ session' = [session EXCEPT ![w] = TRUE]
    /\ Reset(w)
    /\ UNCHANGED <<cycle, hand, store, blind, up>>

ConnectFails(w) ==
    /\ at[w] = "connect" /\ Unanswered(w)
    /\ RecordFailure(w)
    /\ Finish(w)
    /\ UNCHANGED <<spaced, connected, session>>

\* start_search, the polls and the results, recorded one by one.
SearchOk(w) ==
    /\ at[w] = "search" /\ up[w]
    /\ Reset(<<w, hand[w][2]>>)
    /\ Finish(w)
    /\ UNCHANGED <<spaced, connected, session>>

SearchRefused(w) ==
    /\ "refused" \in Faults
    /\ at[w] = "search" /\ up[w]
    /\ RecordFailure(<<w, hand[w][2]>>)
    /\ Finish(w)
    /\ UNCHANGED <<spaced, connected, session>>

SearchUnreachable(w) ==
    /\ at[w] = "search" /\ Unanswered(w)
    /\ connected' = [connected EXCEPT ![w] = FALSE]
    /\ RecordFailure(w)
    /\ Finish(w)
    /\ UNCHANGED <<spaced, session>>

\* Variant to refute: an item that was put back is not marked done.
ResumeUncounted(w) ==
    /\ at[w] \in {"pause", "yield"}
    /\ Goto(w, "get") /\ unfinished' = IF at[w] = "pause" THEN unfinished - 1 ELSE unfinished
    /\ spaced' = [spaced EXCEPT ![w] = @ \/ at[w] = "pause"]
    /\ UNCHANGED <<phase, queue, ended, dropped, hand, connected, session, backoff,
                   store, blind, up>>

\* task_done, after the pause or the yield.
Resume(w) ==
    /\ at[w] \in {"pause", "yield"}
    /\ Goto(w, "get") /\ unfinished' = unfinished - 1
    /\ spaced' = [spaced EXCEPT ![w] = @ \/ at[w] = "pause"]
    /\ UNCHANGED <<phase, queue, ended, dropped, hand, connected, session, backoff,
                   store, blind, up>>

\* The process ends, with everything it has not saved.
Stops ==
    /\ phase' = "down" /\ queue' = <<>> /\ unfinished' = 0 /\ ended' = {} /\ dropped' = {}
    /\ at' = [v \in Worker |-> "left"] /\ hand' = [v \in Worker |-> NoTask]
    /\ spaced' = [v \in Worker |-> TRUE]
    /\ connected' = [v \in Worker |-> FALSE] /\ session' = connected'
    /\ backoff' = [k \in Key |-> Clear]
    /\ unsaved' = 0 /\ blind' = FALSE
    /\ UNCHANGED <<saved, up>>

\* One failure too many for a float: nothing catches the OverflowError, and the task
\* groups it unwinds take the other workers and the other loops with it.
Overflows(w) ==
    /\ \/ at[w] \in {"connect", "search"} /\ Unanswered(w) /\ AtCap(w)
       \/ at[w] = "search" /\ "refused" \in Faults /\ up[w] /\ AtCap(<<w, hand[w][2]>>)
    /\ Stops

Work(w) ==
    \/ Leave(w) \/ HandBack(w) \/ Drop(w) \/ Run(w) \/ ConnectOk(w) \/ ConnectFails(w)
    \/ SearchOk(w) \/ SearchRefused(w) \/ SearchUnreachable(w) \/ Resume(w)
    \/ Overflows(w)

--------------------------------------------------------------------------------
(* The end of the cycle: two transactions, either of which may fail.         *)

\* Variant to refute: the sentinels go out as soon as the queue is empty.
JoinOnEmpty ==
    /\ phase = "drain" /\ queue = <<>>
    /\ phase' = "leaving"
    /\ queue' = queue \o [i \in 1 .. Cardinality(Worker) |-> Sentinel]
    /\ unfinished' = unfinished + Cardinality(Worker)
    /\ UNCHANGED <<ended, dropped, workers, backoff, store, blind, up>>

Join ==
    /\ phase = "drain" /\ unfinished = 0
    /\ phase' = "leaving"
    /\ queue' = queue \o [i \in 1 .. Cardinality(Worker) |-> Sentinel]
    /\ unfinished' = unfinished + Cardinality(Worker)
    /\ UNCHANGED <<ended, dropped, workers, backoff, store, blind, up>>

Gather ==
    /\ phase = "leaving" /\ \A w \in Worker : at[w] = "left"
    /\ phase' = "save"
    /\ UNCHANGED <<queue, unfinished, ended, dropped, workers, backoff, store, blind, up>>

\* The loop adds one to its own index in any case.
WriteCycleState ==
    /\ phase = "save"
    /\ \/ phase' = "backoff" /\ unsaved' = 0
       \/ "repo" \in Faults /\ phase' = "gate" /\ unsaved' = Lowest(unsaved + 1, 2)
    /\ UNCHANGED <<queue, unfinished, ended, dropped, workers, backoff, saved, blind, up>>

SaveChannelBackoff ==
    /\ phase = "backoff"
    /\ phase' = "gate"
    /\ \/ saved' = backoff
       \/ "repo" \in Faults /\ UNCHANGED saved
    /\ UNCHANGED <<queue, unfinished, ended, dropped, workers, backoff, unsaved, blind, up>>

Crash == "crash" \in Faults /\ phase # "down" /\ Stops

\* Wiring loads the registry and connects each client once, whatever comes of it.
Boot ==
    /\ phase = "down"
    /\ phase' = "gate"
    /\ backoff' = saved
    /\ \E s \in SUBSET Worker : Wired(s) /\ session' = [w \in Worker |-> w \in s]
    /\ UNCHANGED <<queue, unfinished, ended, dropped, at, hand, spaced, connected, store,
                   blind, up>>

--------------------------------------------------------------------------------
(* Time and the daemons.                                                     *)

Aged(b) == [b EXCEPT !.wait = IF @ > 0 THEN @ - 1 ELSE 0]
Tick ==
    /\ backoff' = [k \in Key |-> Aged(backoff[k])]
    /\ saved' = [k \in Key |-> Aged(saved[k])]
    /\ UNCHANGED <<cycle, workers, unsaved, blind, up>>

Switch(w) ==
    /\ "down" \in Faults
    /\ up' = [up EXCEPT ![w] = ~@]
    /\ UNCHANGED <<cycle, workers, backoff, store, blind>>

Loop == Begin \/ Join \/ Gather \/ WriteCycleState \/ SaveChannelBackoff \/ Boot

Next == Loop \/ Crash \/ Tick \/ \E w \in Worker : Work(w) \/ Switch(w)

Spec == Init /\ [][Next]_vars

--------------------------------------------------------------------------------
(* Fairness.  Every await of a worker ends, every ready task of the event    *)
(* loop gets its turn, time passes, and the process is stopped from outside  *)
(* only so many times: from then on only an overflow stops it.               *)

Fairness ==
    /\ <>[][Crash => \E w \in Worker : Overflows(w)]_vars
    /\ WF_vars(Loop) /\ WF_vars(Tick)
    /\ \A w \in Worker : WF_vars(Work(w))

FairSpec == Spec /\ Fairness

--------------------------------------------------------------------------------
(* Properties.                                                               *)

\* The type invariant.
TypeOK ==
    /\ phase \in Phases
    /\ queue \in Seq([task : Task \cup {NoTask}, skipped_by : SUBSET Worker])
    /\ unfinished \in Nat
    /\ ended \subseteq Task /\ dropped \subseteq ended
    /\ at \in [Worker -> Steps] /\ hand \in [Worker -> Task \cup {NoTask}]
    /\ \A w \in Worker : at[w] \in {"connect", "search"} <=> hand[w] # NoTask
    /\ spaced \in [Worker -> BOOLEAN]
    /\ connected \in [Worker -> BOOLEAN] /\ session \in [Worker -> BOOLEAN]
    /\ backoff \in [Key -> [attempts : 0 .. Len(Delay), wait : Nat]]
    /\ saved \in [Key -> [attempts : 0 .. Len(Delay), wait : Nat]]
    /\ unsaved \in 0 .. 2
    /\ blind \in BOOLEAN /\ up \in [Worker -> BOOLEAN]

\* No loss and no double run: during a cycle each task is in the queue, in the
\* hands of one worker, or over, and in one of these places only.
Places(t) ==
    {<<"queue", i>> : i \in {j \in DOMAIN queue : queue[j].task = t}}
    \cup {<<"hand", w>> : w \in {v \in Worker : hand[v] = t}}
    \cup {<<"ended", 0>> : e \in ended \cap {t}}
EachTaskOnce ==
    phase \in {"drain", "leaving", "save"} => \A t \in Task : Cardinality(Places(t)) = 1

\* A worker leaves only when no task is left that a peer could hand to it.
LeavesLast == (\E w \in Worker : at[w] = "left") /\ phase \in {"drain", "leaving"} => ended = Task

\* Between two searches of one worker in a cycle there is always a pause: a
\* worker that finds the queue empty after its item skips the pause and will
\* get no other one.
Searches(w) == at[w] # "search" /\ at'[w] = "search"
SearchesAreSpaced == [][\A w \in Worker : Searches(w) => spaced[w]]_vars

\* A task is dropped only when no worker could have run it: one with no failure
\* on record keeps every task of the channel from being dropped.
Spotless(w, c) == backoff[w] = Clear /\ backoff[<<w, c>>] = Clear
DropIsUnanimous ==
    [][\A t \in Task : t \in dropped' \ dropped => \A w \in Worker : ~Spotless(w, t[2])]_vars

\* Every cycle that begins ends, spinning workers or not.
CycleEnds == phase = "drain" ~> phase \in {"gate", "down"}

\* A channel or an instance is never written off: once amuled answers again and
\* refuses nothing, every task is put to it again and again, also when an overflow
\* stopped the process and the registry was reloaded one failure away from the next.
Disappointed ==
    \E w \in Worker : ConnectFails(w) \/ SearchRefused(w) \/ SearchUnreachable(w) \/ Overflows(w)
EveryTaskComesAgain ==
    <>[][~Disappointed]_vars =>
        \A t \in Task : []<>(\E w \in Worker : at[w] = "search" /\ hand[w] = t)

\* The blind alert ends once the instances can search again, although the readout
\* never connects a client and waits for a worker to do it.
BlindEnds == (\A w \in Worker : <>[]up[w]) => <>[](~blind)

================================================================================
