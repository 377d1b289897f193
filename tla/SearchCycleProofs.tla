--------------------------- MODULE SearchCycleProofs ---------------------------
(***************************************************************************)
(* Theorems about the search cycle, for any workers, keywords, delays and  *)
(* faults.                                                                 *)
(***************************************************************************)
EXTENDS SearchCycle, FiniteSetTheorems, SequenceTheorems, TLAPS

--------------------------------------------------------------------------------
(* What the operations on the queue do to it.                                *)

LEMMA FrontFacts ==
    ASSUME NEW S, NEW s \in Seq(S), s # <<>>
    PROVE  /\ Len(s) \in Nat \ {0} /\ Last(s) \in S
           /\ Front(s) \in Seq(S) /\ Len(Front(s)) = Len(s) - 1
           /\ \A i \in 1 .. Len(s) - 1 : Front(s)[i] = s[i]
  <1>1. Len(s) \in Nat \ {0}
    BY EmptySeq
  <1>2. \A i \in 1 .. Len(s) : s[i] \in S
    BY ElementOfSeq
  <1>3. Last(s) \in S
    BY <1>1, <1>2 DEF Last
  <1>4. /\ SubSeq(s, 1, Len(s) - 1) \in Seq(S)
        /\ Len(SubSeq(s, 1, Len(s) - 1))
               = IF 1 <= Len(s) - 1 THEN Len(s) - 1 - 1 + 1 ELSE 0
        /\ \A i \in 1 .. Len(s) - 1 - 1 + 1 : SubSeq(s, 1, Len(s) - 1)[i] = s[1 + i - 1]
    <2>1. 1 \in Int /\ Len(s) - 1 \in Int
      BY <1>1
    <2>2. \A i \in 1 .. Len(s) - 1 : s[i] \in S
      BY <1>1, <1>2
    <2>3. QED
      BY <2>1, <2>2, SubSeqProperties
  <1>5. /\ Front(s) = SubSeq(s, 1, Len(s) - 1)
        /\ (IF 1 <= Len(s) - 1 THEN Len(s) - 1 - 1 + 1 ELSE 0) = Len(s) - 1
        /\ Len(s) - 1 - 1 + 1 = Len(s) - 1
    BY <1>1 DEF Front
  <1>6. Front(s) \in Seq(S) /\ Len(Front(s)) = Len(s) - 1
    BY <1>4, <1>5
  <1>7. \A i \in 1 .. Len(s) - 1 : Front(s)[i] = s[i]
    <2>1. ASSUME NEW i \in 1 .. Len(s) - 1
          PROVE  Front(s)[i] = s[i]
      <3>1. SubSeq(s, 1, Len(s) - 1)[i] = s[1 + i - 1] /\ 1 + i - 1 = i
        BY <1>1, <1>4, <1>5, <2>1
      <3>2. QED
        BY <3>1, <1>5
    <2>2. QED
      BY <2>1
  <1>8. QED
    BY <1>1, <1>3, <1>6, <1>7

--------------------------------------------------------------------------------
(* The types.                                                                *)

Item == [task : Task \cup {NoTask}, skipped_by : SUBSET Worker]

LEMMA NoTaskIsNoTask == NoTask \notin Task
  BY DEF NoTask, Task

LEMMA SentinelType ==
    /\ Sentinel \in Item /\ Sentinel.task = NoTask
    /\ \A t \in Task, v \in SUBSET Worker :
          Entry(t, v) \in Item /\ Entry(t, v).task = t /\ Entry(t, v).skipped_by = v
  BY DEF Sentinel, Entry, Item

LEMMA DelayFacts ==
    /\ Len(Delay) \in Nat \ {0}
    /\ \A i \in 1 .. Len(Delay) : Delay[i] \in Nat \ {0}
  BY SearchCycleAssumption, EmptySeq, ElementOfSeq

Failure == [attempts : 0 .. Len(Delay), wait : Nat]

\* TypeOK by groups of variables, without the count of unfinished items.
QueueType ==
    /\ phase \in Phases /\ queue \in Seq(Item)
    /\ ended \subseteq Task /\ dropped \subseteq ended
WorkerType ==
    /\ at \in [Worker -> Steps] /\ hand \in [Worker -> Task \cup {NoTask}]
    /\ \A w \in Worker : at[w] \in {"connect", "search"} <=> hand[w] # NoTask
ClientType ==
    /\ spaced \in [Worker -> BOOLEAN]
    /\ connected \in [Worker -> BOOLEAN] /\ session \in [Worker -> BOOLEAN]
StoreType ==
    /\ backoff \in [Key -> Failure] /\ saved \in [Key -> Failure]
    /\ unsaved \in 0 .. 2
    /\ blind \in BOOLEAN /\ up \in [Worker -> BOOLEAN]
TypeInv == QueueType /\ WorkerType /\ ClientType /\ StoreType

\* The count asyncio keeps: one for each item in the queue, and one for each
\* worker that has taken an item and not yet marked it done.
Busy == {w \in Worker : at[w] \notin {"get", "left"}}
Accounted == unfinished = Len(queue) + Cardinality(Busy)

LEMMA TypeFromInv == TypeInv /\ Accounted => TypeOK
  <1> SUFFICES ASSUME TypeInv, Accounted PROVE TypeOK
    OBVIOUS
  <1>1. Len(queue) \in Nat
    BY DEF TypeInv, QueueType
  <1>2. Cardinality(Busy) \in Nat
    <2>1. Busy \in SUBSET Worker /\ IsFiniteSet(Worker)
      BY SearchCycleAssumption DEF Busy
    <2>2. IsFiniteSet(Busy)
      BY <2>1, FS_Subset
    <2>3. QED
      BY <2>2, FS_CardinalityType
  <1>3. unfinished \in Nat
    BY <1>1, <1>2 DEF Accounted
  <1>4. QED
    BY <1>3 DEF TypeOK, TypeInv, QueueType, WorkerType, ClientType, StoreType, Item, Failure

--------------------------------------------------------------------------------
(* The registry of backoffs.                                                 *)

LEMMA RegistryStep ==
    ASSUME backoff \in [Key -> Failure], NEW k \in Key, Reset(k) \/ RecordFailure(k)
    PROVE  backoff' \in [Key -> Failure]
  <1>1. Clear \in Failure
    BY DelayFacts DEF Clear, Failure
  <1>2. ASSUME NEW b \in Failure PROVE Failed(b) \in Failure
    <2> DEFINE n == Lowest(b.attempts + 1, Len(Delay))
    <2>1. b.attempts \in Nat /\ Len(Delay) \in Nat \ {0}
      BY DelayFacts, <1>2 DEF Failure
    <2>2. n \in 1 .. Len(Delay)
      BY <2>1 DEF Lowest
    <2>3. Delay[n] \in Nat
      BY <2>2, DelayFacts
    <2>4. Failed(b) = [attempts |-> n, wait |-> Delay[n]]
      BY DEF Failed
    <2>5. n \in 0 .. Len(Delay)
      BY <2>1, <2>2
    <2> HIDE DEF n
    <2>6. QED
      BY <2>3, <2>4, <2>5 DEF Failure
  <1>3. backoff[k] \in Failure
    OBVIOUS
  <1>4. Failed(backoff[k]) \in Failure
    BY <1>2, <1>3
  <1>5. CASE Reset(k)
    BY <1>1, <1>5 DEF Reset
  <1>6. CASE RecordFailure(k)
    BY <1>4, <1>6 DEF RecordFailure
  <1>7. QED
    BY <1>5, <1>6

LEMMA AgedType == ASSUME NEW b \in Failure PROVE Aged(b) \in Failure
  <1>1. b.wait \in Nat /\ b.attempts \in 0 .. Len(Delay)
    BY DEF Failure
  <1>2. (IF b.wait > 0 THEN b.wait - 1 ELSE 0) \in Nat
    BY <1>1
  <1>3. QED
    BY <1>1, <1>2 DEF Aged, Failure

LEMMA KeyFacts ==
    ASSUME NEW w \in Worker
    PROVE  w \in Key /\ \A t \in Task : t[2] \in Channel /\ <<w, t[2]>> \in Key
  BY DEF Key, Task

--------------------------------------------------------------------------------
(* The queue as the cycle fills it: each task at one place.                  *)

LEMMA OrderFacts ==
    ASSUME NEW order \in SetToSeqs(Keyword)
    PROVE  /\ order \in Seq(Keyword) /\ Len(order) \in Nat
           /\ \A i, j \in 1 .. Len(order) : order[i] = order[j] => i = j
           /\ \A k \in Keyword : \E i \in 1 .. Len(order) : order[i] = k
  <1> DEFINE n == Cardinality(Keyword)
  <1>1. n \in Nat /\ IsFiniteSet(Keyword)
    BY SearchCycleAssumption, FS_CardinalityType
  <1>2. /\ order \in [1 .. n -> Keyword]
        /\ \A i, j \in 1 .. n : i # j => order[i] # order[j]
    BY DEF SetToSeqs
  <1> HIDE DEF n
  <1>3. order \in Seq(Keyword) /\ Len(order) = n
    BY <1>1, <1>2
  <1>4. order \in Injection(1 .. n, Keyword)
    BY <1>2 DEF Injection, IsInjective
  <1>5. IsFiniteSet(1 .. n) /\ Cardinality(1 .. n) = n
    BY <1>1, FS_Interval
  <1>6. order \in Surjection(1 .. n, Keyword)
    BY <1>1, <1>4, <1>5, FS_Injection DEF n
  <1>7. \A k \in Keyword : \E i \in 1 .. n : order[i] = k
    BY <1>6 DEF Surjection
  <1>8. QED
    BY <1>1, <1>2, <1>3, <1>7

LEMMA FilledFacts ==
    ASSUME NEW order \in SetToSeqs(Keyword), NEW q, q = Filled(order)
    PROVE  /\ q \in Seq(Item)
           /\ \A i \in 1 .. Len(q) : q[i].task \in Task /\ q[i].skipped_by = {}
           /\ \A t \in Task : \E i \in 1 .. Len(q) :
                 \A j \in 1 .. Len(q) : q[j].task = t <=> j = i
  <1> DEFINE n == Len(order)
             channel(i) == IF i % 2 = 1 THEN "global" ELSE "kad"
             t(i) == <<order[(i + 1) \div 2], channel(i)>>
  <1>1. /\ n \in Nat /\ \A i \in 1 .. n : order[i] \in Keyword
        /\ \A i, j \in 1 .. n : order[i] = order[j] => i = j
        /\ \A k \in Keyword : \E i \in 1 .. n : order[i] = k
    BY OrderFacts, ElementOfSeq
  <1>2. q = [i \in 1 .. 2 * n |-> Entry(t(i), {})]
    BY DEF Filled
  <1> HIDE DEF n
  <1>3. ASSUME NEW i \in 1 .. 2 * n
        PROVE  t(i) \in Task /\ Entry(t(i), {}) \in Item
    <2>1. (i + 1) \div 2 \in 1 .. n
      BY <1>1
    <2>2. channel(i) \in Channel
      BY DEF Channel
    <2>3. t(i) \in Task
      BY <1>1, <2>1, <2>2 DEF Task
    <2>4. QED
      BY <2>3, SentinelType
  <1>4. 2 * n \in Nat
    BY <1>1
  <1>5. q \in Seq(Item) /\ Len(q) = 2 * n
    <2>1. q \in [1 .. 2 * n -> Item]
      BY <1>2, <1>3
    <2>2. QED
      BY <1>4, <2>1
  <1>6. \A i \in 1 .. 2 * n : q[i].task = t(i) /\ q[i].skipped_by = {}
    BY <1>2 DEF Entry
  <1>7. ASSUME NEW u \in Task
        PROVE  \E i \in 1 .. 2 * n : \A j \in 1 .. 2 * n : t(j) = u <=> j = i
    <2>1. PICK k \in Keyword, c \in Channel : u = <<k, c>>
      BY DEF Task
    <2>2. PICK m \in 1 .. n : order[m] = k
      BY <1>1
    <2> DEFINE i == IF c = "global" THEN 2 * m - 1 ELSE 2 * m
    <2>3. /\ i \in 1 .. 2 * n /\ (i + 1) \div 2 = m
          /\ (i % 2 = 1 <=> c = "global")
      BY <1>1
    <2>4. t(i) = u
      BY <2>1, <2>2, <2>3 DEF Channel
    <2>5. ASSUME NEW j \in 1 .. 2 * n, t(j) = u
          PROVE  j = i
      <3>1. order[(j + 1) \div 2] = k /\ channel(j) = c
        BY <2>1, <2>5
      <3>2. (j + 1) \div 2 \in 1 .. n
        BY <1>1
      <3>3. (j + 1) \div 2 = m
        BY <1>1, <2>2, <3>1, <3>2
      <3>4. j % 2 = 1 <=> c = "global"
        BY <3>1
      <3>5. QED
        BY <1>1, <3>3, <3>4
    <2> HIDE DEF i, t
    <2>6. QED
      BY <2>3, <2>4, <2>5
  <1>8. \A i \in 1 .. Len(q) : q[i].task \in Task /\ q[i].skipped_by = {}
    BY <1>3, <1>5, <1>6
  <1>9. ASSUME NEW u \in Task
        PROVE  \E i \in 1 .. Len(q) : \A j \in 1 .. Len(q) : q[j].task = u <=> j = i
    <2>1. PICK i \in 1 .. 2 * n : \A j \in 1 .. 2 * n : t(j) = u <=> j = i
      BY <1>7
    <2> HIDE DEF t
    <2>2. \A j \in 1 .. Len(q) : q[j].task = u <=> j = i
      BY <1>5, <1>6, <2>1
    <2>3. QED
      BY <1>5, <2>1, <2>2
  <1> HIDE DEF t
  <1>10. QED
    BY <1>5, <1>8, <1>9

Sentinels == [i \in 1 .. Cardinality(Worker) |-> Sentinel]

LEMMA SentinelFacts ==
    ASSUME NEW q \in Seq(Item)
    PROVE  /\ q \o Sentinels \in Seq(Item) /\ Cardinality(Worker) \in Nat
           /\ Len(q \o Sentinels) = Len(q) + Cardinality(Worker)
           /\ q = <<>> => \A i \in 1 .. Len(q \o Sentinels) : (q \o Sentinels)[i] = Sentinel
  <1> DEFINE n == Cardinality(Worker)
  <1>1. n \in Nat
    BY SearchCycleAssumption, FS_CardinalityType
  <1>2. Sentinels = [i \in 1 .. n |-> Sentinel]
    BY DEF Sentinels
  <1> HIDE DEF n
  <1>3. Sentinels \in Seq(Item) /\ Len(Sentinels) = n
    BY <1>1, <1>2, SentinelType
  <1>4. q = <<>> => q \o Sentinels = Sentinels
    BY <1>3, ConcatEmptySeq
  <1>5. q \o Sentinels \in Seq(Item) /\ Len(q \o Sentinels) = Len(q) + n
    BY <1>3, ConcatProperties
  <1>6. \A i \in 1 .. n : Sentinels[i] = Sentinel
    BY <1>2
  <1>7. ASSUME q = <<>>, NEW i \in 1 .. Len(q \o Sentinels)
        PROVE  (q \o Sentinels)[i] = Sentinel
    BY <1>3, <1>4, <1>6, <1>7
  <1>8. QED
    BY <1>1, <1>5, <1>7 DEF n

--------------------------------------------------------------------------------
(* The type step, by groups of variables.                                    *)

\* The steps that finish the task a worker is running.
Finishes(w) == ConnectFails(w) \/ SearchOk(w) \/ SearchRefused(w) \/ SearchUnreachable(w)

LEMMA FinishFacts ==
    ASSUME NEW w \in Worker, WorkerType, Finishes(w)
    PROVE  Finish(w) /\ at[w] \in {"connect", "search"} /\ hand[w] \in Task
  <1>1. Finish(w) /\ at[w] \in {"connect", "search"}
    BY DEF Finishes, ConnectFails, SearchOk, SearchRefused, SearchUnreachable
  <1>2. QED
    BY <1>1 DEF WorkerType

\* What a step leaves alone, told once for the groups below.
Background == Gather \/ WriteCycleState \/ SaveChannelBackoff \/ Boot \/ Tick
              \/ (\E w \in Worker : Switch(w)) \/ UNCHANGED vars

LEMMA BackgroundFacts ==
    ASSUME Background
    PROVE  UNCHANGED <<queue, unfinished, ended, dropped, at, hand, spaced>>
  BY DEF Background, Gather, WriteCycleState, SaveChannelBackoff, Boot, Tick, Switch, vars,
         cycle, workers

LEMMA StepCases ==
    ASSUME [Next]_vars
    PROVE  \/ Background \/ Begin \/ Join \/ Stops
           \/ \E w \in Worker : \/ Leave(w) \/ HandBack(w) \/ Drop(w) \/ Run(w)
                                \/ ConnectOk(w) \/ Finishes(w) \/ Resume(w)
  BY DEF Next, Loop, Work, Background, Finishes, Crash, Overflows

LEMMA TopFacts ==
    ASSUME QueueType, NEW w \in Worker, TakesTask(w) \/ Takes(w)
    PROVE  /\ queue # <<>> /\ queue \in Seq(Item) /\ Len(queue) \in Nat \ {0}
           /\ Top \in Item /\ Top = queue[Len(queue)]
           /\ Front(queue) \in Seq(Item) /\ Len(Front(queue)) = Len(queue) - 1
           /\ \A i \in 1 .. Len(queue) - 1 : Front(queue)[i] = queue[i]
  <1>1. queue # <<>> /\ queue \in Seq(Item)
    BY DEF TakesTask, Takes, QueueType
  <1>2. QED
    BY <1>1, FrontFacts DEF Top, Last

\* An item that is not the sentinel carries a task.
NoBlankItem == \A i \in 1 .. Len(queue) : queue[i] # Sentinel => queue[i].task \in Task

\* No worker is under way between two cycles.
AllAway == phase \notin {"drain", "leaving"} => \A w \in Worker : at[w] = "left"

LEMMA QueueNext == TypeInv /\ NoBlankItem /\ [Next]_vars => QueueType'
  <1> SUFFICES ASSUME TypeInv, NoBlankItem, [Next]_vars PROVE QueueType'
    OBVIOUS
  <1>0. QueueType /\ WorkerType
    BY DEF TypeInv
  <1>1. CASE Background
    <2>1. phase' \in Phases
      BY <1>0, <1>1 DEF QueueType, Phases, Background, Gather, WriteCycleState,
             SaveChannelBackoff, Boot, Tick, Switch, vars, cycle
    <2>2. QED
      BY <1>0, <1>1, <2>1, BackgroundFacts DEF QueueType
  <1>2. CASE Begin
    BY <1>2, FilledFacts DEF Begin, QueueType, Phases
  <1>3. CASE Join
    BY <1>0, <1>3, SentinelFacts DEF Join, QueueType, Phases, Sentinels
  <1>4. CASE Stops
    BY <1>4, EmptySeq DEF Stops, QueueType, Phases
  <1>5. ASSUME NEW w \in Worker, Leave(w) \/ Run(w)
        PROVE  QueueType'
    <2>1. /\ Takes(w) /\ queue' = Front(queue)
          /\ UNCHANGED <<phase, ended, dropped>>
      BY <1>5 DEF Leave, Run, TakesTask
    <2>2. QED
      BY <1>0, <2>1, TopFacts DEF QueueType
  <1>6. ASSUME NEW w \in Worker, Drop(w)
        PROVE  QueueType'
    <2>1. Top.task \in Task
      BY <1>0, <1>6, TopFacts DEF NoBlankItem, Drop, TakesTask, Top
    <2>2. QED
      BY <1>0, <1>6, <2>1, TopFacts DEF Drop, QueueType
  <1>7. ASSUME NEW w \in Worker, HandBack(w)
        PROVE  QueueType'
    <2>1. Top.task \in Task /\ Refusers(w) \in SUBSET Worker
      BY <1>0, <1>7, TopFacts DEF NoBlankItem, HandBack, TakesTask, Top, Item, Refusers
    <2>2. Entry(Top.task, Refusers(w)) \in Item
      BY <2>1, SentinelType
    <2>3. queue' \in Seq(Item)
      BY <1>0, <1>7, <2>2, TopFacts DEF HandBack
    <2>4. QED
      BY <1>0, <1>7, <2>3 DEF HandBack, QueueType
  <1>8. ASSUME NEW w \in Worker, Finishes(w)
        PROVE  QueueType'
    BY <1>0, <1>8, FinishFacts DEF Finish, QueueType
  <1>9. ASSUME NEW w \in Worker, ConnectOk(w) \/ Resume(w)
        PROVE  QueueType'
    BY <1>0, <1>9 DEF ConnectOk, Resume, QueueType, cycle
  <1>10. QED
    BY <1>1, <1>2, <1>3, <1>4, <1>5, <1>6, <1>7, <1>8, <1>9, StepCases

LEMMA WorkerNext == TypeInv /\ NoBlankItem /\ AllAway /\ [Next]_vars => WorkerType'
  <1> SUFFICES ASSUME TypeInv, NoBlankItem, AllAway, [Next]_vars PROVE WorkerType'
    OBVIOUS
  <1>0. QueueType /\ WorkerType
    BY DEF TypeInv
  <1> USE DEF WorkerType, Steps
  <1>1. CASE Background \/ Join
    <2>1. UNCHANGED <<at, hand>>
      BY <1>1, BackgroundFacts DEF Join, workers
    <2>2. QED
      BY <1>0, <2>1
  <1>2. CASE Begin
    <2>1. \A w \in Worker : hand[w] = NoTask
      BY <1>0, <1>2 DEF Begin, AllAway
    <2>2. QED
      BY <1>0, <1>2, <2>1 DEF Begin
  <1>4. CASE Stops
    BY <1>4 DEF Stops
  <1>5. ASSUME NEW w \in Worker, Leave(w) \/ HandBack(w) \/ Resume(w)
        PROVE  WorkerType'
    <2>1. /\ at[w] \notin {"connect", "search"} /\ UNCHANGED hand
          /\ \E s \in {"left", "yield", "get"} : Goto(w, s)
      BY <1>5 DEF Leave, HandBack, Resume, Takes, TakesTask
    <2>2. QED
      BY <1>0, <2>1 DEF Goto
  <1>6. ASSUME NEW w \in Worker, Drop(w)
        PROVE  WorkerType'
    BY <1>0, <1>6 DEF Drop, workers
  <1>7. ASSUME NEW w \in Worker, Run(w)
        PROVE  WorkerType'
    <2>1. Top.task \in Task
      BY <1>0, <1>7, TopFacts DEF NoBlankItem, Run, TakesTask, Top
    <2>2. /\ hand' = [hand EXCEPT ![w] = Top.task]
          /\ \E s \in {"search", "connect"} : Goto(w, s)
      BY <1>7 DEF Run
    <2>3. QED
      BY <1>0, <2>1, <2>2, NoTaskIsNoTask DEF Goto
  <1>8. ASSUME NEW w \in Worker, Finishes(w)
        PROVE  WorkerType'
    <2>1. /\ hand' = [hand EXCEPT ![w] = NoTask]
          /\ \E s \in {"pause", "get"} : Goto(w, s)
      BY <1>0, <1>8, FinishFacts DEF Finish
    <2>2. QED
      BY <1>0, <2>1 DEF Goto
  <1>9. ASSUME NEW w \in Worker, ConnectOk(w)
        PROVE  WorkerType'
    BY <1>0, <1>9 DEF ConnectOk, Goto
  <1>10. QED
    BY <1>1, <1>2, <1>4, <1>5, <1>6, <1>7, <1>8, <1>9, StepCases

LEMMA ClientNext == TypeInv /\ [Next]_vars => ClientType'
  <1> SUFFICES ASSUME TypeInv, [Next]_vars PROVE ClientType'
    OBVIOUS
  <1>0. ClientType
    BY DEF TypeInv
  <1> USE DEF ClientType
  <1>1. CASE Background
    <2>1. CASE Boot
      <3>1. \E s \in SUBSET Worker : session' = [w \in Worker |-> w \in s]
        BY <2>1 DEF Boot
      <3>2. session' \in [Worker -> BOOLEAN]
        <4>1. PICK s \in SUBSET Worker : session' = [w \in Worker |-> w \in s]
          BY <3>1
        <4>2. \A w \in Worker : (w \in s) \in BOOLEAN
          OBVIOUS
        <4>3. QED
          BY <4>1, <4>2
      <3>3. UNCHANGED <<spaced, connected>>
        BY <2>1 DEF Boot
      <3>4. QED
        BY <1>0, <3>2, <3>3
    <2>2. CASE ~Boot
      <3>1. UNCHANGED <<spaced, connected, session>>
        BY <1>1, <2>2 DEF Background, Gather, WriteCycleState, SaveChannelBackoff, Tick,
           Switch, vars, workers
      <3>2. QED
        BY <1>0, <3>1
    <2>3. QED
      BY <2>1, <2>2
  <1>2. CASE Begin \/ Join
    <2>1. UNCHANGED <<connected, session>>
      BY <1>2 DEF Begin, Join, workers
    <2>2. spaced' \in [Worker -> BOOLEAN]
      BY <1>0, <1>2 DEF Begin, Join, workers
    <2>3. QED
      BY <1>0, <2>1, <2>2
  <1>3. CASE Stops
    BY <1>3 DEF Stops
  <1>4. ASSUME NEW w \in Worker, Leave(w) \/ HandBack(w) \/ Drop(w)
        PROVE  ClientType'
    <2>1. UNCHANGED <<spaced, connected, session>>
      BY <1>4 DEF Leave, HandBack, Drop, workers
    <2>2. QED
      BY <1>0, <2>1
  <1>5. ASSUME NEW w \in Worker, Run(w)
        PROVE  ClientType'
    <2>1. spaced' \in [Worker -> BOOLEAN]
      BY <1>0, <1>5 DEF Run
    <2>2. connected' \in [Worker -> BOOLEAN]
      BY <1>0, <1>5 DEF Run
    <2>3. UNCHANGED session
      BY <1>5 DEF Run
    <2>4. QED
      BY <1>0, <2>1, <2>2, <2>3
  <1>6. ASSUME NEW w \in Worker, ConnectOk(w)
        PROVE  ClientType'
    BY <1>0, <1>6 DEF ConnectOk
  <1>7. ASSUME NEW w \in Worker, Finishes(w)
        PROVE  ClientType'
    <2>1. UNCHANGED <<spaced, session>>
      BY <1>7 DEF Finishes, ConnectFails, SearchOk, SearchRefused, SearchUnreachable
    <2>2. connected' \in [Worker -> BOOLEAN]
      BY <1>0, <1>7 DEF Finishes, ConnectFails, SearchOk, SearchRefused, SearchUnreachable
    <2>3. QED
      BY <1>0, <2>1, <2>2
  <1>8. ASSUME NEW w \in Worker, Resume(w)
        PROVE  ClientType'
    <2>1. UNCHANGED <<connected, session>>
      BY <1>8 DEF Resume
    <2>2. spaced' = [spaced EXCEPT ![w] = spaced[w] \/ at[w] = "pause"]
      BY <1>8 DEF Resume
    <2>3. spaced' \in [Worker -> BOOLEAN]
      BY <1>0, <2>2, Zenon
    <2>4. QED
      BY <1>0, <2>1, <2>3
  <1>9. QED
    BY <1>1, <1>2, <1>3, <1>4, <1>5, <1>6, <1>7, <1>8, StepCases

LEMMA StoreNext == TypeInv /\ NoBlankItem /\ [Next]_vars => StoreType'
  <1> SUFFICES ASSUME TypeInv, NoBlankItem, [Next]_vars PROVE StoreType'
    OBVIOUS
  <1>0. QueueType /\ WorkerType /\ StoreType
    BY DEF TypeInv
  <1> USE DEF StoreType, store
  <1>1. CASE Background
    <2>1. CASE Gather \/ Boot \/ UNCHANGED vars
      BY <1>0, <2>1 DEF Gather, Boot, vars
    <2>2. CASE WriteCycleState
      <3>1. unsaved' \in 0 .. 2
        BY <1>0, <2>2 DEF WriteCycleState, Lowest
      <3>2. QED
        BY <1>0, <2>2, <3>1 DEF WriteCycleState
    <2>3. CASE SaveChannelBackoff
      BY <1>0, <2>3 DEF SaveChannelBackoff
    <2>4. CASE Tick
      <3>1. /\ backoff' = [k \in Key |-> Aged(backoff[k])]
            /\ saved' = [k \in Key |-> Aged(saved[k])]
        BY <2>4 DEF Tick
      <3>2. /\ \A k \in Key : Aged(backoff[k]) \in Failure
            /\ \A k \in Key : Aged(saved[k]) \in Failure
        BY <1>0, AgedType
      <3>3. backoff' \in [Key -> Failure] /\ saved' \in [Key -> Failure]
        BY <3>1, <3>2
      <3>4. UNCHANGED <<unsaved, blind, up>>
        BY <2>4 DEF Tick
      <3>5. QED
        BY <1>0, <3>3, <3>4
    <2>5. CASE \E w \in Worker : Switch(w)
      <3>1. PICK w \in Worker : up' = [up EXCEPT ![w] = ~up[w]]
        BY <2>5 DEF Switch
      <3>2. up' \in [Worker -> BOOLEAN]
        BY <1>0, <3>1, Zenon
      <3>3. UNCHANGED <<backoff, saved, unsaved, blind>>
        BY <2>5 DEF Switch
      <3>4. QED
        BY <1>0, <3>2, <3>3
    <2>6. QED
      BY <1>1, <2>1, <2>2, <2>3, <2>4, <2>5 DEF Background
  <1>2. CASE Begin
    <2>1. \E capable : blind' = (capable = {})
      BY <1>2 DEF Begin, Blind
    <2>2. blind' \in BOOLEAN
      BY <2>1, Zenon
    <2>3. UNCHANGED <<backoff, saved, unsaved, up>>
      BY <1>2 DEF Begin
    <2>4. QED
      BY <1>0, <2>2, <2>3
  <1>3. CASE Join
    BY <1>0, <1>3 DEF Join
  <1>4. CASE Stops
    <2>1. Clear \in Failure
      BY DelayFacts DEF Clear, Failure
    <2>2. backoff' = [k \in Key |-> Clear] /\ unsaved' = 0
      BY <1>4 DEF Stops
    <2>3. UNCHANGED <<saved, up>>
      BY <1>4 DEF Stops
    <2>4. backoff' \in [Key -> Failure]
      BY <2>1, <2>2
    <2>5. blind' \in BOOLEAN
      <3>1. blind' = FALSE
        BY <1>4 DEF Stops
      <3>2. QED
        BY <3>1, Zenon
    <2>6. QED
      BY <1>0, <2>2, <2>3, <2>4, <2>5
  <1>5. ASSUME NEW w \in Worker, Leave(w) \/ HandBack(w) \/ Drop(w) \/ Resume(w)
        PROVE  StoreType'
    <2>1. UNCHANGED <<backoff, saved, unsaved, blind, up>>
      BY <1>5 DEF Leave, HandBack, Drop, Resume
    <2>2. QED
      BY <1>0, <2>1
  <1>6. ASSUME NEW w \in Worker, Run(w) \/ ConnectOk(w) \/ Finishes(w)
        PROVE  StoreType'
    <2>1. UNCHANGED <<saved, unsaved, blind, up>>
      BY <1>6 DEF Run, ConnectOk, Finishes, ConnectFails, SearchOk, SearchRefused,
         SearchUnreachable, Finish
    <2>2. \/ UNCHANGED backoff
          \/ \E k \in Key : Reset(k) \/ RecordFailure(k)
      <3>1. CASE Run(w) \/ ConnectOk(w)
        BY <3>1, KeyFacts DEF Run, ConnectOk
      <3>2. CASE Finishes(w)
        BY <1>0, <3>2, FinishFacts, KeyFacts
           DEF Finishes, ConnectFails, SearchOk, SearchRefused, SearchUnreachable
      <3>3. QED
        BY <1>6, <3>1, <3>2
    <2>3. backoff' \in [Key -> Failure]
      BY <1>0, <2>2, RegistryStep
    <2>4. QED
      BY <1>0, <2>1, <2>3
  <1>7. QED
    BY <1>1, <1>2, <1>3, <1>4, <1>5, <1>6, StepCases

--------------------------------------------------------------------------------
(* The control of a cycle: what is in the queue and where the workers are.   *)

Drains ==
    phase = "drain" =>
        /\ \A i \in 1 .. Len(queue) : queue[i] # Sentinel
        /\ \A w \in Worker : at[w] # "left"
Winds ==
    phase \in {"leaving", "save"} =>
        /\ \A i \in 1 .. Len(queue) : queue[i] = Sentinel
        /\ \A w \in Worker : at[w] \in {"get", "left"}
        /\ ended = Task
ControlInv == NoBlankItem /\ AllAway /\ Drains /\ Winds

\* Where a task is, told of the three places one by one.
OnceQueued(t) ==
    \E i \in 1 .. Len(queue) : \A j \in 1 .. Len(queue) : queue[j].task = t <=> j = i
NotQueued(t) == \A i \in 1 .. Len(queue) : queue[i].task # t
OnceHeld(t) == \E w \in Worker : \A v \in Worker : hand[v] = t <=> v = w
NotHeld(t) == \A w \in Worker : hand[w] # t
OnlyQueued(t) == OnceQueued(t) /\ NotHeld(t) /\ t \notin ended
OnlyHeld(t) == NotQueued(t) /\ OnceHeld(t) /\ t \notin ended
OnlyEnded(t) == NotQueued(t) /\ NotHeld(t) /\ t \in ended
PlacedInv == phase = "drain" => \A t \in Task : OnlyQueued(t) \/ OnlyHeld(t) \/ OnlyEnded(t)

\* A worker takes a task only while the cycle drains.
LEMMA TaskWhileDraining ==
    ASSUME TypeInv, ControlInv, NEW w \in Worker,
           TakesTask(w) \/ at[w] \in {"connect", "search", "pause", "yield"}
    PROVE  phase = "drain" /\ (TakesTask(w) => Top.task \in Task)
  <1>1. phase \in Phases /\ queue \in Seq(Item)
    BY DEF TypeInv, QueueType
  <1>2. TakesTask(w) => /\ at[w] = "get" /\ Top # Sentinel
                        /\ Len(queue) \in 1 .. Len(queue) /\ Top = queue[Len(queue)]
    <2>1. SUFFICES ASSUME TakesTask(w)
                   PROVE  /\ at[w] = "get" /\ Top # Sentinel
                          /\ Len(queue) \in 1 .. Len(queue) /\ Top = queue[Len(queue)]
      OBVIOUS
    <2>2. Len(queue) \in Nat \ {0} /\ Top = queue[Len(queue)]
      BY <2>1, TopFacts DEF TypeInv
    <2>3. QED
      BY <2>1, <2>2 DEF TakesTask, Takes, Top
  <1>3. phase = "drain"
    BY <1>1, <1>2 DEF ControlInv, AllAway, Winds, Phases
  <1>4. QED
    BY <1>2, <1>3 DEF ControlInv, NoBlankItem

\* When every item is marked done, the queue is empty and no worker is busy.
LEMMA AllDone ==
    ASSUME TypeInv, Accounted, unfinished = 0
    PROVE  queue = <<>> /\ Len(queue) = 0 /\ \A w \in Worker : at[w] \in {"get", "left"}
  <1>1. Busy \in SUBSET Worker /\ IsFiniteSet(Worker)
    BY SearchCycleAssumption DEF Busy
  <1>2. IsFiniteSet(Busy)
    BY <1>1, FS_Subset
  <1>3. Cardinality(Busy) \in Nat
    BY <1>2, FS_CardinalityType
  <1>4. Len(queue) \in Nat /\ queue \in Seq(Item)
    BY DEF TypeInv, QueueType
  <1>5. Len(queue) = 0 /\ Cardinality(Busy) = 0
    BY <1>3, <1>4 DEF Accounted
  <1>6. Busy = {}
    BY <1>2, <1>5, FS_EmptySet
  <1>7. QED
    BY <1>4, <1>5, <1>6, EmptySeq DEF Busy

LEMMA JoinFacts ==
    ASSUME TypeInv, ControlInv, Accounted, PlacedInv, Join
    PROVE  /\ phase' = "leaving" /\ UNCHANGED <<at, hand, ended>>
           /\ queue' = queue \o Sentinels /\ queue = <<>>
           /\ \A w \in Worker : at[w] = "get" /\ hand[w] = NoTask
           /\ ended = Task
  <1>1. /\ phase = "drain" /\ unfinished = 0 /\ phase' = "leaving"
        /\ queue' = queue \o Sentinels /\ UNCHANGED <<at, hand, ended>>
    BY DEF Join, workers, Sentinels
  <1>2. queue = <<>> /\ Len(queue) = 0 /\ \A w \in Worker : at[w] \in {"get", "left"}
    BY <1>1, AllDone
  <1>3. \A w \in Worker : at[w] = "get" /\ hand[w] = NoTask
    BY <1>1, <1>2 DEF ControlInv, Drains, TypeInv, WorkerType
  <1>4. \A t \in Task : t \in ended
    BY <1>1, <1>2, <1>3, NoTaskIsNoTask DEF PlacedInv, OnlyQueued, OnlyHeld, OnlyEnded, OnceQueued,
           NotQueued, OnceHeld, NotHeld
  <1>5. QED
    BY <1>1, <1>2, <1>3, <1>4 DEF TypeInv, QueueType

LEMMA HandBackFacts ==
    ASSUME TypeInv, ControlInv, NEW w \in Worker, HandBack(w)
    PROVE  /\ phase = "drain" /\ Top \in Item /\ Top.task \in Task
           /\ queue' \in Seq(Item) /\ Len(queue') = Len(queue) /\ Len(queue) \in Nat \ {0}
           /\ Top = queue[Len(queue)]
           /\ queue'[Len(queue)] = Entry(Top.task, Refusers(w))
           /\ \A i \in 1 .. Len(queue) - 1 : queue'[i] = queue[i]
           /\ Refusers(w) \in SUBSET Worker
  <1>1. TakesTask(w) /\ queue' = Append(Front(queue), Entry(Top.task, Refusers(w)))
    BY DEF HandBack
  <1>2. phase = "drain" /\ Top.task \in Task
    BY <1>1, TaskWhileDraining
  <1>3. /\ queue # <<>> /\ queue \in Seq(Item) /\ Len(queue) \in Nat \ {0}
        /\ Top \in Item /\ Top = queue[Len(queue)]
    BY <1>1, TopFacts DEF TypeInv
  <1>4. Refusers(w) \in SUBSET Worker
    BY <1>3 DEF Refusers, Item
  <1>5. Entry(Top.task, Refusers(w)) \in Item
    BY <1>2, <1>4, SentinelType
  <1>6. /\ queue' \in Seq(Item) /\ Len(queue') = Len(queue)
        /\ Last(queue') = Entry(Top.task, Refusers(w))
        /\ \A i \in 1 .. Len(queue) - 1 : queue'[i] = queue[i]
    <2> DEFINE e == Entry(Top.task, Refusers(w))
               f == Front(queue)
    <2>1. /\ f \in Seq(Item) /\ Len(f) = Len(queue) - 1 /\ e \in Item
          /\ \A i \in 1 .. Len(queue) - 1 : f[i] = queue[i]
          /\ queue' = Append(f, e)
      BY <1>1, <1>5, TopFacts DEF TypeInv
    <2> HIDE DEF e, f
    <2>2. queue' \in Seq(Item) /\ Len(queue') = Len(queue)
      BY <1>3, <2>1
    <2>3. \A i \in 1 .. Len(queue') : queue'[i] = IF i <= Len(f) THEN f[i] ELSE e
      BY <1>3, <2>1
    <2>4. QED
      BY <1>3, <2>1, <2>2, <2>3 DEF e, Last
  <1>7. QED
    BY <1>2, <1>3, <1>4, <1>6 DEF Last

LEMMA ControlNext ==
    TypeInv /\ ControlInv /\ Accounted /\ PlacedInv /\ [Next]_vars => ControlInv'
  <1> SUFFICES ASSUME TypeInv, ControlInv, Accounted, PlacedInv, [Next]_vars
               PROVE  ControlInv'
    OBVIOUS
  <1>0. QueueType /\ WorkerType
    BY DEF TypeInv
  <1> USE DEF ControlInv, NoBlankItem, AllAway, Drains, Winds
  <1>1. CASE Background
    <2>1. UNCHANGED <<queue, ended, at>>
      BY <1>1, BackgroundFacts
    <2>2. CASE Gather
      BY <2>1, <2>2 DEF Gather
    <2>3. CASE ~Gather
      <3>1. CASE WriteCycleState \/ SaveChannelBackoff \/ Boot
        BY <2>1, <3>1 DEF WriteCycleState, SaveChannelBackoff, Boot
      <3>2. CASE Tick \/ (\E w \in Worker : Switch(w)) \/ UNCHANGED vars
        <4>1. phase' = phase
          BY <3>2 DEF Tick, Switch, vars, cycle
        <4>2. QED
          BY <2>1, <4>1
      <3>3. QED
        BY <1>1, <2>3, <3>1, <3>2 DEF Background
    <2>4. QED
      BY <2>2, <2>3
  <1>2. CASE Begin
    <2>1. \A i \in 1 .. Len(queue') : queue'[i].task \in Task /\ queue'[i] # Sentinel
      <3>1. \A i \in 1 .. Len(queue') : queue'[i].task \in Task
        BY <1>2, FilledFacts DEF Begin
      <3>2. QED
        BY <3>1, SentinelType, NoTaskIsNoTask
    <2>2. phase' = "drain" /\ \A w \in Worker : at'[w] = "get"
      BY <1>2 DEF Begin
    <2>3. QED
      BY <2>1, <2>2
  <1>3. CASE Join
    <2>1. /\ phase' = "leaving" /\ ended' = Task
          /\ \A w \in Worker : at'[w] \in {"get", "left"}
      BY <1>3, JoinFacts
    <2>2. \A i \in 1 .. Len(queue') : queue'[i] = Sentinel
      BY <1>0, <1>3, JoinFacts, SentinelFacts DEF QueueType
    <2>3. QED
      BY <2>1, <2>2
  <1>4. CASE Stops
    <2>1. phase' = "down" /\ queue' = <<>> /\ \A w \in Worker : at'[w] = "left"
      BY <1>4 DEF Stops
    <2>2. Len(queue') = 0
      BY <2>1, EmptySeq
    <2>3. QED
      BY <2>1, <2>2
  <1>5. ASSUME NEW w \in Worker, Leave(w)
        PROVE  ControlInv'
    <2>1. /\ Takes(w) /\ Last(queue) = Sentinel /\ queue' = Front(queue)
          /\ at' = [at EXCEPT ![w] = "left"] /\ UNCHANGED <<phase, ended>>
      BY <1>5 DEF Leave, Goto
    <2>2. /\ Len(queue) \in Nat \ {0} /\ queue[Len(queue)] = Sentinel
          /\ Len(queue') = Len(queue) - 1
          /\ \A i \in 1 .. Len(queue) - 1 : queue'[i] = queue[i]
      BY <1>0, <2>1, TopFacts DEF Top
    <2>3. phase # "drain"
      BY <2>2
    <2>4. \A v \in Worker : at'[v] = at[v] \/ at'[v] = "left"
      BY <1>0, <2>1 DEF WorkerType
    <2>5. QED
      BY <2>1, <2>2, <2>3, <2>4
  <1>6. ASSUME NEW w \in Worker, Drop(w) \/ Run(w)
        PROVE  ControlInv'
    <2>1. TakesTask(w) /\ queue' = Front(queue) /\ UNCHANGED phase
      BY <1>6 DEF Drop, Run
    <2>2. phase = "drain"
      BY <2>1, TaskWhileDraining
    <2>3. /\ Len(queue) \in Nat \ {0} /\ Len(queue') = Len(queue) - 1
          /\ \A i \in 1 .. Len(queue) - 1 : queue'[i] = queue[i]
      BY <1>0, <2>1, TopFacts
    <2>4. \A v \in Worker : at'[v] # "left"
      BY <1>0, <1>6, <2>2 DEF Drop, Run, Goto, workers, WorkerType
    <2>5. QED
      BY <2>1, <2>2, <2>3, <2>4
  <1>7. ASSUME NEW w \in Worker, HandBack(w)
        PROVE  ControlInv'
    <2>1. Entry(Top.task, Refusers(w)).task \in Task
          /\ Entry(Top.task, Refusers(w)) # Sentinel
      BY <1>7, HandBackFacts, SentinelType, NoTaskIsNoTask
    <2>2. phase = "drain" /\ phase' = phase /\ at' = [at EXCEPT ![w] = "yield"]
      BY <1>7, HandBackFacts DEF HandBack, Goto
    <2>3. \A i \in 1 .. Len(queue') : queue'[i] # Sentinel /\ queue'[i].task \in Task
      BY <1>7, <2>1, <2>2, HandBackFacts
    <2>4. \A v \in Worker : at'[v] # "left"
      BY <1>0, <2>2 DEF WorkerType
    <2>5. QED
      BY <2>2, <2>3, <2>4
  <1>8. ASSUME NEW w \in Worker, ConnectOk(w) \/ Finishes(w) \/ Resume(w)
        PROVE  ControlInv'
    <2>1. at[w] \in {"connect", "search", "pause", "yield"}
      BY <1>0, <1>8, FinishFacts DEF ConnectOk, Resume
    <2>2. phase = "drain"
      BY <2>1, TaskWhileDraining
    <2>3. /\ UNCHANGED <<phase, queue>>
          /\ \E s \in {"search", "pause", "get"} : at' = [at EXCEPT ![w] = s]
      <3>1. CASE ConnectOk(w) \/ Resume(w)
        BY <3>1 DEF ConnectOk, Resume, Goto, cycle
      <3>2. CASE Finishes(w)
        BY <1>0, <3>2, FinishFacts DEF Finish, Goto
      <3>3. QED
        BY <1>8, <3>1, <3>2
    <2>4. \A v \in Worker : at'[v] # "left"
      BY <1>0, <2>2, <2>3 DEF WorkerType
    <2>5. QED
      BY <2>2, <2>3, <2>4
  <1>9. QED
    BY <1>1, <1>2, <1>3, <1>4, <1>5, <1>6, <1>7, <1>8, StepCases

--------------------------------------------------------------------------------
(* The count of unfinished items.                                            *)

LEMMA BusyFacts ==
    ASSUME WorkerType, NEW w \in Worker, NEW s \in Steps, at' = [at EXCEPT ![w] = s]
    PROVE  /\ Cardinality(Busy) \in Nat
           /\ (w \in Busy <=> at[w] \notin {"get", "left"})
           /\ Cardinality(Busy')
                  = IF s \notin {"get", "left"}
                    THEN IF w \in Busy THEN Cardinality(Busy) ELSE Cardinality(Busy) + 1
                    ELSE IF w \in Busy THEN Cardinality(Busy) - 1 ELSE Cardinality(Busy)
  <1>1. Busy \in SUBSET Worker /\ IsFiniteSet(Worker)
    BY SearchCycleAssumption DEF Busy
  <1>2. IsFiniteSet(Busy)
    BY <1>1, FS_Subset
  <1>3. Cardinality(Busy) \in Nat
    BY <1>2, FS_CardinalityType
  <1>4. Busy' = IF s \notin {"get", "left"} THEN Busy \cup {w} ELSE Busy \ {w}
    BY DEF Busy, WorkerType
  <1>5. Cardinality(Busy \cup {w})
            = IF w \in Busy THEN Cardinality(Busy) ELSE Cardinality(Busy) + 1
    BY <1>2, FS_AddElement
  <1>6. Cardinality(Busy \ {w})
            = IF w \in Busy THEN Cardinality(Busy) - 1 ELSE Cardinality(Busy)
    BY <1>2, FS_RemoveElement
  <1>7. w \in Busy <=> at[w] \notin {"get", "left"}
    BY DEF Busy
  <1>8. QED
    BY <1>3, <1>4, <1>5, <1>6, <1>7

LEMMA AccountedNext ==
    TypeInv /\ ControlInv /\ Accounted /\ PlacedInv /\ [Next]_vars => Accounted'
  <1> SUFFICES ASSUME TypeInv, ControlInv, Accounted, PlacedInv, [Next]_vars
               PROVE  Accounted'
    OBVIOUS
  <1>0. /\ QueueType /\ WorkerType /\ Len(queue) \in Nat
        /\ unfinished = Len(queue) + Cardinality(Busy)
    BY DEF TypeInv, QueueType, Accounted
  <1>00. Cardinality({}) = 0
    BY FS_EmptySet
  <1>1. CASE Background
    <2>1. UNCHANGED <<queue, unfinished, at>>
      BY <1>1, BackgroundFacts
    <2>2. Busy' = Busy
      BY <2>1 DEF Busy
    <2>3. QED
      BY <1>0, <2>1, <2>2 DEF Accounted
  <1>2. CASE Begin
    <2>1. Busy' = {} /\ unfinished' = Len(queue') /\ queue' \in Seq(Item)
      BY <1>2, FilledFacts DEF Begin, Busy
    <2>2. QED
      BY <1>00, <2>1 DEF Accounted
  <1>3. CASE Join
    <2>1. Busy' = Busy
      BY <1>3, JoinFacts DEF Busy
    <2>2. /\ Len(queue') = Len(queue) + Cardinality(Worker) /\ Cardinality(Worker) \in Nat
      BY <1>0, <1>3, JoinFacts, SentinelFacts DEF QueueType
    <2>3. unfinished' = unfinished + Cardinality(Worker) /\ unfinished = 0
      BY <1>3 DEF Join
    <2>4. Busy = {}
      BY <1>3, JoinFacts DEF Busy
    <2>5. QED
      BY <1>0, <1>00, <2>1, <2>2, <2>3, <2>4 DEF Accounted
  <1>4. CASE Stops
    <2>1. Busy' = {} /\ unfinished' = 0 /\ queue' = <<>>
      BY <1>4 DEF Stops, Busy
    <2>2. Len(queue') = 0
      BY <2>1, EmptySeq
    <2>3. QED
      BY <1>00, <2>1, <2>2 DEF Accounted
  <1>5. ASSUME NEW w \in Worker, Leave(w) \/ HandBack(w) \/ Drop(w) \/ Run(w)
        PROVE  Accounted'
    <2>1. at[w] = "get" /\ Takes(w)
      BY <1>5 DEF Leave, HandBack, Drop, Run, TakesTask, Takes
    <2>2. Len(queue) \in Nat \ {0} /\ Len(Front(queue)) = Len(queue) - 1
      BY <1>0, <2>1, TopFacts
    <2>3. CASE Leave(w)
      <3>1. /\ at' = [at EXCEPT ![w] = "left"] /\ unfinished' = unfinished - 1
            /\ queue' = Front(queue)
        BY <2>3 DEF Leave, Goto
      <3>2. Cardinality(Busy') = Cardinality(Busy) /\ Cardinality(Busy) \in Nat
        BY <1>0, <2>1, <3>1, BusyFacts DEF Steps
      <3>3. QED
        BY <1>0, <2>2, <3>1, <3>2 DEF Accounted
    <2>4. CASE HandBack(w)
      <3>1. at' = [at EXCEPT ![w] = "yield"] /\ unfinished' = unfinished + 1
        BY <2>4 DEF HandBack, Goto
      <3>2. Cardinality(Busy') = Cardinality(Busy) + 1 /\ Cardinality(Busy) \in Nat
        BY <1>0, <2>1, <3>1, BusyFacts DEF Steps
      <3>3. Len(queue') = Len(queue)
        BY <2>4, HandBackFacts
      <3>4. QED
        BY <1>0, <2>2, <3>1, <3>2, <3>3 DEF Accounted
    <2>5. CASE Drop(w)
      <3>1. UNCHANGED at /\ unfinished' = unfinished - 1 /\ queue' = Front(queue)
        BY <2>5 DEF Drop, workers
      <3>2. Busy' = Busy
        BY <3>1 DEF Busy
      <3>3. Cardinality(Busy) \in Nat
        BY <1>0, <2>1, BusyFacts, FS_Subset, FS_CardinalityType, SearchCycleAssumption DEF Busy
      <3>4. QED
        BY <1>0, <2>2, <3>1, <3>2, <3>3 DEF Accounted
    <2>6. CASE Run(w)
      <3>1. /\ UNCHANGED unfinished /\ queue' = Front(queue)
            /\ \E s \in {"search", "connect"} : at' = [at EXCEPT ![w] = s]
        BY <2>6 DEF Run, Goto
      <3>2. Cardinality(Busy') = Cardinality(Busy) + 1 /\ Cardinality(Busy) \in Nat
        BY <1>0, <2>1, <3>1, BusyFacts DEF Steps
      <3>3. QED
        BY <1>0, <2>2, <3>1, <3>2 DEF Accounted
    <2>7. QED
      BY <1>5, <2>3, <2>4, <2>5, <2>6
  <1>6. ASSUME NEW w \in Worker, ConnectOk(w) \/ Finishes(w) \/ Resume(w)
        PROVE  Accounted'
    <2>1. at[w] \notin {"get", "left"}
      BY <1>0, <1>6, FinishFacts DEF ConnectOk, Resume
    <2>2. /\ UNCHANGED queue
          /\ \/ /\ \E s \in {"search", "pause"} : at' = [at EXCEPT ![w] = s]
                /\ UNCHANGED unfinished
             \/ at' = [at EXCEPT ![w] = "get"] /\ unfinished' = unfinished - 1
      <3>1. CASE ConnectOk(w) \/ Resume(w)
        BY <3>1 DEF ConnectOk, Resume, Goto, cycle
      <3>2. CASE Finishes(w)
        BY <1>0, <3>2, FinishFacts DEF Finish, Goto
      <3>3. QED
        BY <1>6, <3>1, <3>2
    <2>3. CASE /\ \E s \in {"search", "pause"} : at' = [at EXCEPT ![w] = s]
               /\ UNCHANGED unfinished
      <3>1. Cardinality(Busy') = Cardinality(Busy)
        BY <1>0, <2>1, <2>3, BusyFacts DEF Steps
      <3>2. QED
        BY <1>0, <2>2, <2>3, <3>1 DEF Accounted
    <2>4. CASE at' = [at EXCEPT ![w] = "get"] /\ unfinished' = unfinished - 1
      <3>1. Cardinality(Busy') = Cardinality(Busy) - 1 /\ Cardinality(Busy) \in Nat
        BY <1>0, <2>1, <2>4, BusyFacts DEF Steps
      <3>2. QED
        BY <1>0, <2>2, <2>4, <3>1 DEF Accounted
    <2>5. QED
      BY <2>2, <2>3, <2>4
  <1>7. QED
    BY <1>1, <1>2, <1>3, <1>4, <1>5, <1>6, StepCases

--------------------------------------------------------------------------------
(* Each task is at one place.                                                *)

\* A step that changes neither of the three for a task leaves it where it is.
LEMMA PlaceKept ==
    ASSUME NEW t, OnlyQueued(t) \/ OnlyHeld(t) \/ OnlyEnded(t),
           OnceQueued(t) => OnceQueued(t)', NotQueued(t) => NotQueued(t)',
           OnceHeld(t) => OnceHeld(t)', NotHeld(t) => NotHeld(t)',
           t \in ended' <=> t \in ended
    PROVE  (OnlyQueued(t) \/ OnlyHeld(t) \/ OnlyEnded(t))'
  BY DEF OnlyQueued, OnlyHeld, OnlyEnded

\* A taken task is nowhere else, and taking it moves no other one.
LEMMA TakenFacts ==
    ASSUME TypeInv, ControlInv, PlacedInv, NEW w \in Worker, TakesTask(w),
           queue' = Front(queue), NEW t \in Task
    PROVE  /\ phase = "drain" /\ Top.task \in Task /\ hand[w] = NoTask
           /\ OnlyQueued(Top.task)
           /\ t = Top.task => NotQueued(t)'
           /\ t # Top.task /\ OnceQueued(t) => OnceQueued(t)'
           /\ NotQueued(t) => NotQueued(t)'
  <1> DEFINE n == Len(queue)
             f == Front(queue)
  <1>1. phase = "drain" /\ Top.task \in Task
    BY TaskWhileDraining
  <1>2. hand[w] = NoTask
    BY DEF TypeInv, WorkerType, TakesTask, Takes
  <1>3. /\ n \in Nat \ {0} /\ Top = queue[n] /\ Len(f) = n - 1
        /\ \A i \in 1 .. n - 1 : f[i] = queue[i]
    BY TopFacts DEF TypeInv
  <1>4. OnlyQueued(Top.task)
    BY <1>1, <1>3 DEF PlacedInv, OnlyHeld, OnlyEnded, NotQueued
  <1>5. PICK k \in 1 .. n : \A j \in 1 .. n : queue[j].task = Top.task <=> j = k
    BY <1>4 DEF OnlyQueued, OnceQueued
  <1> HIDE DEF n, f
  <1>6. k = n
    BY <1>3, <1>5
  <1>7. \A i \in 1 .. Len(f) : f[i].task # Top.task
    BY <1>3, <1>5, <1>6
  <1>8. ASSUME t # Top.task, NEW i \in 1 .. n,
               \A j \in 1 .. n : queue[j].task = t <=> j = i
        PROVE  i \in 1 .. Len(f) /\ \A j \in 1 .. Len(f) : f[j].task = t <=> j = i
    <2>1. i # n
      BY <1>3, <1>8
    <2>2. QED
      BY <1>3, <1>8, <2>1
  <1>9. ASSUME \A i \in 1 .. n : queue[i].task # t
        PROVE  \A i \in 1 .. Len(f) : f[i].task # t
    BY <1>3, <1>9
  <1>10. ASSUME t = Top.task
         PROVE  NotQueued(t)'
    BY <1>7, <1>10 DEF NotQueued, f
  <1>11. ASSUME t # Top.task, OnceQueued(t)
         PROVE  OnceQueued(t)'
    <2>1. \E i \in 1 .. Len(f) : \A j \in 1 .. Len(f) : f[j].task = t <=> j = i
      BY <1>8, <1>11 DEF OnceQueued, n
    <2>2. QED
      BY <2>1 DEF OnceQueued, f
  <1>12. ASSUME NotQueued(t)
         PROVE  NotQueued(t)'
    BY <1>9, <1>12 DEF NotQueued, n, f
  <1>13. QED
    BY <1>1, <1>2, <1>4, <1>10, <1>11, <1>12

LEMMA PlacedNext ==
    TypeInv /\ ControlInv /\ Accounted /\ PlacedInv /\ [Next]_vars => PlacedInv'
  <1> SUFFICES ASSUME TypeInv, ControlInv, Accounted, PlacedInv, [Next]_vars,
                      phase' = "drain", NEW t \in Task
               PROVE  (OnlyQueued(t) \/ OnlyHeld(t) \/ OnlyEnded(t))'
    BY DEF PlacedInv
  <1> DEFINE Somewhere == OnlyQueued(t) \/ OnlyHeld(t) \/ OnlyEnded(t)
  <1>0. QueueType /\ WorkerType /\ t # NoTask
    BY NoTaskIsNoTask DEF TypeInv
  <1>00. phase = "drain" => Somewhere
    BY DEF PlacedInv
  <1>1. CASE Background
    <2>1. UNCHANGED <<queue, ended, hand>>
      BY <1>1, BackgroundFacts
    <2>2. phase = "drain"
      BY <1>1 DEF Background, Gather, WriteCycleState, SaveChannelBackoff, Boot, Tick, Switch,
         vars, cycle
    <2>3. QED
      BY <1>00, <2>1, <2>2, PlaceKept DEF OnceQueued, NotQueued, OnceHeld, NotHeld
  <1>2. CASE Begin
    <2>1. \A w \in Worker : hand'[w] = NoTask
      BY <1>0, <1>2 DEF Begin, ControlInv, AllAway, WorkerType
    <2>2. ended' = {}
      BY <1>2 DEF Begin
    <2>3. OnceQueued(t)'
      BY <1>2, FilledFacts DEF Begin, OnceQueued
    <2>4. QED
      BY <1>0, <2>1, <2>2, <2>3 DEF OnlyQueued, NotHeld
  <1>3. CASE Join \/ Stops
    BY <1>3 DEF Join, Stops
  <1>4. ASSUME NEW w \in Worker, Leave(w) PROVE FALSE
    <2>1. Takes(w) /\ Last(queue) = Sentinel /\ phase = "drain"
      BY <1>4 DEF Leave
    <2>2. Len(queue) \in 1 .. Len(queue) /\ queue[Len(queue)] = Sentinel
      BY <1>0, <2>1, TopFacts DEF Top
    <2>3. QED
      BY <2>1, <2>2 DEF ControlInv, Drains
  <1>5. ASSUME NEW w \in Worker, HandBack(w)
        PROVE  Somewhere'
    <2>1. /\ phase = "drain" /\ Len(queue') = Len(queue) /\ Len(queue) \in Nat \ {0}
          /\ Top = queue[Len(queue)]
          /\ queue'[Len(queue)].task = Top.task
          /\ \A i \in 1 .. Len(queue) - 1 : queue'[i] = queue[i]
      BY <1>5, HandBackFacts, SentinelType
    <2>2. UNCHANGED <<hand, ended>>
      BY <1>5 DEF HandBack
    <2>3. \A i \in 1 .. Len(queue) : queue'[i].task = queue[i].task
      BY <2>1
    <2>4. /\ OnceQueued(t) => OnceQueued(t)'
          /\ NotQueued(t) => NotQueued(t)'
      <3>1. ASSUME NEW i \in 1 .. Len(queue), \A j \in 1 .. Len(queue) : queue[j].task = t <=> j = i
            PROVE  i \in 1 .. Len(queue') /\ \A j \in 1 .. Len(queue') : queue'[j].task = t <=> j = i
        BY <2>1, <2>3, <3>1
      <3>2. OnceQueued(t) => OnceQueued(t)'
        BY <3>1 DEF OnceQueued
      <3>3. NotQueued(t) => NotQueued(t)'
        BY <2>1, <2>3 DEF NotQueued
      <3>4. QED
        BY <3>2, <3>3
    <2>5. QED
      BY <1>00, <2>1, <2>2, <2>4, PlaceKept DEF OnceHeld, NotHeld
  <1>6. ASSUME NEW w \in Worker, Drop(w)
        PROVE  Somewhere'
    <2>1. /\ TakesTask(w) /\ queue' = Front(queue) /\ UNCHANGED hand
          /\ ended' = ended \cup {Top.task}
      BY <1>6 DEF Drop, workers
    <2>2. CASE t = Top.task
      BY <2>1, <2>2, TakenFacts DEF OnlyQueued, OnlyEnded, NotHeld
    <2>3. CASE t # Top.task
      BY <1>00, <2>1, <2>3, TakenFacts, PlaceKept DEF OnceHeld, NotHeld
    <2>4. QED
      BY <2>2, <2>3
  <1>7. ASSUME NEW w \in Worker, Run(w)
        PROVE  Somewhere'
    <2>1. /\ TakesTask(w) /\ queue' = Front(queue) /\ UNCHANGED ended
          /\ hand' = [hand EXCEPT ![w] = Top.task]
      BY <1>7 DEF Run
    <2>2. CASE t = Top.task
      <3>1. OnlyQueued(t) /\ NotQueued(t)'
        BY <2>1, <2>2, TakenFacts
      <3>2. OnceHeld(t)'
        BY <1>0, <2>1, <2>2, <3>1 DEF OnlyQueued, NotHeld, OnceHeld, WorkerType
      <3>3. QED
        BY <2>1, <3>1, <3>2 DEF OnlyQueued, OnlyHeld
    <2>3. CASE t # Top.task
      <3>1. \A v \in Worker : hand'[v] = t <=> hand[v] = t
        BY <1>0, <2>1, <2>3, TakenFacts DEF WorkerType
      <3>2. QED
        BY <1>00, <2>1, <2>3, <3>1, TakenFacts, PlaceKept DEF OnceHeld, NotHeld
    <2>4. QED
      BY <2>2, <2>3
  <1>8. ASSUME NEW w \in Worker, Finishes(w)
        PROVE  Somewhere'
    <2>1. /\ hand' = [hand EXCEPT ![w] = NoTask] /\ ended' = ended \cup {hand[w]}
          /\ UNCHANGED <<phase, queue>>
      BY <1>0, <1>8, FinishFacts DEF Finish
    <2>2. CASE t = hand[w]
      <3>1. OnlyHeld(t)
        BY <1>00, <2>1, <2>2 DEF OnlyQueued, OnlyEnded, NotHeld
      <3>2. NotHeld(t)'
        BY <1>0, <2>1, <2>2, <3>1 DEF OnlyHeld, OnceHeld, NotHeld, WorkerType
      <3>3. NotQueued(t)'
        BY <2>1, <3>1 DEF OnlyHeld, NotQueued
      <3>4. QED
        BY <2>1, <2>2, <3>2, <3>3 DEF OnlyEnded
    <2>3. CASE t # hand[w]
      <3>1. \A v \in Worker : hand'[v] = t <=> hand[v] = t
        BY <1>0, <2>1, <2>3 DEF WorkerType
      <3>2. QED
        BY <1>00, <2>1, <2>3, <3>1, PlaceKept DEF OnceQueued, NotQueued, OnceHeld, NotHeld
    <2>4. QED
      BY <2>2, <2>3
  <1>9. ASSUME NEW w \in Worker, ConnectOk(w) \/ Resume(w)
        PROVE  Somewhere'
    <2>1. UNCHANGED <<phase, queue, ended, hand>>
      BY <1>9 DEF ConnectOk, Resume, cycle
    <2>2. QED
      BY <1>00, <2>1, PlaceKept DEF OnceQueued, NotQueued, OnceHeld, NotHeld
  <1>10. QED
    BY <1>1, <1>2, <1>3, <1>4, <1>5, <1>6, <1>7, <1>8, <1>9, StepCases

--------------------------------------------------------------------------------
(* The theorems about the tasks of a cycle.                                  *)

CycleInv == TypeInv /\ ControlInv /\ Accounted /\ PlacedInv

LEMMA CycleInit == Init => CycleInv
  <1> SUFFICES ASSUME Init PROVE CycleInv
    OBVIOUS
  <1>1. Len(queue) = 0 /\ queue \in Seq(Item)
    BY EmptySeq DEF Init
  <1>2. QueueType /\ WorkerType
    BY <1>1 DEF Init, QueueType, WorkerType, Phases, Steps
  <1>3. ClientType
    <2>1. PICK s \in SUBSET Worker : session = [w \in Worker |-> w \in s]
      BY DEF Init
    <2>2. \A w \in Worker : (w \in s) \in BOOLEAN
      OBVIOUS
    <2>3. session \in [Worker -> BOOLEAN]
      BY <2>1, <2>2
    <2>4. QED
      BY <2>3 DEF Init, ClientType
  <1>4. StoreType
    <2>1. Clear \in Failure
      BY DelayFacts DEF Clear, Failure
    <2>2. backoff = [k \in Key |-> Clear] /\ saved = backoff /\ unsaved = 0
      BY DEF Init
    <2>3. backoff \in [Key -> Failure] /\ saved \in [Key -> Failure] /\ unsaved \in 0 .. 2
      BY <2>1, <2>2
    <2>4. up \in [Worker -> BOOLEAN] /\ blind = FALSE
      BY DEF Init
    <2>5. blind \in BOOLEAN
      BY <2>4, Zenon
    <2>6. QED
      BY <2>3, <2>4, <2>5 DEF StoreType
  <1>5. Accounted
    <2>1. Busy = {}
      BY DEF Init, Busy
    <2>2. QED
      BY <1>1, <2>1, FS_EmptySet DEF Init, Accounted
  <1>6. ControlInv /\ PlacedInv
    BY <1>1 DEF Init, ControlInv, NoBlankItem, AllAway, Drains, Winds, PlacedInv
  <1>7. QED
    BY <1>2, <1>3, <1>4, <1>5, <1>6 DEF CycleInv, TypeInv

LEMMA CycleNext == CycleInv /\ [Next]_vars => CycleInv'
  BY QueueNext, WorkerNext, ClientNext, StoreNext, ControlNext, AccountedNext, PlacedNext
     DEF CycleInv, TypeInv, ControlInv

LEMMA CycleAlways == Spec => []CycleInv
  BY CycleInit, CycleNext, PTL DEF Spec

\* Every variable keeps its type, and a worker holds a task exactly while it runs one.
THEOREM TypeCorrect == Spec => []TypeOK
  <1>1. CycleInv => TypeOK
    BY TypeFromInv DEF CycleInv
  <1>2. QED
    BY <1>1, CycleAlways, PTL

\* The count that join waits on is exact: one for each item in the queue and one for
\* each worker that has taken an item and not marked it done.  It is never negative,
\* and it reaches zero only with an empty queue and no worker under way.
THEOREM CountIsExact ==
    Spec => [](Accounted /\ unfinished >= 0 /\ (unfinished = 0 => queue = <<>> /\ Busy = {}))
  <1>1. CycleInv => /\ Accounted /\ unfinished >= 0
                    /\ (unfinished = 0 => queue = <<>> /\ Busy = {})
    <2> SUFFICES ASSUME CycleInv
                 PROVE  /\ Accounted /\ unfinished >= 0
                        /\ (unfinished = 0 => queue = <<>> /\ Busy = {})
      OBVIOUS
    <2>1. Accounted /\ queue \in Seq(Item)
      BY DEF CycleInv, TypeInv, QueueType
    <2>2. IsFiniteSet(Busy)
      BY SearchCycleAssumption, FS_Subset DEF Busy
    <2>3. Len(queue) \in Nat /\ Cardinality(Busy) \in Nat
      BY <2>1, <2>2, LenProperties, FS_CardinalityType
    <2>4. Len(queue) = 0 => queue = <<>>
      BY <2>1, LenProperties
    <2>5. Cardinality(Busy) = 0 => Busy = {}
      BY <2>2, FS_EmptySet
    <2>6. QED
      BY <2>1, <2>3, <2>4, <2>5 DEF Accounted
  <1>2. QED
    BY <1>1, CycleAlways, PTL

\* A worker leaves only when every task is over.
THEOREM WorkersLeaveLast == Spec => []LeavesLast
  <1>1. CycleInv => LeavesLast
    BY DEF CycleInv, ControlInv, Drains, Winds, LeavesLast
  <1>2. QED
    BY <1>1, CycleAlways, PTL

\* Each task is in the queue, in the hands of one worker or over, and in one of
\* these places only, however often it was handed back.
THEOREM NoTaskLostOrDoubled == Spec => []EachTaskOnce
  <1>1. CycleInv => EachTaskOnce
    <2> SUFFICES ASSUME CycleInv, phase \in {"drain", "leaving", "save"}, NEW t \in Task
                 PROVE  Cardinality(Places(t)) = 1
      BY DEF EachTaskOnce
    <2>0. queue \in Seq(Item) /\ DOMAIN queue = 1 .. Len(queue)
      BY LenProperties DEF CycleInv, TypeInv, QueueType
    <2>1. OnlyQueued(t) \/ OnlyHeld(t) \/ OnlyEnded(t)
      <3>1. CASE phase = "drain"
        BY <3>1 DEF CycleInv, PlacedInv
      <3>2. CASE phase # "drain"
        <4>1. /\ \A i \in 1 .. Len(queue) : queue[i] = Sentinel
              /\ \A w \in Worker : at[w] \in {"get", "left"}
              /\ ended = Task
          BY <3>2 DEF CycleInv, ControlInv, Winds
        <4>2. \A w \in Worker : hand[w] = NoTask
          BY <4>1 DEF CycleInv, TypeInv, WorkerType
        <4>3. NotQueued(t) /\ NotHeld(t)
          BY <4>1, <4>2, SentinelType, NoTaskIsNoTask DEF NotQueued, NotHeld
        <4>4. QED
          BY <4>1, <4>3 DEF OnlyEnded
      <3>3. QED
        BY <3>1, <3>2
    <2>2. \E p : Places(t) = {p}
      <3>1. CASE OnlyQueued(t)
        <4>1. PICK i \in 1 .. Len(queue) :
                   \A j \in 1 .. Len(queue) : queue[j].task = t <=> j = i
          BY <3>1 DEF OnlyQueued, OnceQueued
        <4>2. Places(t) = {<<"queue", i>>}
          BY <2>0, <3>1, <4>1 DEF Places, OnlyQueued, NotHeld
        <4>3. QED
          BY <4>2
      <3>2. CASE OnlyHeld(t)
        <4>1. PICK w \in Worker : \A v \in Worker : hand[v] = t <=> v = w
          BY <3>2 DEF OnlyHeld, OnceHeld
        <4>2. Places(t) = {<<"hand", w>>}
          BY <2>0, <3>2, <4>1 DEF Places, OnlyHeld, NotQueued
        <4>3. QED
          BY <4>2
      <3>3. CASE OnlyEnded(t)
        <4>1. Places(t) = {<<"ended", 0>>}
          BY <2>0, <3>3 DEF Places, OnlyEnded, NotHeld, NotQueued
        <4>2. QED
          BY <4>1
      <3>4. QED
        BY <2>1, <3>1, <3>2, <3>3
    <2>3. QED
      BY <2>2, FS_Singleton
  <1>2. QED
    BY <1>1, CycleAlways, PTL

--------------------------------------------------------------------------------
(* The pause between two searches of one worker.  A worker that has searched *)
(* and skipped its pause sits in front of an empty queue, and nobody who is  *)
(* not taking an item from the queue ever puts one into it.                  *)

SpacedInv ==
    phase = "drain" => \A w \in Worker :
        ~spaced[w] => at[w] \in {"search", "pause"} \/ (at[w] = "get" /\ queue = <<>>)

LEMMA SpacedNext == CycleInv /\ SpacedInv /\ [Next]_vars => SpacedInv'
  <1> SUFFICES ASSUME CycleInv, SpacedInv, [Next]_vars, phase' = "drain"
               PROVE  \A w \in Worker : ~spaced'[w] =>
                         at'[w] \in {"search", "pause"} \/ (at'[w] = "get" /\ queue' = <<>>)
    BY DEF SpacedInv
  <1>0. TypeInv /\ ControlInv /\ QueueType /\ WorkerType /\ ClientType
    BY DEF CycleInv, TypeInv
  <1> USE DEF SpacedInv, WorkerType, ClientType, Steps
  <1>1. CASE Background
    <2>1. UNCHANGED <<queue, at, spaced>>
      BY <1>1, BackgroundFacts
    <2>2. phase = "drain"
      BY <1>1 DEF Background, Gather, WriteCycleState, SaveChannelBackoff, Boot, Tick, Switch,
         vars, cycle
    <2>3. QED
      BY <2>1, <2>2
  <1>2. CASE Begin
    <2>1. \A w \in Worker : spaced'[w] = TRUE
      BY <1>2 DEF Begin
    <2>2. QED
      BY <2>1
  <1>3. CASE Join \/ Stops
    BY <1>3 DEF Join, Stops
  <1>4. ASSUME NEW w \in Worker, Leave(w) PROVE FALSE
    <2>1. Takes(w) /\ Last(queue) = Sentinel /\ phase = "drain"
      BY <1>4 DEF Leave
    <2>2. Len(queue) \in 1 .. Len(queue) /\ queue[Len(queue)] = Sentinel
      BY <1>0, <2>1, TopFacts DEF Top
    <2>3. QED
      BY <1>0, <2>1, <2>2 DEF ControlInv, Drains
  <1>5. ASSUME NEW w \in Worker, HandBack(w) \/ Drop(w) \/ Run(w), NEW v \in Worker, ~spaced'[v]
        PROVE  at'[v] \in {"search", "pause"} \/ (at'[v] = "get" /\ queue' = <<>>)
    <2>1. TakesTask(w) /\ at[w] = "get" /\ queue # <<>>
      BY <1>5 DEF HandBack, Drop, Run, TakesTask, Takes
    <2>2. phase = "drain"
      BY <1>0, <2>1, TaskWhileDraining
    <2>3. spaced[w]
      BY <2>1, <2>2
    <2>4. CASE v = w
      <3>1. CASE HandBack(w) \/ Drop(w)
        BY <1>5, <2>3, <2>4, <3>1 DEF HandBack, Drop, workers
      <3>2. CASE Run(w)
        <4>1. at' = [at EXCEPT ![w] = "search"] \/ UNCHANGED spaced
          BY <3>2 DEF Run, Goto
        <4>2. QED
          BY <1>0, <1>5, <2>3, <2>4, <4>1
      <3>3. QED
        BY <1>5, <3>1, <3>2
    <2>5. CASE v # w
      <3>1. at'[v] = at[v] /\ spaced'[v] = spaced[v]
        BY <1>0, <1>5, <2>5 DEF HandBack, Drop, Run, Goto, workers
      <3>2. QED
        BY <1>5, <2>1, <2>2, <3>1
    <2>6. QED
      BY <2>4, <2>5
  <1>6. ASSUME NEW w \in Worker, ConnectOk(w) \/ Finishes(w) \/ Resume(w),
               NEW v \in Worker, ~spaced'[v]
        PROVE  at'[v] \in {"search", "pause"} \/ (at'[v] = "get" /\ queue' = <<>>)
    <2>1. UNCHANGED <<phase, queue>>
      <3>1. CASE ConnectOk(w) \/ Resume(w)
        BY <3>1 DEF ConnectOk, Resume, cycle
      <3>2. CASE Finishes(w)
        BY <1>0, <3>2, FinishFacts DEF Finish
      <3>3. QED
        BY <1>6, <3>1, <3>2
    <2>2. CASE ConnectOk(w)
      <3>1. at' = [at EXCEPT ![w] = "search"] /\ spaced' = [spaced EXCEPT ![w] = FALSE]
        BY <2>2 DEF ConnectOk, Goto
      <3>2. QED
        BY <1>0, <1>6, <2>1, <3>1
    <2>3. CASE Finishes(w)
      <3>1. /\ UNCHANGED spaced
            /\ \/ at' = [at EXCEPT ![w] = "pause"]
               \/ at' = [at EXCEPT ![w] = "get"] /\ queue = <<>>
        BY <1>0, <2>3, FinishFacts DEF Finish, Finishes, ConnectFails, SearchOk, SearchRefused,
           SearchUnreachable, Goto
      <3>2. QED
        BY <1>0, <1>6, <2>1, <3>1
    <2>4. CASE Resume(w)
      <3>1. /\ at[w] \in {"pause", "yield"} /\ at' = [at EXCEPT ![w] = "get"]
            /\ spaced' = [spaced EXCEPT ![w] = spaced[w] \/ at[w] = "pause"]
        BY <2>4 DEF Resume, Goto
      <3>2. CASE v = w
        <4>1. spaced'[w] = (spaced[w] \/ at[w] = "pause")
          BY <1>0, <3>1
        <4>2. ~spaced[w] /\ at[w] = "yield"
          BY <1>6, <3>1, <3>2, <4>1
        <4>3. QED
          BY <2>1, <4>2
      <3>3. CASE v # w
        BY <1>0, <1>6, <2>1, <3>1, <3>3
      <3>4. QED
        BY <3>2, <3>3
    <2>5. QED
      BY <1>6, <2>2, <2>3, <2>4
  <1>7. QED
    BY <1>1, <1>2, <1>3, <1>4, <1>5, <1>6, StepCases

\* Two searches of one worker in a cycle always have a pause between them.
THEOREM SearchesArePaused == Spec => SearchesAreSpaced
  <1>1. Init => SpacedInv
    BY DEF Init, SpacedInv
  <1>2. CycleInv /\ SpacedInv /\ [Next]_vars => [\A w \in Worker : Searches(w) => spaced[w]]_vars
    <2> SUFFICES ASSUME CycleInv, SpacedInv, [Next]_vars, NEW w \in Worker, Searches(w)
                 PROVE  spaced[w]
      OBVIOUS
    <2>0. TypeInv /\ ControlInv /\ QueueType /\ WorkerType
      BY DEF CycleInv, TypeInv
    <2>1. at[w] # "search" /\ at'[w] = "search"
      BY DEF Searches
    <2>2. TakesTask(w) \/ at[w] = "connect"
      <3>1. CASE Background \/ Join
        BY <2>1, <3>1, BackgroundFacts DEF Join, workers
      <3>2. CASE Begin \/ Stops
        BY <2>1, <3>2 DEF Begin, Stops
      <3>3. ASSUME NEW v \in Worker, Leave(v) \/ HandBack(v) \/ Drop(v) \/ Resume(v)
            PROVE  FALSE
        BY <2>0, <2>1, <3>3 DEF Leave, HandBack, Drop, Resume, Goto, workers, WorkerType
      <3>4. ASSUME NEW v \in Worker, Finishes(v)
            PROVE  FALSE
        BY <2>0, <2>1, <3>4, FinishFacts DEF Finish, Goto, WorkerType
      <3>5. ASSUME NEW v \in Worker, Run(v) \/ ConnectOk(v)
            PROVE  TakesTask(w) \/ at[w] = "connect"
        BY <2>0, <2>1, <3>5 DEF Run, ConnectOk, Goto, WorkerType
      <3>6. QED
        BY <3>1, <3>2, <3>3, <3>4, <3>5, StepCases
    <2>3. phase = "drain"
      BY <2>0, <2>2, TaskWhileDraining
    <2>4. QED
      BY <2>2, <2>3 DEF SpacedInv, TakesTask, Takes
  <1>3. QED
    BY <1>1, <1>2, CycleAlways, SpacedNext, PTL DEF Spec, SearchesAreSpaced

--------------------------------------------------------------------------------
(* Who refused a task: only the item on top of the queue has been refused,   *)
(* and a worker that refused it has run nothing since, so that its failures  *)
(* are still on record.                                                      *)

Fails(w, c) == backoff[w].attempts > 0 \/ backoff[<<w, c>>].attempts > 0
WaitsForAFailure(b) == b.wait > 0 => b.attempts > 0
WaitInv == \A k \in Key : WaitsForAFailure(backoff[k]) /\ WaitsForAFailure(saved[k])
HasRefused(v, c) ==
    /\ Len(queue) > 0 /\ queue[Len(queue)].task[2] = c
    /\ v \in queue[Len(queue)].skipped_by
RefusalInv ==
    phase = "drain" =>
        /\ \A i \in 1 .. Len(queue) : i # Len(queue) => queue[i].skipped_by = {}
        /\ \A v \in Worker, c \in Channel :
              HasRefused(v, c) => at[v] \in {"get", "yield"} /\ Fails(v, c)

LEMMA RegistryFacts ==
    ASSUME StoreType, NEW k \in Key, Reset(k) \/ RecordFailure(k)
    PROVE  /\ \A j \in Key : j # k => backoff'[j] = backoff[j]
           /\ RecordFailure(k) => backoff'[k].attempts > 0
           /\ WaitsForAFailure(backoff'[k])
  <1>1. backoff \in [Key -> Failure] /\ backoff[k] \in Failure
    BY DEF StoreType
  <1>2. CASE Reset(k)
    <2>1. backoff' = [backoff EXCEPT ![k] = Clear]
      BY <1>2 DEF Reset
    <2>2. ~RecordFailure(k) \/ Clear = Failed(backoff[k])
      BY <1>1, <2>1 DEF RecordFailure
    <2>3. Clear.attempts = 0 /\ Clear.wait = 0
      BY DEF Clear
    <2>4. Failed(backoff[k]).attempts > 0
      BY <1>1, DelayFacts DEF Failed, Lowest, Failure
    <2>5. QED
      BY <1>1, <2>1, <2>2, <2>3, <2>4 DEF WaitsForAFailure
  <1>3. CASE RecordFailure(k)
    <2>1. backoff' = [backoff EXCEPT ![k] = Failed(backoff[k])]
      BY <1>3 DEF RecordFailure
    <2>2. Failed(backoff[k]).attempts > 0
      BY <1>1, DelayFacts DEF Failed, Lowest, Failure
    <2>3. QED
      BY <1>1, <2>1, <2>2 DEF WaitsForAFailure
  <1>4. QED
    BY <1>2, <1>3

\* The registry changes only at the keys of a worker that is running a task, or
\* is about to.
LEMMA RegistryUses ==
    ASSUME CycleInv, NEW w \in Worker, Run(w) \/ ConnectOk(w) \/ Finishes(w)
    PROVE  \/ UNCHANGED backoff
           \/ \E k \in {w} \cup {<<w, c>> : c \in Channel} :
                 k \in Key /\ (Reset(k) \/ RecordFailure(k))
  <1>1. WorkerType
    BY DEF CycleInv, TypeInv
  <1>2. CASE Run(w) \/ ConnectOk(w)
    BY <1>2, KeyFacts DEF Run, ConnectOk
  <1>3. CASE Finishes(w)
    <2>1. hand[w] \in Task
      BY <1>1, <1>3, FinishFacts
    <2>2. w \in Key /\ hand[w][2] \in Channel /\ <<w, hand[w][2]>> \in Key
      BY <2>1, KeyFacts
    <2>3. UNCHANGED backoff \/ (\E k \in {w, <<w, hand[w][2]>>} : Reset(k) \/ RecordFailure(k))
      BY <1>3 DEF Finishes, ConnectFails, SearchOk, SearchRefused, SearchUnreachable
    <2>4. QED
      BY <2>2, <2>3
  <1>4. QED
    BY <1>2, <1>3

LEMMA OthersFail ==
    ASSUME CycleInv, NEW w \in Worker, Run(w) \/ ConnectOk(w) \/ Finishes(w),
           NEW v \in Worker, v # w, NEW c \in Channel, Fails(v, c)
    PROVE  Fails(v, c)'
  <1>1. v \in Key /\ <<v, c>> \in Key
    BY DEF Key
  <1>2. \A k \in {w} \cup {<<w, d>> : d \in Channel} : v # k /\ <<v, c>> # k
    BY SearchCycleAssumption
  <1>3. StoreType
    BY DEF CycleInv, TypeInv
  <1>4. backoff'[v] = backoff[v] /\ backoff'[<<v, c>>] = backoff[<<v, c>>]
    BY <1>1, <1>2, <1>3, RegistryUses, RegistryFacts
  <1>5. QED
    BY <1>4 DEF Fails

LEMMA WaitNext == CycleInv /\ WaitInv /\ [Next]_vars => WaitInv'
  <1> SUFFICES ASSUME CycleInv, WaitInv, [Next]_vars PROVE WaitInv'
    OBVIOUS
  <1>0. StoreType
    BY DEF CycleInv, TypeInv
  <1>1. CASE UNCHANGED <<backoff, saved>>
    BY <1>1 DEF WaitInv
  <1>2. CASE Background
    <2>1. CASE SaveChannelBackoff
      <3>1. UNCHANGED backoff /\ (saved' = backoff \/ UNCHANGED saved)
        BY <2>1 DEF SaveChannelBackoff
      <3>2. QED
        BY <3>1 DEF WaitInv
    <2>2. CASE Boot
      BY <2>2 DEF Boot, WaitInv, store
    <2>3. CASE Tick
      <3>1. ASSUME NEW b \in Failure, WaitsForAFailure(b)
            PROVE  WaitsForAFailure(Aged(b))
        BY <3>1 DEF WaitsForAFailure, Aged, Failure
      <3>2. \A k \in Key : backoff'[k] = Aged(backoff[k]) /\ saved'[k] = Aged(saved[k])
        BY <2>3 DEF Tick
      <3>3. QED
        BY <1>0, <3>1, <3>2 DEF WaitInv, StoreType
    <2>4. CASE Gather \/ WriteCycleState \/ (\E w \in Worker : Switch(w)) \/ UNCHANGED vars
      BY <1>1, <2>4 DEF Gather, WriteCycleState, Switch, vars, store
    <2>5. QED
      BY <1>2, <2>1, <2>2, <2>3, <2>4 DEF Background
  <1>3. CASE Begin \/ Join
    BY <1>1, <1>3 DEF Begin, Join, store
  <1>4. CASE Stops
    <2>1. UNCHANGED saved /\ \A k \in Key : backoff'[k] = Clear
      BY <1>4 DEF Stops
    <2>2. WaitsForAFailure(Clear)
      BY DEF WaitsForAFailure, Clear
    <2>3. QED
      BY <2>1, <2>2 DEF WaitInv
  <1>5. ASSUME NEW w \in Worker, Leave(w) \/ HandBack(w) \/ Drop(w) \/ Resume(w)
        PROVE  WaitInv'
    BY <1>1, <1>5 DEF Leave, HandBack, Drop, Resume, store
  <1>6. ASSUME NEW w \in Worker, Run(w) \/ ConnectOk(w) \/ Finishes(w)
        PROVE  WaitInv'
    <2>1. UNCHANGED saved
      BY <1>6 DEF Run, ConnectOk, Finishes, ConnectFails, SearchOk, SearchRefused,
         SearchUnreachable, Finish, store
    <2>2. CASE UNCHANGED backoff
      BY <1>1, <2>1, <2>2
    <2>3. ASSUME NEW k \in Key, Reset(k) \/ RecordFailure(k)
          PROVE  WaitInv'
      <3>1. \A j \in Key : WaitsForAFailure(backoff'[j])
        BY <1>0, <2>3, RegistryFacts DEF WaitInv
      <3>2. QED
        BY <2>1, <3>1 DEF WaitInv
    <2>4. QED
      BY <1>6, <2>2, <2>3, RegistryUses
  <1>7. QED
    BY <1>2, <1>3, <1>4, <1>5, <1>6, StepCases

LEMMA BlockedFails ==
    ASSUME WaitInv, NEW w \in Worker, NEW c \in Channel, Blocked(w, c)
    PROVE  Fails(w, c)
  <1>1. w \in Key /\ <<w, c>> \in Key
    BY DEF Key
  <1>2. backoff[w].wait > 0 \/ backoff[<<w, c>>].wait > 0
    BY DEF Blocked, IsInBackoff
  <1>3. QED
    BY <1>1, <1>2 DEF WaitInv, WaitsForAFailure, Fails

LEMMA RefusalNext == CycleInv /\ WaitInv /\ RefusalInv /\ [Next]_vars => RefusalInv'
  <1> SUFFICES ASSUME CycleInv, WaitInv, RefusalInv, [Next]_vars, phase' = "drain"
               PROVE  /\ \A i \in 1 .. Len(queue') : i # Len(queue') => queue'[i].skipped_by = {}
                      /\ \A v \in Worker, c \in Channel :
                            HasRefused(v, c)' => at'[v] \in {"get", "yield"} /\ Fails(v, c)'
    BY DEF RefusalInv
  <1>0. TypeInv /\ ControlInv /\ QueueType /\ WorkerType /\ Len(queue) \in Nat
    BY DEF CycleInv, TypeInv, QueueType
  <1> DEFINE Goal == /\ \A i \in 1 .. Len(queue') : i # Len(queue') => queue'[i].skipped_by = {}
                     /\ \A v \in Worker, c \in Channel :
                           HasRefused(v, c)' => at'[v] \in {"get", "yield"} /\ Fails(v, c)'
  <1>1. ASSUME phase = "drain", UNCHANGED queue,
               \A v \in Worker, c \in Channel :
                   at[v] \in {"get", "yield"} /\ Fails(v, c)
                   => at'[v] \in {"get", "yield"} /\ Fails(v, c)'
        PROVE  Goal
    BY <1>1 DEF RefusalInv, HasRefused
  <1>2. CASE Background
    <2>1. UNCHANGED <<queue, at>>
      BY <1>2, BackgroundFacts
    <2>2. phase = "drain"
      BY <1>2 DEF Background, Gather, WriteCycleState, SaveChannelBackoff, Boot, Tick, Switch,
         vars, cycle
    <2>3. \A k \in Key : backoff'[k].attempts = backoff[k].attempts
      <3>1. CASE Tick
        BY <3>1 DEF Tick, Aged, CycleInv, TypeInv, StoreType, Failure
      <3>2. CASE ~Tick
        BY <1>2, <2>2, <3>2 DEF Background, Gather, WriteCycleState, SaveChannelBackoff, Boot,
           Switch, vars
      <3>3. QED
        BY <3>1, <3>2
    <2>4. QED
      BY <1>1, <2>1, <2>2, <2>3 DEF Fails, Key
  <1>3. CASE Begin
    <2>1. \A i \in 1 .. Len(queue') : queue'[i].skipped_by = {}
      BY <1>3, FilledFacts DEF Begin
    <2>2. queue' \in Seq(Item)
      BY <1>3, FilledFacts DEF Begin
    <2>3. Len(queue') > 0 => Len(queue') \in 1 .. Len(queue')
      BY <2>2
    <2>4. \A v \in Worker, c \in Channel : ~HasRefused(v, c)'
      BY <2>1, <2>3 DEF HasRefused
    <2>5. QED
      BY <2>1, <2>4
  <1>4. CASE Join \/ Stops
    BY <1>4 DEF Join, Stops
  <1>5. ASSUME NEW w \in Worker, Leave(w) PROVE FALSE
    <2>1. Takes(w) /\ Last(queue) = Sentinel /\ phase = "drain"
      BY <1>5 DEF Leave
    <2>2. Len(queue) \in 1 .. Len(queue) /\ queue[Len(queue)] = Sentinel
      BY <1>0, <2>1, TopFacts DEF Top
    <2>3. QED
      BY <1>0, <2>1, <2>2 DEF ControlInv, Drains
  <1>6. ASSUME NEW w \in Worker, Drop(w) \/ Run(w)
        PROVE  Goal
    <2>1. TakesTask(w) /\ queue' = Front(queue)
      BY <1>6 DEF Drop, Run
    <2>2. phase = "drain"
      BY <1>0, <2>1, TaskWhileDraining
    <2>3. /\ Len(queue) \in Nat \ {0} /\ Len(queue') = Len(queue) - 1
          /\ \A i \in 1 .. Len(queue) - 1 : queue'[i] = queue[i]
      BY <1>0, <2>1, TopFacts
    <2>4. \A i \in 1 .. Len(queue') : queue'[i].skipped_by = {}
      BY <2>2, <2>3 DEF RefusalInv
    <2>5. Len(queue') > 0 => Len(queue') \in 1 .. Len(queue')
      BY <2>3
    <2>6. \A v \in Worker, c \in Channel : ~HasRefused(v, c)'
      BY <2>4, <2>5 DEF HasRefused
    <2>7. QED
      BY <2>4, <2>6
  <1>7. ASSUME NEW w \in Worker, HandBack(w)
        PROVE  Goal
    <2>1. /\ phase = "drain" /\ Len(queue') = Len(queue) /\ Len(queue) \in Nat \ {0}
          /\ Top = queue[Len(queue)] /\ Top.task \in Task
          /\ queue'[Len(queue)].task = Top.task
          /\ queue'[Len(queue)].skipped_by = Refusers(w)
          /\ \A i \in 1 .. Len(queue) - 1 : queue'[i] = queue[i]
      BY <1>0, <1>7, HandBackFacts, SentinelType
    <2>2. /\ Blocked(w, Top.task[2]) /\ at' = [at EXCEPT ![w] = "yield"] /\ UNCHANGED backoff
      BY <1>7 DEF HandBack, Goto
    <2>3. \A i \in 1 .. Len(queue') : i # Len(queue') => queue'[i].skipped_by = {}
      BY <2>1 DEF RefusalInv
    <2>4. ASSUME NEW v \in Worker, NEW c \in Channel, HasRefused(v, c)'
          PROVE  at'[v] \in {"get", "yield"} /\ Fails(v, c)'
      <3>1. c = Top.task[2] /\ (v = w \/ v \in Top.skipped_by)
        BY <2>1, <2>4 DEF HasRefused, Refusers
      <3>2. CASE v = w
        <4>1. at'[v] = "yield"
          BY <1>0, <2>2, <3>2 DEF WorkerType
        <4>2. Fails(v, c)
          BY <2>2, <3>1, <3>2, BlockedFails
        <4>3. QED
          BY <2>2, <4>1, <4>2 DEF Fails
      <3>3. CASE v # w
        <4>1. HasRefused(v, c)
          BY <2>1, <3>1, <3>3 DEF HasRefused
        <4>2. at[v] \in {"get", "yield"} /\ Fails(v, c)
          BY <2>1, <4>1 DEF RefusalInv
        <4>3. QED
          BY <1>0, <2>2, <3>3, <4>2 DEF Fails, WorkerType
      <3>4. QED
        BY <3>2, <3>3
    <2>5. QED
      BY <2>3, <2>4
  <1>8. ASSUME NEW w \in Worker, ConnectOk(w) \/ Finishes(w) \/ Resume(w)
        PROVE  Goal
    <2>1. at[w] \in {"connect", "search", "pause", "yield"}
      BY <1>0, <1>8, FinishFacts DEF ConnectOk, Resume
    <2>2. phase = "drain"
      BY <1>0, <2>1, TaskWhileDraining
    <2>3. UNCHANGED queue /\ \E s \in Steps : at' = [at EXCEPT ![w] = s]
      <3>1. CASE ConnectOk(w) \/ Resume(w)
        BY <3>1 DEF ConnectOk, Resume, Goto, cycle, Steps
      <3>2. CASE Finishes(w)
        BY <1>0, <3>2, FinishFacts DEF Finish, Goto, Steps
      <3>3. QED
        BY <1>8, <3>1, <3>2
    <2>4. ASSUME NEW v \in Worker, NEW c \in Channel, at[v] \in {"get", "yield"}, Fails(v, c)
          PROVE  at'[v] \in {"get", "yield"} /\ Fails(v, c)'
      <3>1. CASE Resume(w)
        BY <1>0, <2>4, <3>1 DEF Resume, Goto, Fails, WorkerType
      <3>2. CASE ConnectOk(w) \/ Finishes(w)
        <4>1. at[w] \in {"connect", "search"}
          BY <1>0, <3>2, FinishFacts DEF ConnectOk
        <4>2. v # w
          BY <2>4, <4>1
        <4>3. Fails(v, c)'
          BY <2>4, <3>2, <4>2, OthersFail
        <4>4. at'[v] = at[v]
          BY <1>0, <2>3, <4>2 DEF WorkerType
        <4>5. QED
          BY <2>4, <4>3, <4>4
      <3>3. QED
        BY <1>8, <3>1, <3>2
    <2>5. QED
      BY <1>1, <2>2, <2>3, <2>4
  <1>9. QED
    BY <1>2, <1>3, <1>4, <1>5, <1>6, <1>7, <1>8, StepCases

\* A task is dropped only while every worker has a failure on record, although
\* each refused it at a moment of its own.
THEOREM DropsAreUnanimous == Spec => DropIsUnanimous
  <1>1. Init => WaitInv /\ RefusalInv
    BY DEF Init, WaitInv, WaitsForAFailure, Clear, RefusalInv
  <1>2. CycleInv /\ WaitInv /\ RefusalInv /\ [Next]_vars
        => [\A t \in Task : t \in dropped' \ dropped =>
                \A w \in Worker : ~Spotless(w, t[2])]_vars
    <2> SUFFICES ASSUME CycleInv, WaitInv, RefusalInv, [Next]_vars,
                        NEW t \in Task, t \in dropped' \ dropped, NEW v \in Worker
                 PROVE  ~Spotless(v, t[2])
      OBVIOUS
    <2>0. TypeInv /\ ControlInv /\ QueueType /\ WorkerType
      BY DEF CycleInv, TypeInv
    <2>1. PICK w \in Worker : Drop(w)
      <3>1. CASE Background \/ Begin \/ Join \/ Stops
        BY <3>1, BackgroundFacts DEF Begin, Join, Stops
      <3>2. ASSUME NEW w \in Worker,
                   Leave(w) \/ HandBack(w) \/ Run(w) \/ ConnectOk(w) \/ Resume(w)
            PROVE  FALSE
        BY <3>2 DEF Leave, HandBack, Run, ConnectOk, Resume, cycle
      <3>3. ASSUME NEW w \in Worker, Finishes(w)
            PROVE  FALSE
        BY <2>0, <3>3, FinishFacts DEF Finish
      <3>4. QED
        BY <3>1, <3>2, <3>3, StepCases
    <2>2. /\ TakesTask(w) /\ Blocked(w, Top.task[2])
          /\ Cardinality(Refusers(w)) >= Cardinality(Worker)
          /\ dropped' = dropped \cup {Top.task}
      BY <2>1 DEF Drop
    <2>3. t = Top.task
      BY <2>2
    <2>4. phase = "drain" /\ Top \in Item /\ Top = queue[Len(queue)] /\ Len(queue) > 0
      BY <2>0, <2>2, TaskWhileDraining, TopFacts
    <2>5. Refusers(w) \in SUBSET Worker
      BY <2>4 DEF Refusers, Item
    <2>6. Refusers(w) = Worker
      <3>1. /\ IsFiniteSet(Refusers(w)) /\ Cardinality(Refusers(w)) <= Cardinality(Worker)
            /\ Cardinality(Worker) = Cardinality(Refusers(w)) => Worker = Refusers(w)
        BY <2>5, SearchCycleAssumption, FS_Subset
      <3>2. Cardinality(Refusers(w)) \in Nat /\ Cardinality(Worker) \in Nat
        BY <3>1, SearchCycleAssumption, FS_CardinalityType
      <3>3. QED
        BY <2>2, <3>1, <3>2
    <2>7. t[2] \in Channel
      BY DEF Task
    <2>8. Fails(v, t[2])
      <3>1. CASE v = w
        BY <2>2, <2>3, <2>7, <3>1, BlockedFails
      <3>2. CASE v # w
        <4>1. v \in Top.skipped_by
          BY <2>6, <3>2 DEF Refusers
        <4>2. HasRefused(v, t[2])
          BY <2>3, <2>4, <4>1 DEF HasRefused
        <4>3. QED
          BY <2>4, <2>7, <4>2 DEF RefusalInv
      <3>3. QED
        BY <3>1, <3>2
    <2>9. QED
      BY <2>8 DEF Fails, Spotless, Clear
  <1>3. QED
    BY <1>1, <1>2, CycleAlways, WaitNext, RefusalNext, PTL DEF Spec, DropIsUnanimous

================================================================================
