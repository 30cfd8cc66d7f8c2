--------------------------- MODULE SchedulerSteps ---------------------------
(***************************************************************************)
(* The steps of the scheduling loop, of the workers and of the completion and*)
(* re-due channels preserve the inductive invariant of the scheduler.      *)
(***************************************************************************)
EXTENDS SchedulerInvariant

\* The passage of time only changes phases.
LEMMA TickInv ==
  ASSUME IInv, NEW k \in Keys, Tick(k)
  PROVE  IInv'
<1> USE DEF Tick
<1>1. PICK t \in Phases : items' = [items EXCEPT ![k].phase = t]
  BY DEF Phases
<1>2. DOMAIN items' = DOMAIN items
  BY <1>1
<1>3. \A x \in DOMAIN items : /\ items[x] \in Item /\ items'[x] \in Item
                              /\ items'[x].queued = items[x].queued
                              /\ items'[x].inFlight = items[x].inFlight
                              /\ items'[x].runID = items[x].runID
  <2> \A x \in DOMAIN items : items[x] \in Item
    BY Zenon DEF IInv, TypeOK
  <2> HIDE DEF Tick
  <2> QED
    BY <1>1 DEF Item
<1>4. TypeOK'
  BY <1>2, <1>3, Zenon DEF IInv, TypeOK, counters, control, channels, environment
<1>5. QED
  BY <1>2, <1>3, <1>4, ItemsFrame DEF control, channels

\* moveDueTasksToReady moves one item from the heap to its ready queue.
LEMMA MoveDueTaskInv ==
  ASSUME IInv, NEW k \in Keys, MoveDueTask(k)
  PROVE  IInv'
<1> USE DEF MoveDueTask
<1>1. /\ k \in heap /\ k \in DOMAIN items /\ items[k] \in Item
      /\ ~items[k].queued /\ ~items[k].inFlight
  BY Zenon DEF IInv, Places, TypeOK
<1>2. Priority(k) \in 0..2
  BY PriorityRange
<1>3. CASE items[k].disabled
  <2>1. /\ DOMAIN items' = DOMAIN items \ {k} /\ ready' = ready
        /\ \A x \in DOMAIN items' : items'[x] = items[x]
    BY <1>3 DEF Restrict
  <2>2. InFlightKeys' = InFlightKeys
    BY <1>1, <2>1 DEF InFlightKeys
  <2>3. TypeOK'
    BY <2>1, Zenon DEF IInv, TypeOK, counters, control, channels, environment
  <2>4. \A p \in 0..2 : QueuedAt(p)' = QueuedAt(p)
    BY <1>1, <2>1 DEF QueuedAt
  <2>5. Places'
    <3>1. \A p \in 0..2 : Holds(ready[p], QueuedAt(p))'
      BY <2>1, <2>4, Zenon DEF IInv, Places
    <3>2. QED
      BY <2>1, <3>1, Zenon DEF IInv, Places
  <2>6. CountersExact'
    BY <2>2, CountersFrame, Zenon DEF IInv
  <2>7. Runs' /\ TasksInFlight' /\ TasksDistinct'
    <3>1. \A x \in InFlightKeys : items'[x].runID = items[x].runID
      BY <1>1, <2>1 DEF InFlightKeys
    <3>2. QED
      BY <2>2, <3>1, TasksFrame, Zenon DEF IInv, control, channels
  <2>8. QED
    BY <2>3, <2>5, <2>6, <2>7, Zenon DEF IInv
<1>4. CASE ~items[k].disabled
  <2>1. /\ DOMAIN items' = DOMAIN items
        /\ items' = [items EXCEPT ![k].queued = TRUE]
        /\ ready' = [ready EXCEPT ![Priority(k)] = Append(@, k)]
    BY <1>1, <1>4
  <2>2. /\ items'[k] \in Item /\ items'[k].queued
        /\ items'[k].inFlight = items[k].inFlight
        /\ items'[k].runID = items[k].runID
        /\ \A x \in DOMAIN items : x # k => items'[x] = items[x]
    BY <1>1, <2>1, Zenon DEF Item
  <2>3. InFlightKeys' = InFlightKeys
    BY <1>1, <2>1, <2>2 DEF InFlightKeys
  <2>4. TypeOK'
    <3>1. ready' \in [0..2 -> Seq(Keys)]
      <4>1. ready \in [0..2 -> Seq(Keys)]
        BY Zenon DEF IInv, TypeOK
      <4>2. QED
        BY <1>2, <2>1, <4>1
    <3>2. QED
      BY <2>1, <2>2, <3>1, Zenon DEF IInv, TypeOK, counters, control, channels, environment
  <2>5. Places'
    <3>1. \A p \in 0..2 : Holds(ready[p], QueuedAt(p))'
      <4> SUFFICES ASSUME NEW p \in 0..2
                   PROVE  Holds(ready'[p], QueuedAt(p)')
        OBVIOUS
      <4>1. Holds(ready[p], QueuedAt(p)) /\ k \notin QueuedAt(p)
        BY <1>1, Zenon DEF IInv, Places, QueuedAt
      <4>2. CASE p = Priority(k)
        <5>1. QueuedAt(p)' = QueuedAt(p) \cup {k}
          BY <4>2, <1>1, <2>1, <2>2 DEF QueuedAt
        <5>2. ready'[p] = Append(ready[p], k)
          BY <4>2, <1>2, <2>1, Zenon DEF IInv, TypeOK
        <5>3. QED
          BY <4>1, <5>1, <5>2, AppendHolds
      <4>3. CASE p # Priority(k)
        <5>1. QueuedAt(p)' = QueuedAt(p)
          BY <4>3, <1>1, <2>1, <2>2 DEF QueuedAt
        <5>2. ready'[p] = ready[p]
          BY <4>3, <2>1, Zenon DEF IInv, TypeOK
        <5>3. QED
          BY <4>1, <5>1, <5>2
      <4>4. QED
        BY <4>2, <4>3
    <3>2. QED
      BY <1>1, <2>1, <2>2, <3>1, Zenon DEF IInv, Places
  <2>6. CountersExact'
    BY <2>3, CountersFrame, Zenon DEF IInv
  <2>7. Runs' /\ TasksInFlight' /\ TasksDistinct'
    <3>1. \A x \in InFlightKeys : items'[x].runID = items[x].runID
      BY <2>1, <2>2 DEF InFlightKeys
    <3>2. QED
      BY <2>3, <3>1, TasksFrame, Zenon DEF IInv, control, channels
  <2>8. QED
    BY <2>4, <2>5, <2>6, <2>7, Zenon DEF IInv
<1>5. QED
  BY <1>3, <1>4

\* dispatchReady drops a disabled item, or sends its task and charges it.
LEMMA DispatchTaskInv ==
  ASSUME IInv, NEW p \in 0..2, NEW i \in DOMAIN ready[p], DispatchTask(p, i)
  PROVE  IInv'
<1> DEFINE k == ready[p][i]
<1>1. Holds(ready[p], QueuedAt(p)) /\ ready[p] \in Seq(Keys)
  BY Zenon DEF IInv, Places, TypeOK
<1>2. /\ k \in QueuedAt(p) /\ k \in DOMAIN items /\ k \in Keys
      /\ items[k] \in Item /\ items[k].queued /\ ~items[k].inFlight /\ k \notin heap
      /\ Priority(k) = p
  <2>1. k \in QueuedAt(p)
    BY <1>1 DEF Holds
  <2>2. QED
    BY <2>1, Zenon DEF QueuedAt, IInv, Places, TypeOK
<1>3. /\ ready' = [ready EXCEPT ![p] = RemoveAt(@, i)]
      /\ pc = "dispatch"
      /\ UNCHANGED <<heap, control, pc, completions, redueRequests, worker, environment>>
  BY DEF DispatchTask
<1>4. ready' \in [0..2 -> Seq(Keys)]
  <2>1. RemoveAt(ready[p], i) \in Seq(Keys)
    BY <1>1, RemoveAtProperties, LenProperties
  <2>2. QED
    BY <1>3, <2>1, Zenon DEF IInv, TypeOK
<1>5. ASSUME \A q \in 0..2 : QueuedAt(q)' = QueuedAt(q) \ {k}
      PROVE  \A q \in 0..2 : Holds(ready'[q], QueuedAt(q)')
  <2> SUFFICES ASSUME NEW q \in 0..2 PROVE Holds(ready'[q], QueuedAt(q)')
    OBVIOUS
  <2>1. CASE q = p
    <3>1. ready'[q] = RemoveAt(ready[p], i)
      BY <2>1, <1>3, Zenon DEF IInv, TypeOK
    <3>2. QED
      BY <2>1, <3>1, <1>1, <1>5, RemoveAtHolds
  <2>2. CASE q # p
    <3>1. ready'[q] = ready[q]
      BY <2>2, <1>3, Zenon DEF IInv, TypeOK
    <3>2. QueuedAt(q)' = QueuedAt(q)
      BY <2>2, <1>2, <1>5 DEF QueuedAt
    <3>3. QED
      BY <3>1, <3>2, Zenon DEF IInv, Places
  <2>3. QED
    BY <2>1, <2>2
<1> HIDE DEF k
<1>6. CASE items[k].disabled
  <2>1. /\ DOMAIN items' = DOMAIN items \ {k}
        /\ \A x \in DOMAIN items' : items'[x] = items[x]
        /\ UNCHANGED <<counters, tasks>>
    BY <1>6 DEF DispatchTask, Restrict, k
  <2>2. InFlightKeys' = InFlightKeys
    BY <1>2, <2>1 DEF InFlightKeys
  <2>3. TypeOK'
    BY <1>3, <1>4, <2>1, Zenon DEF IInv, TypeOK, counters, control, environment
  <2>4. \A q \in 0..2 : QueuedAt(q)' = QueuedAt(q) \ {k}
    BY <2>1 DEF QueuedAt
  <2>5. Places'
    BY <1>2, <1>3, <1>5, <2>1, <2>4, Zenon DEF IInv, Places
  <2>6. CountersExact'
    BY <2>1, <2>2, CountersFrame, Zenon DEF IInv
  <2>7. Runs' /\ TasksInFlight' /\ TasksDistinct'
    <3>1. \A x \in InFlightKeys : items'[x].runID = items[x].runID
      BY <1>2, <2>1 DEF InFlightKeys
    <3>2. QED
      BY <1>3, <2>1, <2>2, <3>1, TasksFrame, Zenon DEF IInv, control
  <2>8. QED
    BY <2>3, <2>5, <2>6, <2>7, Zenon DEF IInv
<1>7. CASE ~items[k].disabled
  <2>1. /\ tasks' = Append(tasks, [key |-> k, run |-> runID])
        /\ items' = [items EXCEPT ![k].queued = FALSE, ![k].inFlight = TRUE,
                                  ![k].runID = runID]
        /\ Charge(k)
    BY <1>7 DEF DispatchTask, k
  <2>2. runID \in Nat
    BY Zenon DEF IInv, TypeOK
  <2>3. /\ DOMAIN items' = DOMAIN items
        /\ items'[k] \in Item /\ ~items'[k].queued /\ items'[k].inFlight
        /\ items'[k].runID = runID
        /\ \A x \in DOMAIN items : x # k => items'[x] = items[x]
    BY <1>2, <2>1, <2>2, Zenon DEF Item
  <2>4. InFlightKeys' = InFlightKeys \cup {k} /\ k \notin InFlightKeys
    BY <1>2, <2>3 DEF InFlightKeys
  <2>5. TypeOK'
    <3>1. [key |-> k, run |-> runID] \in Task
      BY <1>2, <2>2 DEF Task
    <3>2. tasks' \in Seq(Task)
      BY <2>1, <3>1, SMTT(30) DEF IInv, TypeOK
    <3>3. /\ inFlight' \in Nat /\ inFlightByKind' \in Nat
          /\ inFlightByClass' \in [VolatilityClasses -> Nat]
      <4>1. /\ inFlight \in Nat /\ inFlightByKind \in Nat
            /\ inFlightByClass \in [VolatilityClasses -> Nat]
        BY Zenon DEF IInv, TypeOK
      <4>2. Charge(k) /\ (~Essential(k) => Class(k) \in VolatilityClasses)
        BY <2>1, <1>2, ClassRange
      <4>3. QED
        BY <4>1, <4>2 DEF Charge, incrementInFlight
    <3>4. /\ inFlightByScope' \in [ScopeKeys -> Nat]
          /\ essentialByScope' \in [ScopeKeys -> Nat]
      <4>1. /\ inFlightByScope \in [ScopeKeys -> Nat]
            /\ essentialByScope \in [ScopeKeys -> Nat]
        BY Zenon DEF IInv, TypeOK
      <4>2. incrementIsolationCounts(k)
        BY <2>1, Zenon DEF Charge
      <4>3. QED
        BY <4>1, <4>2 DEF incrementIsolationCounts
    <3>5. QED
      BY <1>3, <1>4, <2>3, <3>2, <3>3, <3>4, Zenon
         DEF IInv, TypeOK, control, environment
  <2>6. Places'
    <3>1. \A q \in 0..2 : QueuedAt(q)' = QueuedAt(q) \ {k}
      BY <1>2, <2>3 DEF QueuedAt
    <3>2. \A q \in 0..2 : Holds(ready'[q], QueuedAt(q)')
      BY <3>1, <1>5
    <3>3. \A x \in DOMAIN items :
            \/ x \in heap /\ ~items'[x].queued /\ ~items'[x].inFlight
            \/ x \notin heap /\ items'[x].queued /\ ~items'[x].inFlight
            \/ x \notin heap /\ ~items'[x].queued /\ items'[x].inFlight
      BY <1>2, <2>3, Zenon DEF IInv, Places
    <3>4. QED
      BY <1>3, <2>3, <3>2, <3>3, Zenon DEF IInv, Places
  <2>7. CountersExact'
    BY <1>2, <2>1, <2>4, ChargeCounts, Zenon DEF IInv
  <2>8. Runs' /\ TasksInFlight' /\ TasksDistinct'
    <3>1. /\ Len(tasks') = Len(tasks) + 1 /\ DOMAIN tasks = 1..Len(tasks)
          /\ DOMAIN tasks' = 1..(Len(tasks) + 1) /\ Len(tasks) \in Nat
          /\ \A j \in DOMAIN tasks : tasks'[j] = tasks[j]
          /\ tasks'[Len(tasks) + 1] = [key |-> k, run |-> runID]
      <4>1. tasks \in Seq(Task)
        BY Zenon DEF IInv, TypeOK
      <4>2. QED
        BY <2>1, <4>1
    <3>2. /\ \A j \in DOMAIN tasks : tasks[j].key # k
          /\ \A w \in Workers : LiveWorker(w) => worker[w].key # k
          /\ \A j \in DOMAIN completions : LiveCompletion(j) => completions[j].key # k
          /\ lifecycle # "stopped"
      BY <1>3, <2>4, Zenon DEF IInv, Runs, TasksInFlight
    <3>3. Runs'
      BY <1>3, <2>3, <2>4, <3>1, <3>2, SMTT(30) DEF IInv, Runs, control, InFlightKeys
    <3>4. TasksInFlight'
      BY <1>3, <2>4, <3>1, <3>2, SMTT(30)
         DEF IInv, TasksInFlight, LiveWorker, LiveCompletion, control
    <3>5. TasksDistinct'
      BY <1>3, <3>1, <3>2, SMTT(30)
         DEF IInv, TasksDistinct, LiveWorker, LiveCompletion, control
    <3>6. QED
      BY <3>3, <3>4, <3>5
  <2>9. QED
    BY <2>5, <2>6, <2>7, <2>8, Zenon DEF IInv
<1>8. QED
  BY <1>6, <1>7

\* A dispatch that sees the context done puts its item back in front.
LEMMA DispatchAbortedInv ==
  ASSUME IInv, NEW p \in 0..2, NEW i \in DOMAIN ready[p], DispatchAborted(p, i)
  PROVE  IInv'
<1> DEFINE k == ready[p][i]
           q == <<k>> \o RemoveAt(ready[p], i)
<1>1. Holds(ready[p], QueuedAt(p)) /\ ready[p] \in Seq(Keys)
  BY Zenon DEF IInv, Places, TypeOK
<1>2. k \in QueuedAt(p) /\ k \in Keys
  BY <1>1 DEF Holds, QueuedAt
<1>3. q \in Seq(Keys)
  <2>1. RemoveAt(ready[p], i) \in Seq(Keys)
    BY <1>1, RemoveAtProperties, LenProperties
  <2>2. <<k>> \in Seq(Keys)
    BY <1>2
  <2> HIDE DEF k
  <2>3. QED
    BY <2>1, <2>2, ConcatProperties
<1>4. Holds(q, QueuedAt(p))
  <2>1. Holds(RemoveAt(ready[p], i), QueuedAt(p) \ {k})
    BY <1>1, RemoveAtHolds
  <2>2. (QueuedAt(p) \ {k}) \cup {k} = QueuedAt(p)
    BY <1>2
  <2> HIDE DEF k
  <2>3. Holds(q, (QueuedAt(p) \ {k}) \cup {k})
    BY <2>1, PushHolds
  <2>4. QED
    BY <2>2, <2>3
<1>5. /\ ready' = [ready EXCEPT ![p] = q]
      /\ pc = "dispatch" /\ pc' = "select"
      /\ UNCHANGED <<items, heap, counters, control, channels, environment>>
  BY DEF DispatchAborted
<1> HIDE DEF q, k
<1>6. TypeOK'
  <2>1. ready' \in [0..2 -> Seq(Keys)]
    BY <1>3, <1>5, Zenon DEF IInv, TypeOK
  <2>2. QED
    BY <1>5, <2>1, Zenon DEF IInv, TypeOK, counters, control, channels, environment
<1>7. Places'
  <2>1. \A r \in 0..2 : QueuedAt(r)' = QueuedAt(r)
    BY <1>5 DEF QueuedAt
  <2>2. \A r \in 0..2 : ready'[r] = IF r = p THEN q ELSE ready[r]
    BY <1>5, Zenon DEF IInv, TypeOK
  <2>3. \A r \in 0..2 : Holds(ready'[r], QueuedAt(r)')
    BY <1>4, <2>1, <2>2, Zenon DEF IInv, Places
  <2>4. QED
    BY <1>5, <2>3, Zenon DEF IInv, Places
<1>8. InFlightKeys' = InFlightKeys
  BY <1>5 DEF InFlightKeys
<1>9. CountersExact'
  BY <1>5, <1>8, CountersFrame, Zenon DEF IInv
<1>10. Runs' /\ TasksInFlight' /\ TasksDistinct'
  BY <1>5, <1>8, TasksFrame, Zenon DEF IInv, control, channels
<1>11. QED
  BY <1>6, <1>7, <1>9, <1>10, Zenon DEF IInv

\* A worker takes the task at the head of the channel.
LEMMA TakeTaskInv ==
  ASSUME IInv, NEW w \in Workers, TakeTask(w)
  PROVE  IInv'
<1> DEFINE t == [key |-> Head(tasks).key, run |-> Head(tasks).run, sending |-> FALSE]
<1>1. /\ tasks \in Seq(Task) /\ tasks # <<>> /\ tasks' = Tail(tasks)
      /\ worker' = [worker EXCEPT ![w] = t] /\ worker[w] = NoTask
      /\ UNCHANGED <<queues, counters, control, pc, completions, redueRequests, environment>>
  BY Zenon DEF IInv, TypeOK, TakeTask
<1>2. /\ Head(tasks) = tasks[1] /\ 1 \in DOMAIN tasks /\ Head(tasks) \in Task
      /\ Tail(tasks) \in Seq(Task) /\ Len(Tail(tasks)) = Len(tasks) - 1
      /\ Len(tasks) \in Nat
      /\ DOMAIN tasks = 1..Len(tasks) /\ DOMAIN tasks' = 1..(Len(tasks) - 1)
      /\ \A j \in DOMAIN tasks' : j + 1 \in DOMAIN tasks /\ tasks'[j] = tasks[j + 1]
  BY <1>1
<1>3. /\ t \in [key : Keys, run : Nat, sending : BOOLEAN]
      /\ t.key = tasks[1].key /\ t.run = tasks[1].run
  BY <1>2 DEF Task
<1> HIDE DEF t
<1>4. t # NoTask
  BY <1>3, ConstantsOK
<1>5. /\ worker'[w] = t
      /\ \A v \in Workers : v # w => worker'[v] = worker[v]
      /\ worker' \in [Workers -> [key : Keys, run : Nat, sending : BOOLEAN] \cup {NoTask}]
  BY <1>1, <1>3, Zenon DEF IInv, TypeOK
<1>6. TypeOK'
  BY <1>1, <1>2, <1>5, Zenon DEF IInv, TypeOK, queues, counters, control, environment
<1>7. /\ InFlightKeys' = InFlightKeys /\ UNCHANGED <<runID, lifecycle, pc, completions, items>>
      /\ lifecycle # "stopped"
  BY <1>1, Zenon DEF InFlightKeys, queues, control, IInv, Runs
<1>8. Runs'
  <2>1. t.run = runID /\ runID \in Nat
    BY <1>2, <1>3, Zenon DEF IInv, Runs, TypeOK
  <2>2. \A v \in Workers : worker'[v] # NoTask => worker'[v].run <= runID
    BY <1>5, <2>1, SMTT(30) DEF IInv, Runs
  <2>3. \A j \in DOMAIN tasks' : tasks'[j].run = runID
    BY <1>2, Zenon DEF IInv, Runs
  <2>4. QED
    BY <1>7, <2>2, <2>3, Zenon DEF IInv, Runs
<1>9. TasksInFlight'
  <2>1. \A j \in DOMAIN tasks' : tasks'[j].key \in InFlightKeys
    BY <1>2, Zenon DEF IInv, TasksInFlight
  <2>2. \A v \in Workers : LiveWorker(v)' => worker'[v].key \in InFlightKeys
    BY <1>2, <1>3, <1>5, <1>7, Zenon DEF IInv, TasksInFlight, LiveWorker
  <2>3. QED
    BY <1>7, <2>1, <2>2, Zenon DEF IInv, TasksInFlight, LiveCompletion
<1>10. TasksDistinct'
  <2>1. /\ t.run = runID
        /\ \A j \in DOMAIN tasks' : tasks'[j].key # t.key
        /\ \A v \in Workers : LiveWorker(v) => worker[v].key # t.key
        /\ \A j \in DOMAIN completions : LiveCompletion(j) => completions[j].key # t.key
    BY <1>2, <1>3, SMTT(30) DEF IInv, Runs, TasksDistinct
  <2>2. \A v \in Workers : LiveWorker(v)' => v = w \/ LiveWorker(v)
    BY <1>5, <1>7 DEF LiveWorker
  <2>3. \A i, j \in DOMAIN tasks' : tasks'[i].key = tasks'[j].key => i = j
    BY <1>2, SMTT(30) DEF IInv, TasksDistinct
  <2>4. \A u, v \in Workers : LiveWorker(u)' /\ LiveWorker(v)'
          /\ worker'[u].key = worker'[v].key => u = v
    BY <1>5, <2>1, <2>2, Zenon DEF IInv, TasksDistinct
  <2>5. \A j \in DOMAIN tasks' : \A v \in Workers :
          LiveWorker(v)' => worker'[v].key # tasks'[j].key
    BY <1>2, <1>5, <2>1, <2>2, SMTT(30) DEF IInv, TasksDistinct
  <2>6. \A i \in DOMAIN tasks' : \A j \in DOMAIN completions :
          LiveCompletion(j) => completions[j].key # tasks'[i].key
    BY <1>2, SMTT(30) DEF IInv, TasksDistinct
  <2>7. \A v \in Workers : \A j \in DOMAIN completions :
          LiveWorker(v)' /\ LiveCompletion(j) => completions[j].key # worker'[v].key
    BY <1>5, <2>1, <2>2, Zenon DEF IInv, TasksDistinct
  <2>8. QED
    BY <1>7, <2>3, <2>4, <2>5, <2>6, <2>7, Zenon DEF IInv, TasksDistinct, LiveCompletion
<1>11. Places' /\ CountersExact'
  BY <1>1, <1>7, PlacesFrame, CountersFrame, Zenon DEF IInv
<1>12. QED
  BY <1>6, <1>8, <1>9, <1>10, <1>11, Zenon DEF IInv

\* A worker finds the scheduler stopped and drops its task, or will report it.
LEMMA CompleteInv ==
  ASSUME IInv, NEW w \in Workers, Complete(w)
  PROVE  IInv'
<1>1. /\ worker[w] # NoTask
      /\ worker' = [worker EXCEPT ![w] =
                      IF running THEN [@ EXCEPT !.sending = TRUE] ELSE NoTask]
      /\ UNCHANGED <<queues, counters, control, pc, tasks, completions, redueRequests,
                     environment>>
  BY DEF Complete
<1>2. worker \in [Workers -> [key : Keys, run : Nat, sending : BOOLEAN] \cup {NoTask}]
  BY Zenon DEF IInv, TypeOK
<1>3. /\ worker' \in [Workers -> [key : Keys, run : Nat, sending : BOOLEAN] \cup {NoTask}]
      /\ \A v \in Workers : worker'[v] # NoTask =>
           /\ worker[v] # NoTask
           /\ worker'[v].key = worker[v].key /\ worker'[v].run = worker[v].run
  <2>1. CASE running
    <3>1. worker[w] \in [key : Keys, run : Nat, sending : BOOLEAN]
      BY <1>1, <1>2
    <3>2. worker' = [worker EXCEPT ![w] = [worker[w] EXCEPT !.sending = TRUE]]
      BY <1>1, <2>1
    <3>3. /\ [worker[w] EXCEPT !.sending = TRUE] \in [key : Keys, run : Nat, sending : BOOLEAN]
          /\ [worker[w] EXCEPT !.sending = TRUE].key = worker[w].key
          /\ [worker[w] EXCEPT !.sending = TRUE].run = worker[w].run
      BY <3>1, Zenon
    <3>4. QED
      BY <1>1, <1>2, <3>2, <3>3
  <2>2. CASE ~running
    BY <1>1, <1>2, <2>2
  <2>3. QED
    BY <2>1, <2>2
<1>4. TypeOK'
  BY <1>1, <1>3, Zenon DEF IInv, TypeOK, queues, counters, control, environment
<1>5. /\ InFlightKeys' = InFlightKeys
      /\ UNCHANGED <<runID, lifecycle, pc, tasks, completions, items>>
  BY <1>1 DEF InFlightKeys, queues, control
<1>6. Runs'
  BY <1>3, <1>5, Zenon DEF IInv, Runs
<1>7. \A v \in Workers : LiveWorker(v)' => LiveWorker(v) /\ worker'[v].key = worker[v].key
  BY <1>3, <1>5 DEF LiveWorker
<1>8. TasksInFlight'
  BY <1>5, <1>7, Zenon DEF IInv, TasksInFlight, LiveCompletion
<1>9. TasksDistinct'
  BY <1>5, <1>7, SMTT(30) DEF IInv, TasksDistinct, LiveCompletion
<1>10. Places' /\ CountersExact'
  BY <1>1, <1>5, PlacesFrame, CountersFrame, Zenon DEF IInv
<1>11. QED
  BY <1>4, <1>6, <1>8, <1>9, <1>10, Zenon DEF IInv

\* A worker reports its task.
LEMMA SendCompletionInv ==
  ASSUME IInv, NEW w \in Workers, SendCompletion(w)
  PROVE  IInv'
<1>1. PICK early \in ClockSkew :
        completions' = Append(completions, [key |-> worker[w].key, run |-> worker[w].run,
                                            early |-> early])
  BY DEF SendCompletion
<1> DEFINE c == [key |-> worker[w].key, run |-> worker[w].run, early |-> early]
           n == Len(completions) + 1
<1>2. /\ worker[w] # NoTask /\ worker' = [worker EXCEPT ![w] = NoTask]
      /\ UNCHANGED <<queues, counters, control, pc, tasks, redueRequests, environment>>
  BY DEF SendCompletion
<1>3. worker \in [Workers -> [key : Keys, run : Nat, sending : BOOLEAN] \cup {NoTask}]
  BY Zenon DEF IInv, TypeOK
<1>4. /\ c \in [key : Keys, run : Nat, early : BOOLEAN]
      /\ c.key = worker[w].key /\ c.run = worker[w].run
  BY <1>2, <1>3, ConstantsOK
<1>5. completions \in Seq([key : Keys, run : Nat, early : BOOLEAN])
  BY Zenon DEF IInv, TypeOK
<1>6. completions' = Append(completions, c)
  BY <1>1
<1> HIDE DEF c
<1>7. /\ completions' \in Seq([key : Keys, run : Nat, early : BOOLEAN])
      /\ DOMAIN completions' = 1..n /\ DOMAIN completions = 1..(n - 1)
      /\ \A j \in DOMAIN completions : completions'[j] = completions[j]
      /\ completions'[n] = c /\ n \in Nat \ {0}
  BY <1>4, <1>5, <1>6
<1> HIDE DEF n
<1>8. /\ worker' \in [Workers -> [key : Keys, run : Nat, sending : BOOLEAN] \cup {NoTask}]
      /\ worker'[w] = NoTask
      /\ \A v \in Workers : v # w => worker'[v] = worker[v]
  BY <1>2, <1>3
<1>9. TypeOK'
  BY <1>2, <1>7, <1>8, Zenon DEF IInv, TypeOK, queues, counters, control, environment
<1>10. /\ InFlightKeys' = InFlightKeys
       /\ UNCHANGED <<runID, lifecycle, pc, tasks, items>>
  BY <1>2 DEF InFlightKeys, queues, control
<1>11. \A v \in Workers : LiveWorker(v)' => /\ LiveWorker(v) /\ v # w
                                            /\ worker'[v].key = worker[v].key
  BY <1>8, <1>10 DEF LiveWorker
<1>12. \A j \in DOMAIN completions' : LiveCompletion(j)' =>
         \/ j \in DOMAIN completions /\ LiveCompletion(j)
         \/ j = n /\ LiveWorker(w)
  BY <1>2, <1>4, <1>7, <1>10 DEF LiveCompletion, LiveWorker
<1>13. Runs'
  <2>1. \A j \in DOMAIN completions' : j \in DOMAIN completions \/ j = n
    BY <1>7
  <2>2. \A j \in DOMAIN completions' : completions'[j].run <= runID
    BY <1>2, <1>4, <1>7, <2>1, Zenon DEF IInv, Runs
  <2>3. \A v \in Workers : worker'[v] # NoTask => worker'[v].run <= runID
    BY <1>8, Zenon DEF IInv, Runs
  <2>4. QED
    BY <1>10, <2>2, <2>3, Zenon DEF IInv, Runs
<1>14. TasksInFlight'
  <2>1. \A j \in DOMAIN completions' : LiveCompletion(j)' /\ lifecycle # "stopped"
          => completions'[j].key \in InFlightKeys
    BY <1>4, <1>7, <1>12, Zenon DEF IInv, TasksInFlight
  <2>2. QED
    BY <1>10, <1>11, <2>1, Zenon DEF IInv, TasksInFlight
<1>15. TasksDistinct'
  <2>1. \A j \in DOMAIN completions : LiveWorker(w) /\ LiveCompletion(j)
          => completions[j].key # c.key
    BY <1>4, Zenon DEF IInv, TasksDistinct
  <2>2. \A i, j \in DOMAIN completions' : LiveCompletion(i)' /\ LiveCompletion(j)'
          /\ completions'[i].key = completions'[j].key => i = j
    BY <1>7, <1>12, <2>1, Zenon DEF IInv, TasksDistinct
  <2>3. \A i \in DOMAIN tasks : \A j \in DOMAIN completions' :
          LiveCompletion(j)' => completions'[j].key # tasks[i].key
    BY <1>4, <1>7, <1>12, SMTT(30) DEF IInv, TasksDistinct
  <2>4. \A v \in Workers : \A j \in DOMAIN completions' :
          LiveWorker(v)' /\ LiveCompletion(j)' => completions'[j].key # worker'[v].key
    BY <1>4, <1>7, <1>11, <1>12, SMTT(30) DEF IInv, TasksDistinct
  <2>5. QED
    BY <1>10, <1>11, <2>2, <2>3, <2>4, SMTT(30) DEF IInv, TasksDistinct
<1>16. Places' /\ CountersExact'
  BY <1>2, <1>10, PlacesFrame, CountersFrame, Zenon DEF IInv
<1>17. QED
  BY <1>9, <1>13, <1>14, <1>15, <1>16, Zenon DEF IInv

\* resetRuntimeState empties the queues and the channels.
LEMMA FinishStopInv ==
  ASSUME IInv, FinishStop
  PROVE  IInv'
<1> USE DEF FinishStop
<1>1. DOMAIN items' = {} /\ InFlightKeys' = {}
  BY DEF InFlightKeys
<1>2. TypeOK'
  <2>1. ready' \in [0..2 -> Seq(Keys)]
    BY EmptySeq
  <2>2. /\ tasks' \in Seq(Task)
        /\ completions' \in Seq([key : Keys, run : Nat, early : BOOLEAN])
        /\ redueRequests' \in Seq(Request)
    BY EmptySeq
  <2>3. /\ inFlight' \in Nat /\ inFlightByKind' \in Nat
        /\ inFlightByClass' \in [VolatilityClasses -> Nat]
        /\ inFlightByScope' \in [ScopeKeys -> Nat]
        /\ essentialByScope' \in [ScopeKeys -> Nat]
    BY DEF CountersReset
  <2>4. QED
    BY <1>1, <2>1, <2>2, <2>3, Zenon DEF IInv, TypeOK, environment
<1>3. Places'
  <2>1. \A p \in 0..2 : ready'[p] = <<>> /\ QueuedAt(p)' = {}
    BY <1>1 DEF QueuedAt
  <2>2. QED
    BY <1>1, <2>1, EmptyHolds, Zenon DEF Places
<1>4. Runs'
  BY <1>1, Zenon DEF Runs, IInv
<1>5. TasksInFlight'
  BY SMTT(30) DEF TasksInFlight
<1>6. TasksDistinct'
  <2>1. DOMAIN tasks' = {} /\ DOMAIN completions' = {}
    OBVIOUS
  <2>2. worker' = worker /\ runID' = runID
    BY Zenon
  <2>3. \A v, w \in Workers : LiveWorker(v)' /\ LiveWorker(w)'
          /\ worker'[v].key = worker'[w].key => v = w
    <3> HIDE DEF FinishStop
    <3>1. \A w \in Workers : (LiveWorker(w)' <=> LiveWorker(w)) /\ worker'[w] = worker[w]
      BY <2>2, Zenon DEF LiveWorker
    <3>2. \A v, w \in Workers : LiveWorker(v) /\ LiveWorker(w)
            /\ worker[v].key = worker[w].key => v = w
      BY Zenon DEF IInv, TasksDistinct
    <3>3. QED
      BY <3>1, <3>2, Zenon
  <2>4. QED
    BY <2>1, <2>3, Zenon DEF TasksDistinct
<1>7. CountersExact'
  <2>1. \A c \in VolatilityClasses : inFlightByClass'[c] = 0
    BY DEF CountersReset
  <2>2. QED
    BY <1>1, <2>1, FS_EmptySet DEF CountersExact, CountersReset
<1>8. QED
  BY <1>2, <1>3, <1>4, <1>5, <1>6, <1>7, Zenon DEF IInv

\* handleCompletion ignores a stale completion, or releases the item and drops
\* it, queues it again or puts it back in the heap.
LEMMA HandleCompletionInv ==
  ASSUME IInv, HandleCompletion
  PROVE  IInv'
<1> DEFINE c == Head(completions)
           k == c.key
<1>1. /\ completions # <<>> /\ completions' = Tail(completions)
      /\ pc = "select" /\ pc' = "loop"
      /\ UNCHANGED <<control, tasks, redueRequests, worker, environment>>
  BY DEF HandleCompletion
<1> DEFINE S == [key : Keys, run : Nat, early : BOOLEAN]
<1>2. completions \in Seq(S)
  BY Zenon DEF IInv, TypeOK
<1> HIDE DEF S
<1>3. /\ c \in S /\ c = completions[1]
      /\ completions' \in Seq(S)
      /\ Len(completions) \in Nat /\ 1 \in DOMAIN completions
      /\ DOMAIN completions = 1..Len(completions)
      /\ DOMAIN completions' = 1..(Len(completions) - 1)
      /\ \A j \in DOMAIN completions' : /\ j + 1 \in DOMAIN completions
                                        /\ completions'[j] = completions[j + 1]
  BY <1>1, <1>2
<1>4. k \in Keys
  BY <1>3 DEF S
<1>5. lifecycle # "stopped"
  BY <1>1, Zenon DEF IInv, Runs
<1>6. UNCHANGED <<runID, running, lifecycle, cancelled, inventory, members, calls, changes>>
  BY <1>1 DEF control, environment
<1>7. TasksDistinct'
  <2>1. \A j \in DOMAIN completions' : LiveCompletion(j)' => LiveCompletion(j + 1)
    BY <1>3, <1>6 DEF LiveCompletion
  <2>2. \A i, j \in DOMAIN completions' : LiveCompletion(i)' /\ LiveCompletion(j)'
          /\ completions'[i].key = completions'[j].key => i = j
    <3> SUFFICES ASSUME NEW i \in DOMAIN completions', NEW j \in DOMAIN completions',
                        LiveCompletion(i)', LiveCompletion(j)',
                        completions'[i].key = completions'[j].key
                 PROVE  i = j
      OBVIOUS
    <3>1. i + 1 = j + 1
      BY <1>3, <2>1, Zenon DEF IInv, TasksDistinct
    <3>2. QED
      BY <1>3, <3>1
  <2>3. \A i \in DOMAIN tasks : \A j \in DOMAIN completions' :
          LiveCompletion(j)' => completions'[j].key # tasks[i].key
    BY <1>3, <2>1, SMTT(30) DEF IInv, TasksDistinct
  <2>4. \A w \in Workers : \A j \in DOMAIN completions' :
          LiveWorker(w) /\ LiveCompletion(j)' => completions'[j].key # worker[w].key
    BY <1>3, <2>1, SMTT(30) DEF IInv, TasksDistinct
  <2>5. QED
    BY <1>1, <1>6, <2>2, <2>3, <2>4, Zenon DEF IInv, TasksDistinct, LiveWorker
<1>8. CASE ~Accepts(c)
  <2>1. UNCHANGED <<queues, counters>>
    BY <1>8 DEF HandleCompletion
  <2>2. TypeOK'
    BY <1>1, <1>3, <1>6, <2>1, Zenon DEF IInv, TypeOK, queues, counters, S
  <2>3. InFlightKeys' = InFlightKeys /\ items' = items
    BY <2>1 DEF InFlightKeys, queues
  <2>4. Runs'
    BY <1>1, <1>3, <1>6, <2>3, Zenon DEF IInv, Runs
  <2>5. TasksInFlight'
    BY <1>1, <1>3, <1>6, <2>3, Zenon DEF IInv, TasksInFlight, LiveWorker, LiveCompletion
  <2>6. Places' /\ CountersExact'
    BY <2>1, <2>3, PlacesFrame, CountersFrame, Zenon DEF IInv
  <2>7. QED
    BY <1>7, <2>2, <2>4, <2>5, <2>6, Zenon DEF IInv
<1>9. CASE Accepts(c)
  <2>1. PICK overdue \in BOOLEAN : Release(k) /\ Requeue(k, overdue)
    BY <1>9 DEF HandleCompletion
  <2>2. /\ k \in DOMAIN items /\ items[k] \in Item /\ items[k].inFlight
        /\ ~items[k].queued /\ k \notin heap /\ c.run = items[k].runID
        /\ k \in InFlightKeys /\ c.run = runID
    BY <1>9, Zenon DEF Accepts, IInv, TypeOK, Places, InFlightKeys, Runs
  <2> HIDE DEF c, k
  <2>3. Priority(k) \in 0..2
    BY <1>4, PriorityRange
  \* Where the item went: the rest of the items is untouched.
  <2>4. /\ DOMAIN items' \subseteq DOMAIN items /\ DOMAIN items \ {k} \subseteq DOMAIN items'
        /\ \A x \in DOMAIN items' : x # k => items'[x] = items[x]
        /\ \/ k \notin DOMAIN items' /\ heap' = heap /\ ready' = ready
           \/ /\ k \in DOMAIN items' /\ items'[k] \in Item
              /\ items'[k].queued /\ ~items'[k].inFlight
              /\ heap' = heap /\ ready' = [ready EXCEPT ![Priority(k)] = Append(@, k)]
           \/ /\ k \in DOMAIN items' /\ items'[k] \in Item
              /\ ~items'[k].queued /\ ~items'[k].inFlight
              /\ heap' = heap \cup {k} /\ ready' = ready
    <3> DEFINE done == [items[k] EXCEPT !.inFlight = FALSE, !.runID = 0,
                                        !.pending = FALSE, !.immediateRerun = FALSE]
    <3>1. /\ [done EXCEPT !.queued = TRUE, !.phase = "due"] \in Item
          /\ [done EXCEPT !.queued = TRUE, !.phase = "due"].queued
          /\ ~[done EXCEPT !.queued = TRUE, !.phase = "due"].inFlight
          /\ [done EXCEPT !.phase = "waiting"] \in Item
          /\ ~[done EXCEPT !.phase = "waiting"].queued
          /\ ~[done EXCEPT !.phase = "waiting"].inFlight
      BY <2>2, Zenon DEF Item, Phases
    <3>2. CASE items[k].disabled
      <4>1. /\ items' = Restrict(items, DOMAIN items \ {k})
            /\ heap' = heap /\ ready' = ready
        BY <2>1, <3>2 DEF Requeue
      <4>2. QED
        BY <4>1 DEF Restrict
    <3>3. CASE /\ items' = [items EXCEPT ![k] = [done EXCEPT !.queued = TRUE, !.phase = "due"]]
               /\ ready' = [ready EXCEPT ![Priority(k)] = Append(@, k)]
               /\ heap' = heap
      <4> HIDE DEF done
      <4> QED
        BY <2>2, <3>1, <3>3, Zenon
    <3>4. CASE /\ items' = [items EXCEPT ![k] = [done EXCEPT !.phase = "waiting"]]
               /\ heap' = heap \cup {k}
               /\ ready' = ready
      <4> HIDE DEF done
      <4> QED
        BY <2>2, <3>1, <3>4, Zenon
    <3>5. QED
      BY <2>1, <3>2, <3>3, <3>4 DEF Requeue
  <2>5. InFlightKeys' = InFlightKeys \ {k}
    BY <2>4 DEF InFlightKeys
  <2>6. CountersExact' /\ inFlight > 0
    BY <1>4, <2>1, <2>2, <2>5, ReleaseCounts, Zenon DEF IInv
  <2>7. TypeOK'
    <3>1. ready' \in [0..2 -> Seq(Keys)]
      <4>1. ready \in [0..2 -> Seq(Keys)]
        BY Zenon DEF IInv, TypeOK
      <4>2. Append(ready[Priority(k)], k) \in Seq(Keys)
        BY <1>4, <2>3, <4>1
      <4>3. QED
        BY <2>3, <2>4, <4>1, <4>2, Zenon
    <3>2. heap' \subseteq Keys /\ DOMAIN items' \subseteq Keys
      BY <1>4, <2>4, Zenon DEF IInv, TypeOK
    <3>3. \A x \in DOMAIN items' : items'[x] \in Item
      BY <2>4, Zenon DEF IInv, TypeOK
    <3>4. /\ inFlight' \in Nat /\ inFlightByKind' \in Nat
          /\ inFlightByClass' \in [VolatilityClasses -> Nat]
      <4>1. /\ inFlight \in Nat /\ inFlightByKind \in Nat
            /\ inFlightByClass \in [VolatilityClasses -> Nat]
            /\ (~Essential(k) => Class(k) \in VolatilityClasses)
        BY <1>4, ClassRange, Zenon DEF IInv, TypeOK
      <4>2. QED
        BY <4>1, <2>1, <2>6 DEF Release, decrementInFlight, Released
    <3>5. /\ inFlightByScope' \in [ScopeKeys -> Nat]
          /\ essentialByScope' \in [ScopeKeys -> Nat]
      <4>1. /\ inFlightByScope \in [ScopeKeys -> Nat]
            /\ essentialByScope \in [ScopeKeys -> Nat]
        BY Zenon DEF IInv, TypeOK
      <4>2. QED
        BY <4>1, <2>1 DEF Release, decrementIsolationCounts, Released
    <3>6. QED
      BY <1>1, <1>3, <1>6, <3>1, <3>2, <3>3, <3>4, <3>5, Zenon DEF IInv, TypeOK, S
  <2>8. Places'
    <3>1. \A p \in 0..2 : Holds(ready'[p], QueuedAt(p)')
      <4> SUFFICES ASSUME NEW p \in 0..2 PROVE Holds(ready'[p], QueuedAt(p)')
        OBVIOUS
      <4>1. Holds(ready[p], QueuedAt(p)) /\ k \notin QueuedAt(p)
        BY <2>2, Zenon DEF IInv, Places, QueuedAt
      <4>2. CASE k \in DOMAIN items' /\ items'[k].queued /\ p = Priority(k)
        <5>1. QueuedAt(p)' = QueuedAt(p) \cup {k}
          BY <4>2, <2>2, <2>4 DEF QueuedAt
        <5>2. ready'[p] = Append(ready[p], k)
          BY <4>2, <2>3, <2>4, Zenon DEF IInv, TypeOK
        <5>3. QED
          BY <4>1, <5>1, <5>2, AppendHolds
      <4>3. CASE ~(k \in DOMAIN items' /\ items'[k].queued /\ p = Priority(k))
        <5>1. QueuedAt(p)' = QueuedAt(p)
          BY <4>3, <2>2, <2>4 DEF QueuedAt
        <5>2. ready'[p] = ready[p]
          BY <4>3, <2>4, Zenon DEF IInv, TypeOK
        <5>3. QED
          BY <4>1, <5>1, <5>2
      <4>4. QED
        BY <4>2, <4>3
    <3>2. heap' \subseteq DOMAIN items'
      BY <2>2, <2>4, Zenon DEF IInv, Places
    <3>3. \A x \in DOMAIN items' :
            \/ x \in heap' /\ ~items'[x].queued /\ ~items'[x].inFlight
            \/ x \notin heap' /\ items'[x].queued /\ ~items'[x].inFlight
            \/ x \notin heap' /\ ~items'[x].queued /\ items'[x].inFlight
      <4> SUFFICES ASSUME NEW x \in DOMAIN items'
                   PROVE  \/ x \in heap' /\ ~items'[x].queued /\ ~items'[x].inFlight
                          \/ x \notin heap' /\ items'[x].queued /\ ~items'[x].inFlight
                          \/ x \notin heap' /\ ~items'[x].queued /\ items'[x].inFlight
        OBVIOUS
      <4>1. CASE x = k
        BY <4>1, <2>2, <2>4
      <4>2. CASE x # k
        BY <4>2, <2>4, Zenon DEF IInv, Places
      <4>3. QED
        BY <4>1, <4>2
    <3>4. QED
      BY <3>1, <3>2, <3>3, Zenon DEF Places
  <2>9. /\ \A i \in DOMAIN tasks : tasks[i].key # k
        /\ \A w \in Workers : LiveWorker(w) => worker[w].key # k
        /\ \A j \in DOMAIN completions : j # 1 /\ LiveCompletion(j) => completions[j].key # k
    BY <1>3, <2>2, Zenon DEF IInv, TasksDistinct, LiveCompletion, k
  <2>10. Runs'
    BY <1>1, <1>3, <1>5, <1>6, <2>4, <2>5, Zenon DEF IInv, Runs, InFlightKeys
  <2>11. TasksInFlight'
    BY <1>1, <1>3, <1>6, <2>5, <2>9, SMTT(30) DEF IInv, TasksInFlight, LiveWorker, LiveCompletion
  <2>12. QED
    BY <1>7, <2>6, <2>7, <2>8, <2>10, <2>11, Zenon DEF IInv
<1>10. QED
  BY <1>8, <1>9

\* A re-due request: its item is in flight, queued, in the heap, or new.
LEMMA HandleRedueInv ==
  ASSUME IInv, HandleRedue
  PROVE  IInv'
<1> DEFINE r == Head(redueRequests)
           k == RedueKey(r)
<1>1. /\ redueRequests # <<>> /\ redueRequests' = Tail(redueRequests)
      /\ pc = "select" /\ pc' = "loop"
      /\ UNCHANGED <<heap, counters, control, tasks, completions, worker, environment>>
  BY DEF HandleRedue
<1>2. r \in Request /\ redueRequests' \in Seq(Request)
  <2>1. redueRequests \in Seq(Request)
    BY Zenon DEF IInv, TypeOK
  <2>2. QED
    BY <1>1, <2>1, HeadTailProperties
<1>3. k \in Keys /\ r.config \in Config
  BY <1>2, ConstantsOK DEF RedueKey, Keys, Kinds, Request
<1>4. Priority(k) \in 0..2
  BY <1>3, PriorityRange
<1>5. /\ UNCHANGED <<runID, running, lifecycle, cancelled, inventory, members, calls, changes>>
      /\ UNCHANGED <<tasks, completions, worker>>
      /\ lifecycle # "stopped"
  BY <1>1, Zenon DEF control, environment, IInv, Runs
<1> HIDE DEF k, r
<1>6. ASSUME DOMAIN items' \subseteq Keys, \A x \in DOMAIN items' : items'[x] \in Item,
             ready' \in [0..2 -> Seq(Keys)]
      PROVE  TypeOK'
  BY <1>1, <1>2, <1>5, <1>6, Zenon DEF IInv, TypeOK, counters
<1>7. ASSUME UNCHANGED ready,
             DOMAIN items' = DOMAIN items,
             \A x \in DOMAIN items : /\ items'[x] \in Item
                                     /\ items'[x].queued = items[x].queued
                                     /\ items'[x].inFlight = items[x].inFlight
                                     /\ items'[x].runID = items[x].runID
      PROVE  IInv'
  <2>1. TypeOK'
    BY <1>6, <1>7, Zenon DEF IInv, TypeOK
  <2>2. QED
    BY <1>1, <1>5, <1>7, <2>1, ItemsFrame, Zenon
<1>8. ASSUME InFlightKeys' = InFlightKeys, TypeOK', Places',
             \A x \in InFlightKeys : items'[x].runID = items[x].runID
      PROVE  IInv'
  <2>1. CountersExact'
    BY <1>1, <1>8, CountersFrame, Zenon DEF IInv
  <2>2. Runs' /\ TasksInFlight' /\ TasksDistinct'
    BY <1>1, <1>5, <1>8, TasksFrame, Zenon DEF IInv
  <2>3. QED
    BY <1>8, <2>1, <2>2, Zenon DEF IInv
<1>9. CASE UNCHANGED <<items, ready>>
  BY <1>7, <1>9, Zenon DEF IInv, TypeOK
<1>10. CASE ApplyRedue(r) /\ k \notin DOMAIN items
  <2>1. /\ DOMAIN items' = DOMAIN items \cup {k}
        /\ items'[k] = NewItem(r.config, TRUE)
        /\ \A x \in DOMAIN items : items'[x] = items[x]
        /\ ready' = [ready EXCEPT ![Priority(k)] = <<k>> \o @]
    BY <1>10, Zenon DEF ApplyRedue, pushReadyFront, k
  <2>2. items'[k] \in Item /\ items'[k].queued /\ ~items'[k].inFlight
    BY <1>3, <2>1, NewItemType, Zenon
  <2>3. ready' \in [0..2 -> Seq(Keys)]
    <3>1. ready \in [0..2 -> Seq(Keys)]
      BY Zenon DEF IInv, TypeOK
    <3>2. <<k>> \o ready[Priority(k)] \in Seq(Keys)
      BY <1>3, <1>4, <3>1
    <3>3. QED
      BY <2>1, <3>1, <3>2, Zenon
  <2>4. TypeOK'
    BY <1>3, <1>6, <2>1, <2>2, <2>3, Zenon DEF IInv, TypeOK
  <2>5. InFlightKeys' = InFlightKeys
    BY <1>10, <2>1, <2>2, Zenon DEF InFlightKeys
  <2>6. Places'
    <3>1. \A p \in 0..2 : Holds(ready'[p], QueuedAt(p)')
      <4> SUFFICES ASSUME NEW p \in 0..2 PROVE Holds(ready'[p], QueuedAt(p)')
        OBVIOUS
      <4>1. Holds(ready[p], QueuedAt(p)) /\ k \notin QueuedAt(p)
        BY <1>10, Zenon DEF IInv, Places, QueuedAt
      <4>2. CASE p = Priority(k)
        <5>1. QueuedAt(p)' = QueuedAt(p) \cup {k}
          BY <4>2, <2>1, <2>2, Zenon DEF QueuedAt
        <5>2. ready'[p] = <<k>> \o ready[p]
          BY <4>2, <2>1, Zenon DEF IInv, TypeOK
        <5>3. QED
          BY <4>1, <5>1, <5>2, PushHolds
      <4>3. CASE p # Priority(k)
        <5>1. QueuedAt(p)' = QueuedAt(p)
          BY <4>3, <2>1 DEF QueuedAt
        <5>2. ready'[p] = ready[p]
          BY <4>3, <2>1, Zenon DEF IInv, TypeOK
        <5>3. QED
          BY <4>1, <5>1, <5>2
      <4>4. QED
        BY <4>2, <4>3
    <3>2. QED
      BY <1>1, <1>10, <2>1, <2>2, <3>1, Zenon DEF IInv, Places
  <2>7. QED
    BY <1>8, <2>1, <2>4, <2>5, <2>6, Zenon DEF InFlightKeys
<1>11. CASE ApplyRedue(r) /\ k \in DOMAIN items
  <2> DEFINE item == [Reconfigured(items[k], r.config) EXCEPT !.phase = "due"]
  <2>1. items[k] \in Item
    BY <1>11, Zenon DEF IInv, TypeOK
  <2>2. /\ item \in Item /\ item.queued = items[k].queued
        /\ item.inFlight = items[k].inFlight /\ item.runID = items[k].runID
    <3>1. /\ Reconfigured(items[k], r.config) \in Item
          /\ Reconfigured(items[k], r.config).queued = items[k].queued
          /\ Reconfigured(items[k], r.config).inFlight = items[k].inFlight
          /\ Reconfigured(items[k], r.config).runID = items[k].runID
      BY <1>3, <2>1, ReconfiguredType
    <3>2. QED
      BY <3>1 DEF Item, Phases
  <2>3. CASE items[k].inFlight
    <3> DEFINE again == [item EXCEPT !.pending = TRUE, !.immediateRerun = TRUE]
    <3>1. items' = [items EXCEPT ![k] = again] /\ UNCHANGED ready
      BY <1>11, <2>2, <2>3, Zenon DEF ApplyRedue, k
    <3> HIDE DEF item
    <3>2. /\ again \in Item /\ again.queued = items[k].queued
          /\ again.inFlight = items[k].inFlight /\ again.runID = items[k].runID
      BY <2>2, Zenon DEF Item
    <3> HIDE DEF again
    <3>3. QED
      BY <1>7, <1>11, <3>1, <3>2, Zenon DEF IInv, TypeOK
  <2>4. CASE ~items[k].inFlight /\ items[k].queued
    <3> DEFINE q == removeReadyItem(ready[Priority(k)], k)
    <3>1. items' = [items EXCEPT ![k] = item]
      BY <1>11, <2>2, <2>4, Zenon DEF ApplyRedue, k
    <3>2. ready' = pushReadyFront([ready EXCEPT ![Priority(k)] = removeReadyItem(@, k)], k)
      BY <1>11, <2>2, <2>4, Zenon DEF ApplyRedue, k
    <3>3. ready' = [ready EXCEPT ![Priority(k)] = <<k>> \o q]
      BY <1>4, <3>2, Zenon DEF pushReadyFront, IInv, TypeOK
    <3> HIDE DEF item, q
    <3>4. /\ DOMAIN items' = DOMAIN items
          /\ items'[k] = item
          /\ \A x \in DOMAIN items : x # k => items'[x] = items[x]
      BY <1>11, <3>1
    <3>5. \A x \in DOMAIN items : /\ items'[x] \in Item
                                  /\ items'[x].queued = items[x].queued
                                  /\ items'[x].inFlight = items[x].inFlight
                                  /\ items'[x].runID = items[x].runID
      BY <2>2, <3>4, Zenon DEF IInv, TypeOK
    <3>6. /\ Holds(<<k>> \o q, QueuedAt(Priority(k)))
          /\ k \in QueuedAt(Priority(k))
      <4>1. k \in QueuedAt(Priority(k))
        BY <1>11, <2>4 DEF QueuedAt
      <4>2. Holds(q, QueuedAt(Priority(k)) \ {k})
        BY <1>4, removeReadyItemHolds, Zenon DEF IInv, Places, q
      <4>3. Holds(<<k>> \o q, (QueuedAt(Priority(k)) \ {k}) \cup {k})
        BY <4>2, PushHolds
      <4>4. (QueuedAt(Priority(k)) \ {k}) \cup {k} = QueuedAt(Priority(k))
        BY <4>1
      <4>5. QED
        BY <4>1, <4>3, <4>4
    <3>7. ready' \in [0..2 -> Seq(Keys)]
      <4>1. QueuedAt(Priority(k)) \subseteq Keys
        BY Zenon DEF QueuedAt, IInv, TypeOK
      <4>2. <<k>> \o q \in Seq(Keys)
        BY <3>6, <4>1, SeqMonotonic DEF Holds
      <4>3. QED
        BY <3>3, <4>2, Zenon DEF IInv, TypeOK
    <3>8. TypeOK'
      BY <1>6, <3>4, <3>5, <3>7, Zenon DEF IInv, TypeOK
    <3>9. InFlightKeys' = InFlightKeys
      BY <3>4, <3>5 DEF InFlightKeys
    <3>10. Places'
      <4>1. \A p \in 0..2 : QueuedAt(p)' = QueuedAt(p)
        BY <3>4, <3>5 DEF QueuedAt
      <4>2. \A p \in 0..2 : ready'[p] = IF p = Priority(k) THEN <<k>> \o q ELSE ready[p]
        BY <3>3, Zenon DEF IInv, TypeOK
      <4>3. \A p \in 0..2 : Holds(ready'[p], QueuedAt(p)')
        BY <3>6, <4>1, <4>2, Zenon DEF IInv, Places
      <4>4. QED
        BY <1>1, <3>4, <3>5, <4>3, Zenon DEF IInv, Places
    <3>11. QED
      BY <1>8, <3>5, <3>8, <3>9, <3>10 DEF InFlightKeys
  <2>5. CASE ~items[k].inFlight /\ ~items[k].queued
    <3>1. k \in heap
      BY <1>11, <2>5, Zenon DEF IInv, Places
    <3>2. items' = [items EXCEPT ![k] = item] /\ UNCHANGED ready
      BY <1>11, <2>2, <2>5, <3>1 DEF ApplyRedue, k
    <3> HIDE DEF item
    <3>3. QED
      BY <1>7, <1>11, <2>2, <3>2, Zenon DEF IInv, TypeOK
  <2>6. QED
    BY <2>3, <2>4, <2>5
<1>12. QED
  BY <1>9, <1>10, <1>11 DEF HandleRedue, r

=============================================================================
