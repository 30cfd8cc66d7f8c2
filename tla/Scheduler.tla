------------------------------ MODULE Scheduler ------------------------------
(***************************************************************************)
(* The polling scheduler (internal/scheduler) and the pipeline workers     *)
(* that take its tasks (internal/worker/pipeline_task_runner.go).          *)
(*                                                                         *)
(* One goroutine runs Scheduler.run: it moves due items from the timed     *)
(* heap to three ready queues, dispatches what the admission limits allow  *)
(* to a bounded task channel, and then waits for a timer, an inventory     *)
(* refresh, a re-due request or a completion.  API goroutines call         *)
(* ReconcileDeviceTasks under the same mutex; workers take tasks and       *)
(* report completions through a bounded channel; Stop and Start bracket    *)
(* numbered runs.                                                          *)
(*                                                                         *)
(* Time is abstracted to the relation an item's due time has to now: the   *)
(* item is waiting (due later), due, or elapsed (a whole interval past     *)
(* due).  Durations, jitter and the diagnostic counters are left out.      *)
(***************************************************************************)
EXTENDS Integers, Sequences, FiniteSets, Functions, SequencesExt

CONSTANTS
  Devices,          \* devices the inventory may hold
  VirtualDevices,   \* those of type virtual (with an IP): one operational task
  Classes,          \* volatility classes scheduled for a device of this instance
  Scopes,           \* site, subnet and SNMP-profile keys of the isolation limits
  DeviceConfigs,    \* [Devices -> set of configurations the device may have]
  EssentialWorkers, \* policy.EssentialWorkers
  ClassBudget,      \* worker budget per volatility class
  ScopeLimit,       \* isolation limit per device, site, subnet, profile; 0 = none
  TaskBuffer,       \* capacity of the tasks and of the completions channel
  RedueBuffer,      \* capacity of the redueRequests channel
  Workers,          \* pipeline worker goroutines
  ClockSkew,        \* {FALSE}, or BOOLEAN when the wall clock may step back
  MaxRuns,          \* bound: how often Start is called
  MaxChanges,       \* bound: inventory and membership changes
  NoTask            \* what an idle worker holds

VolatilityClasses == {"performance", "operational", "static"}

Kinds == {"essential", "bootstrap"} \cup Classes

\* TaskKey: a device and what is polled on it.
Keys == Devices \X Kinds

ScopeKeys == Devices \cup Scopes

\* What the scheduler reads of a domain.Device: whether recurring polling is
\* enabled, whether its topology bootstrap is pending, and its isolation keys.
Config == [eligible : BOOLEAN, bootstrap : BOOLEAN, scopes : SUBSET Scopes]

ASSUME ConstantsOK ==
  /\ IsFiniteSet(Devices) /\ VirtualDevices \subseteq Devices
  /\ Classes \subseteq VolatilityClasses
  /\ "performance" \in Classes
  /\ VirtualDevices # {} => "operational" \in Classes
  /\ DeviceConfigs \in [Devices -> SUBSET Config]
  /\ EssentialWorkers \in Nat
  /\ ClassBudget \in [VolatilityClasses -> Nat]
  /\ ScopeLimit \in [ScopeKeys -> Nat]
  /\ TaskBuffer \in Nat \ {0} /\ RedueBuffer \in Nat \ {0}
  /\ ClockSkew \subseteq BOOLEAN
  /\ MaxRuns \in Nat /\ MaxChanges \in Nat
  /\ NoTask \notin [key : Keys, run : Nat, sending : BOOLEAN]

VARIABLES
  items,             \* the scheduled items, by key
  heap,              \* keys of the items in the timed heap
  ready,             \* the three ready queues
  inFlight,          \* dispatched tasks not yet completed
  inFlightByKind,    \* ... of kind essential
  inFlightByClass,   \* ... of the other kinds, per volatility class
  inFlightByScope,   \* inFlightBy{Device,Site,Subnet,Profile}
  essentialByScope,  \* essentialBy{Device,Site,Subnet,Profile}
  runID,             \* number of the current or last run
  running,           \* the atomic flag read by Complete and the re-due calls
  lifecycle,         \* "stopped", "started", or "stopping" (inside Stop)
  cancelled,         \* the run's context is done
  pc,                \* where the run goroutine is
  tasks,             \* the task channel
  completions,       \* the completion channel
  redueRequests,     \* the re-due request channel
  worker,            \* what each pipeline worker holds
  inventory,         \* the device configurations the source returns
  members,           \* devices on at least one saved map
  calls,             \* ReconcileDeviceTasks calls under way
  changes            \* environment changes so far (bounds the model)

counters == <<inFlight, inFlightByKind, inFlightByClass, inFlightByScope,
              essentialByScope>>
queues == <<items, heap, ready>>
channels == <<tasks, completions, redueRequests, worker>>
control == <<runID, running, lifecycle, cancelled>>
environment == <<inventory, members, calls, changes>>
vars == <<queues, counters, control, pc, channels, environment>>

-----------------------------------------------------------------------------
(* Keys and items.                                                         *)

Essential(k) == k[2] = "essential"

BootstrapKeys == {k \in Keys : k[2] = "bootstrap"}

\* The class whose budget a non-essential task is charged to.
Class(k) == IF k[2] = "bootstrap" THEN "static" ELSE k[2]

\* readyPriority: which ready queue an item waits in.
Priority(k) ==
  CASE k[2] \in {"essential", "performance"} -> 0
    [] k[2] = "operational" -> 1
    [] k[2] \in {"static", "bootstrap"} -> 2

\* The keys scheduleRecurringDeviceLocked schedules for device d.
KeysOf(d, config) ==
  IF ~config.eligible THEN {}
  ELSE {d} \X
         IF d \in VirtualDevices THEN {"operational"}
         ELSE Classes \cup {"essential"}
                \cup IF config.bootstrap THEN {"bootstrap"} ELSE {}

Phases == {"waiting", "due", "elapsed"}

Item == [queued : BOOLEAN, inFlight : BOOLEAN, pending : BOOLEAN,
         immediateRerun : BOOLEAN, disabled : BOOLEAN, phase : Phases,
         scopes : SUBSET Scopes, runID : Nat]

NewItem(config, queued) ==
  [queued |-> queued, inFlight |-> FALSE, pending |-> FALSE,
   immediateRerun |-> FALSE, disabled |-> FALSE,
   phase |-> IF queued THEN "due" ELSE "waiting",
   scopes |-> config.scopes, runID |-> 0]

\* An existing item takes the device's new configuration and is enabled again.
Reconfigured(item, config) ==
  [item EXCEPT !.disabled = FALSE, !.scopes = config.scopes]

InFlightKeys == {k \in DOMAIN items : items[k].inFlight}

\* The isolation counters the item's task is charged to.
ScopesOf(k) == {k[1]} \cup items[k].scopes

\* Mutant: a queued item is pushed to the front without being taken out first.
KeepsReadyItem(s, k) == s

\* removeReadyItem: queue s without item k.
removeReadyItem(s, k) ==
  IF \E i \in DOMAIN s : s[i] = k
  THEN RemoveAt(s, CHOOSE i \in DOMAIN s : s[i] = k)
  ELSE s

\* pushReadyFront: item k at the head of its ready queue.
pushReadyFront(queue, k) ==
  [queue EXCEPT ![Priority(k)] = <<k>> \o @]

\* The ready queues without the items of device d (removeDeviceTasksLocked).
WithoutDevice(d) ==
  [ready EXCEPT
     ![0] = removeReadyItem(removeReadyItem(@, <<d, "essential">>),
                            <<d, "performance">>),
     ![1] = removeReadyItem(@, <<d, "operational">>),
     ![2] = removeReadyItem(removeReadyItem(@, <<d, "static">>),
                            <<d, "bootstrap">>)]

-----------------------------------------------------------------------------
(* Admission limits.                                                       *)

\* clampEssentialLimit.
EssentialLimit ==
  LET limit == IF EssentialWorkers > TaskBuffer THEN TaskBuffer
               ELSE EssentialWorkers
  IN  IF limit <= 0 THEN 1 ELSE limit

\* Mutant: the global limit ignores the capacity of the channels.
UnclampedLimit ==
  ClassBudget["performance"] + ClassBudget["operational"]
    + ClassBudget["static"] + EssentialLimit

\* dispatchLimits: the budgets and the essential limit, within the buffers.
GlobalLimit ==
  LET limit == ClassBudget["performance"] + ClassBudget["operational"]
                 + ClassBudget["static"] + EssentialLimit
  IN  IF limit > TaskBuffer THEN TaskBuffer ELSE limit


\* isolationBlock: some device, site, subnet or profile limit is reached.
IsolationBlocked(k, counts) ==
  \E s \in ScopesOf(k) : ScopeLimit[s] > 0 /\ counts[s] >= ScopeLimit[s]

\* dispatchBlockWithLimits.
Blocked(k) ==
  IF Essential(k)
  THEN \/ inFlightByKind >= EssentialLimit
       \/ IsolationBlocked(k, essentialByScope)
  ELSE \/ inFlightByClass[Class(k)] >= ClassBudget[Class(k)]
       \/ IsolationBlocked(k, inFlightByScope)

\* popReadyEligible prefers essential tasks, then bootstraps, then the rest.
Preference(k) ==
  IF Essential(k) THEN 0 ELSE IF k[2] = "bootstrap" THEN 1 ELSE 2

\* popReadyEligible takes position i of queue p: the first that is not
\* blocked, by preference, then by queue, then by position.
Pops(p, i) ==
  /\ ~Blocked(ready[p][i])
  /\ \A q \in 0..2 : \A j \in DOMAIN ready[q] :
       LET k == ready[p][i]
           other == ready[q][j]
       IN  \/ Blocked(other)
           \/ Preference(k) < Preference(other)
           \/ Preference(k) = Preference(other) /\ (p < q \/ (p = q /\ i <= j))

\* dispatchReady stops: the global limit is reached or nothing is eligible.
NothingToDispatch ==
  \/ inFlight >= GlobalLimit
  \/ \A p \in 0..2 : \A i \in DOMAIN ready[p] : Blocked(ready[p][i])

incrementInFlight(k) ==
  IF Essential(k)
  THEN inFlightByKind' = inFlightByKind + 1 /\ UNCHANGED inFlightByClass
  ELSE /\ inFlightByClass' = [inFlightByClass EXCEPT ![Class(k)] = @ + 1]
       /\ UNCHANGED inFlightByKind

\* One more in every scope of item k.
incrementIsolationCounts(k) ==
  LET more(counts) ==
        [s \in ScopeKeys |-> counts[s] + IF s \in ScopesOf(k) THEN 1 ELSE 0]
  IN  /\ inFlightByScope' = more(inFlightByScope)
      /\ essentialByScope' = IF Essential(k) THEN more(essentialByScope)
                             ELSE essentialByScope

\* Mutant: a dispatch is not counted in the total.
ChargeWithoutTotal(k) ==
  /\ UNCHANGED inFlight
  /\ incrementInFlight(k)
  /\ incrementIsolationCounts(k)

\* What a dispatched task is charged to.
Charge(k) ==
  /\ inFlight' = inFlight + 1
  /\ incrementInFlight(k)
  /\ incrementIsolationCounts(k)

\* Mutant: a count of one is never released.
ReleasedAboveOne(n) == IF n > 1 THEN n - 1 ELSE n

\* decrementCount: a count released below zero stays at zero.
Released(n) == IF n > 0 THEN n - 1 ELSE 0

decrementInFlight(k) ==
  IF Essential(k)
  THEN inFlightByKind' = Released(inFlightByKind) /\ UNCHANGED inFlightByClass
  ELSE /\ inFlightByClass' = [inFlightByClass EXCEPT ![Class(k)] = Released(@)]
       /\ UNCHANGED inFlightByKind

\* One less in every scope item k has now, which may not be those it had when
\* it was dispatched.
decrementIsolationCounts(k) ==
  LET less(counts) ==
        [s \in ScopeKeys |-> IF s \in ScopesOf(k) THEN Released(counts[s])
                             ELSE counts[s]]
  IN  /\ inFlightByScope' = less(inFlightByScope)
      /\ essentialByScope' = IF Essential(k) THEN less(essentialByScope)
                             ELSE essentialByScope

Release(k) ==
  /\ inFlight' = inFlight - 1
  /\ decrementInFlight(k)
  /\ decrementIsolationCounts(k)

\* Mutant: a new run starts with the counters of the last one.
CountersKept == UNCHANGED counters

\* resetRuntimeState: the counters are cleared.
CountersReset ==
  /\ inFlight' = 0 /\ inFlightByKind' = 0
  /\ inFlightByClass' = [c \in VolatilityClasses |-> 0]
  /\ inFlightByScope' = [s \in ScopeKeys |-> 0]
  /\ essentialByScope' = [s \in ScopeKeys |-> 0]

-----------------------------------------------------------------------------
(* Inventory: refreshDevices, ReconcileDeviceTasks, re-due requests.       *)

\* The keys of every member device, as the device source returns them.
Scheduled == UNION {KeysOf(d, inventory[d]) : d \in members}

\* The loop does not hold the scheduler's mutex.
MuFree == pc \notin {"move", "dispatch"}


\* What is left of an item that was removed while queued or in flight.
Disabled(item) == [item EXCEPT !.disabled = TRUE]

\* refreshDevices: upsert what the source lists; of the rest, disable what is
\* queued or in flight and drop what only waits in the heap.
refreshDevices ==
  LET new == Scheduled \ DOMAIN items
      kept == {k \in DOMAIN items :
                 k \in Scheduled \/ items[k].inFlight \/ items[k].queued}
  IN  /\ items' = [k \in kept \cup new |->
                     IF k \in new
                     THEN NewItem(inventory[k[1]], k \in BootstrapKeys)
                     ELSE IF k \in Scheduled
                          THEN Reconfigured(items[k], inventory[k[1]])
                          ELSE Disabled(items[k])]
      /\ heap' = (heap \cap kept) \cup (new \ BootstrapKeys)
      /\ LET first == new \cap BootstrapKeys
         IN  \E s \in Bijection(1..Cardinality(first), first) :
               ready' = [ready EXCEPT ![2] = s \o @]

\* ReconcileDeviceTasks for the configuration c its caller read: remove the
\* device's tasks, keeping those in flight as disabled, then schedule it again
\* if it is a member and eligible.
ReconcileDeviceTasks(c) ==
  LET d == c.device
      mine == {k \in DOMAIN items : k[1] = d}
      left == {k \in mine : items[k].inFlight}
      wanted == IF d \in members THEN KeysOf(d, c.config) ELSE {}
      new == wanted \ left
  IN  /\ MuFree
      /\ c \in calls
      /\ calls' = calls \ {c}
      /\ items' = [k \in (DOMAIN items \ mine) \cup left \cup new |->
                     IF k \in new THEN NewItem(c.config, k \in BootstrapKeys)
                     ELSE IF k \in left
                     THEN LET item == [Disabled(items[k]) EXCEPT !.pending = FALSE]
                          IN  IF k \in wanted
                              THEN Reconfigured(item, c.config) ELSE item
                     ELSE items[k]]
      /\ heap' = (heap \ mine) \cup (new \ BootstrapKeys)
      /\ ready' = IF <<d, "bootstrap">> \in new
                  THEN pushReadyFront(WithoutDevice(d), <<d, "bootstrap">>)
                  ELSE WithoutDevice(d)
      /\ UNCHANGED <<counters, control, pc, channels, inventory, members, changes>>

\* ReduePerformanceTask, RedueEssentialTask and ScheduleBootstrap: check the
\* flag and the device, then send the request with the device as it is now.
\* A full channel blocks the first two and refuses the third.
RequestRedue(d, kind) ==
  /\ running
  /\ inventory[d].eligible /\ d \in members \ VirtualDevices
  /\ Len(redueRequests) < RedueBuffer
  /\ changes < MaxChanges
  /\ changes' = changes + 1
  /\ redueRequests' = Append(redueRequests, [device |-> d, kind |-> kind,
                                             config |-> inventory[d]])
  /\ UNCHANGED <<queues, counters, control, pc, tasks, completions, worker,
                 inventory, members, calls>>

\* The key a re-due request is about.
RedueKey(r) ==
  <<r.device, IF r.kind = "essential" THEN "essential"
              ELSE IF r.config.bootstrap THEN "bootstrap" ELSE "performance">>

\* handleRedueEssentialTask, handleReduePerformanceTask, scheduleBootstrapItem:
\* the item is due now.  In flight it runs again on completion; queued it moves
\* to the front; in the heap it stays there, due; new it goes to the front.
ApplyRedue(r) ==
  LET k == RedueKey(r)
      item == [Reconfigured(items[k], r.config) EXCEPT !.phase = "due"]
  IN  IF k \notin DOMAIN items
      THEN /\ items' = [x \in DOMAIN items \cup {k} |->
                          IF x = k THEN NewItem(r.config, TRUE) ELSE items[x]]
           /\ ready' = pushReadyFront(ready, k)
      ELSE IF item.inFlight
      THEN /\ items' = [items EXCEPT ![k] =
                          [item EXCEPT !.pending = TRUE, !.immediateRerun = TRUE]]
           /\ UNCHANGED ready
      ELSE IF item.queued
      THEN /\ items' = [items EXCEPT ![k] = item]
           /\ ready' = pushReadyFront(
                [ready EXCEPT ![Priority(k)] = removeReadyItem(@, k)], k)
      ELSE IF k \in heap
      THEN /\ items' = [items EXCEPT ![k] = item]
           /\ UNCHANGED ready
      ELSE /\ items' = [items EXCEPT ![k] = [item EXCEPT !.queued = TRUE]]
           /\ ready' = pushReadyFront(ready, k)

-----------------------------------------------------------------------------
(* The run loop.                                                           *)

\* moveDueTasksToReady begins: a dispatched task whose next window has gone by
\* is marked pending (markElapsedInFlightWindows).  The loop takes the mutex.
BeginIteration ==
  /\ pc = "loop"
  /\ pc' = "move"
  /\ items' = [k \in DOMAIN items |->
                 IF items[k].inFlight /\ items[k].phase = "elapsed"
                 THEN [items[k] EXCEPT !.pending = TRUE] ELSE items[k]]
  /\ UNCHANGED <<heap, ready, counters, control, channels, environment>>

\* One due item leaves the heap: dropped when disabled, a skipped window when
\* it is already in flight or queued, otherwise appended to its ready queue.
MoveDueTask(k) ==
  /\ pc = "move"
  /\ k \in heap /\ items[k].phase # "waiting"
  /\ heap' = heap \ {k}
  /\ IF items[k].disabled
     THEN /\ items' = Restrict(items, DOMAIN items \ {k})
          /\ UNCHANGED ready
     ELSE IF items[k].inFlight \/ items[k].queued
     THEN /\ items' = [items EXCEPT ![k].pending = TRUE]
          /\ UNCHANGED ready
     ELSE /\ items' = [items EXCEPT ![k].queued = TRUE]
          /\ ready' = [ready EXCEPT ![Priority(k)] = Append(@, k)]
  /\ UNCHANGED <<counters, control, pc, channels, environment>>

MoveDone ==
  /\ pc = "move"
  /\ \A k \in heap : items[k].phase = "waiting"
  /\ pc' = "dispatch"
  /\ UNCHANGED <<queues, counters, control, channels, environment>>

\* dispatchReady takes the item at position i of queue p.  A disabled item is
\* dropped; otherwise its task is sent and charged to the counters.
DispatchTask(p, i) ==
  LET k == ready[p][i]
  IN  /\ pc = "dispatch"
      /\ inFlight < GlobalLimit
      /\ Pops(p, i)
      /\ ready' = [ready EXCEPT ![p] = RemoveAt(@, i)]
      /\ IF items[k].disabled
         THEN /\ items' = Restrict(items, DOMAIN items \ {k})
              /\ UNCHANGED <<counters, tasks>>
         ELSE /\ Len(tasks) < TaskBuffer
              /\ tasks' = Append(tasks, [key |-> k, run |-> runID])
              /\ items' = [items EXCEPT ![k].queued = FALSE,
                                        ![k].inFlight = TRUE,
                                        ![k].runID = runID]
              /\ Charge(k)
      /\ UNCHANGED <<heap, control, pc, completions, redueRequests, worker,
                     environment>>

\* dispatchReady sees the context done instead of sending: the item goes back
\* to the front of its queue and the cycle ends.
DispatchAborted(p, i) ==
  /\ pc = "dispatch"
  /\ cancelled
  /\ inFlight < GlobalLimit
  /\ Pops(p, i) /\ ~items[ready[p][i]].disabled
  /\ ready' = [ready EXCEPT ![p] = <<@[i]>> \o RemoveAt(@, i)]
  /\ pc' = "select"
  /\ UNCHANGED <<items, heap, counters, control, channels, environment>>

DispatchDone ==
  /\ pc = "dispatch"
  /\ NothingToDispatch
  /\ pc' = "select"
  /\ UNCHANGED <<queues, counters, control, channels, environment>>

\* The timer fires, or an inventory refresh fails.
Wake ==
  /\ pc = "select"
  /\ pc' = "loop"
  /\ UNCHANGED <<queues, counters, control, channels, environment>>

Refresh ==
  /\ pc = "select"
  /\ pc' = "loop"
  /\ refreshDevices
  /\ UNCHANGED <<counters, control, channels, environment>>

\* The request's device is checked again when it is handled.
HandleRedue ==
  /\ pc = "select"
  /\ redueRequests # <<>>
  /\ redueRequests' = Tail(redueRequests)
  /\ pc' = "loop"
  /\ LET r == Head(redueRequests)
     IN  IF r.config.eligible /\ r.device \in members \ VirtualDevices
         THEN ApplyRedue(r)
         ELSE UNCHANGED <<items, ready>>
  /\ UNCHANGED <<heap, counters, control, tasks, completions, worker, environment>>

\* Mutant: a completion of an earlier run is accepted.
AcceptsAnyRun(c) ==
  c.key \in DOMAIN items /\ items[c.key].inFlight /\ ~c.early


\* handleCompletion accepts a completion only for the dispatch it belongs to.
Accepts(c) ==
  /\ c.key \in DOMAIN items /\ items[c.key].inFlight
  /\ ~c.early
  /\ c.run = items[c.key].runID

\* Where a completed item goes: dropped when disabled; queued again at once when
\* a re-due asked for it, or an essential task missed a window; else the heap.
Requeue(k, overdue) ==
  LET done == [items[k] EXCEPT !.inFlight = FALSE, !.runID = 0,
                               !.pending = FALSE, !.immediateRerun = FALSE]
  IN  IF items[k].disabled
      THEN /\ items' = Restrict(items, DOMAIN items \ {k})
           /\ UNCHANGED <<heap, ready>>
      ELSE IF \/ items[k].immediateRerun
              \/ Essential(k) /\ (items[k].pending \/ overdue)
      THEN /\ items' = [items EXCEPT ![k] = [done EXCEPT !.queued = TRUE,
                                                         !.phase = "due"]]
           /\ ready' = [ready EXCEPT ![Priority(k)] = Append(@, k)]
           /\ UNCHANGED heap
      ELSE /\ items' = [items EXCEPT ![k] = [done EXCEPT !.phase = "waiting"]]
           /\ heap' = heap \cup {k}
           /\ UNCHANGED ready

HandleCompletion ==
  /\ pc = "select"
  /\ completions # <<>>
  /\ completions' = Tail(completions)
  /\ pc' = "loop"
  /\ LET c == Head(completions)
     IN  IF Accepts(c)
         THEN /\ Release(c.key)
              /\ \E overdue \in BOOLEAN :
                   /\ overdue => items[c.key].phase = "elapsed"
                   /\ Requeue(c.key, overdue)
         ELSE UNCHANGED <<queues, counters>>
  /\ UNCHANGED <<control, tasks, redueRequests, worker, environment>>

-----------------------------------------------------------------------------
(* Workers: runWorker takes a task; when it is done the deferred Complete  *)
(* reads the running flag and then sends, blocking on a full channel.      *)

TakeTask(w) ==
  /\ worker[w] = NoTask
  /\ tasks # <<>>
  /\ tasks' = Tail(tasks)
  /\ worker' = [worker EXCEPT ![w] = [key |-> Head(tasks).key,
                                      run |-> Head(tasks).run,
                                      sending |-> FALSE]]
  /\ UNCHANGED <<queues, counters, control, pc, completions, redueRequests,
                 environment>>

Complete(w) ==
  /\ worker[w] # NoTask /\ ~worker[w].sending
  /\ worker' = [worker EXCEPT ![w] =
                  IF running THEN [@ EXCEPT !.sending = TRUE] ELSE NoTask]
  /\ UNCHANGED <<queues, counters, control, pc, tasks, completions,
                 redueRequests, environment>>

SendCompletion(w) ==
  /\ worker[w] # NoTask /\ worker[w].sending
  /\ Len(completions) < TaskBuffer
  /\ \E early \in ClockSkew :
       completions' = Append(completions, [key |-> worker[w].key,
                                           run |-> worker[w].run,
                                           early |-> early])
  /\ worker' = [worker EXCEPT ![w] = NoTask]
  /\ UNCHANGED <<queues, counters, control, pc, tasks, redueRequests, environment>>

-----------------------------------------------------------------------------
(* Lifecycle.                                                              *)

Start ==
  /\ lifecycle = "stopped" /\ runID < MaxRuns
  /\ lifecycle' = "started"
  /\ runID' = runID + 1
  /\ running' = TRUE /\ cancelled' = FALSE
  /\ pc' = "loop"
  /\ \/ refreshDevices
     \/ UNCHANGED queues \* the source failed
  /\ UNCHANGED <<counters, channels, environment>>

\* The context passed to Start is cancelled.
CancelContext ==
  /\ lifecycle = "started" /\ ~cancelled
  /\ cancelled' = TRUE
  /\ UNCHANGED <<queues, counters, runID, running, lifecycle, pc, channels,
                 environment>>

\* Stop up to its wait for the run goroutine.
BeginStop ==
  /\ lifecycle = "started"
  /\ lifecycle' = "stopping"
  /\ running' = FALSE /\ cancelled' = TRUE
  /\ UNCHANGED <<queues, counters, runID, pc, channels, environment>>

\* Mutant: the run goroutine returns only when nothing is in flight.
LoopExitWhenIdle ==
  /\ pc = "select" /\ cancelled /\ inFlight = 0
  /\ pc' = "exited"
  /\ running' = FALSE
  /\ UNCHANGED <<queues, counters, runID, lifecycle, cancelled, channels,
                 environment>>

\* The run goroutine sees its context done and returns.
LoopExit ==
  /\ pc = "select" /\ cancelled
  /\ pc' = "exited"
  /\ running' = FALSE
  /\ UNCHANGED <<queues, counters, runID, lifecycle, cancelled, channels,
                 environment>>

\* Stop after the wait: resetRuntimeState clears the state, drains the channels.
FinishStop ==
  /\ lifecycle = "stopping" /\ pc = "exited"
  /\ lifecycle' = "stopped" /\ pc' = "stopped"
  /\ items' = <<>> /\ heap' = {} /\ ready' = [p \in 0..2 |-> <<>>]
  /\ CountersReset
  /\ tasks' = <<>> /\ completions' = <<>> /\ redueRequests' = <<>>
  /\ UNCHANGED <<runID, running, cancelled, worker, environment>>

-----------------------------------------------------------------------------
(* The environment: time, the inventory and map membership.                *)

\* An item in the heap falls due; a dispatched one outlives its window.  The
\* loop reads the clock once per iteration, before it takes the mutex.
Tick(k) ==
  /\ MuFree
  /\ k \in DOMAIN items
  /\ \/ /\ k \in heap /\ items[k].phase = "waiting"
        /\ items' = [items EXCEPT ![k].phase = "due"]
     \/ /\ items[k].inFlight /\ items[k].phase = "due"
        /\ items' = [items EXCEPT ![k].phase = "elapsed"]
  /\ UNCHANGED <<heap, ready, counters, control, pc, channels, environment>>

\* A device update is stored; its request handler then may call
\* ReconcileDeviceTasks with the configuration it stored.
ChangeDevice(d, config) ==
  /\ changes < MaxChanges
  /\ config # inventory[d]
  /\ changes' = changes + 1
  /\ inventory' = [inventory EXCEPT ![d] = config]
  /\ \/ calls' = calls \cup {[device |-> d, config |-> config]}
     \/ UNCHANGED calls
  /\ UNCHANGED <<queues, counters, control, pc, channels, members>>

\* A saved map gains or loses the device.
ChangeMembership(d) ==
  /\ changes < MaxChanges
  /\ changes' = changes + 1
  /\ members' = IF d \in members THEN members \ {d} ELSE members \cup {d}
  /\ UNCHANGED <<queues, counters, control, pc, channels, inventory, calls>>

-----------------------------------------------------------------------------
Init ==
  /\ items = <<>> /\ heap = {} /\ ready = [p \in 0..2 |-> <<>>]
  /\ inFlight = 0 /\ inFlightByKind = 0
  /\ inFlightByClass = [c \in VolatilityClasses |-> 0]
  /\ inFlightByScope = [s \in ScopeKeys |-> 0]
  /\ essentialByScope = [s \in ScopeKeys |-> 0]
  /\ runID = 0 /\ running = FALSE /\ lifecycle = "stopped"
  /\ cancelled = FALSE /\ pc = "stopped"
  /\ tasks = <<>> /\ completions = <<>> /\ redueRequests = <<>>
  /\ worker = [w \in Workers |-> NoTask]
  /\ inventory \in {f \in [Devices -> UNION Range(DeviceConfigs)] :
                      \A d \in Devices : f[d] \in DeviceConfigs[d]}
  /\ members = Devices /\ calls = {} /\ changes = 0

Loop ==
  \/ BeginIteration \/ MoveDone \/ DispatchDone
  \/ \E k \in Keys : MoveDueTask(k)
  \/ \E p \in 0..2 : \E i \in DOMAIN ready[p] :
       DispatchTask(p, i) \/ DispatchAborted(p, i)
  \/ Wake \/ Refresh \/ HandleRedue \/ HandleCompletion \/ LoopExit

Next ==
  \/ Loop
  \/ \E w \in Workers : TakeTask(w) \/ Complete(w) \/ SendCompletion(w)
  \/ Start \/ CancelContext \/ BeginStop \/ FinishStop
  \/ \E c \in calls : ReconcileDeviceTasks(c)
  \/ \E d \in Devices :
       \/ RequestRedue(d, "essential") \/ RequestRedue(d, "background")
       \/ \E config \in DeviceConfigs[d] : ChangeDevice(d, config)
       \/ ChangeMembership(d)
  \/ \E k \in Keys : Tick(k)

Spec == Init /\ [][Next]_vars

\* What the code's scheduling guarantees while the process lives: the run
\* goroutine proceeds; its select picks at random among the ready cases, and the
\* mutex serves its waiters, so neither starves one; workers finish their polls
\* (every collector call has a timeout); the refresh ticker keeps firing; a
\* waiting item falls due.
Fairness ==
  /\ WF_vars(Loop)
  /\ SF_vars(Refresh) /\ SF_vars(HandleRedue) /\ SF_vars(HandleCompletion)
  /\ SF_vars(LoopExit)
  /\ \A w \in Workers : WF_vars(TakeTask(w) \/ Complete(w) \/ SendCompletion(w))
  /\ WF_vars(FinishStop)
  /\ \A c \in [device : Devices, config : UNION Range(DeviceConfigs)] :
       SF_vars(ReconcileDeviceTasks(c))
  /\ \A k \in Keys : SF_vars(Tick(k))

FairSpec == Spec /\ Fairness

-----------------------------------------------------------------------------
(* Properties.                                                             *)

Task == [key : Keys, run : Nat]
Request == [device : Devices, kind : {"essential", "background"}, config : Config]

\* Types of all variables.
TypeOK ==
  /\ DOMAIN items \subseteq Keys /\ \A k \in DOMAIN items : items[k] \in Item
  /\ heap \subseteq Keys
  /\ ready \in [0..2 -> Seq(Keys)]
  /\ inFlight \in Nat /\ inFlightByKind \in Nat
  /\ inFlightByClass \in [VolatilityClasses -> Nat]
  /\ inFlightByScope \in [ScopeKeys -> Nat]
  /\ essentialByScope \in [ScopeKeys -> Nat]
  /\ runID \in Nat /\ running \in BOOLEAN /\ cancelled \in BOOLEAN
  /\ lifecycle \in {"stopped", "started", "stopping"}
  /\ pc \in {"stopped", "loop", "move", "dispatch", "select", "exited"}
  /\ tasks \in Seq(Task)
  /\ completions \in Seq([key : Keys, run : Nat, early : BOOLEAN])
  /\ redueRequests \in Seq(Request)
  /\ worker \in [Workers -> [key : Keys, run : Nat, sending : BOOLEAN] \cup {NoTask}]
  /\ inventory \in [Devices -> Config]
  /\ members \subseteq Devices
  /\ calls \subseteq [device : Devices, config : Config]
  /\ changes \in Nat

\* Every scheduled item is in exactly one place: in the heap, at one position of
\* its own ready queue, or in flight; the queued flag, the heap index and the
\* queues agree however refreshes, reconciliations, re-dues and completions
\* interleave, and no queue holds an item that was dropped.
OnePlace ==
  /\ heap \subseteq DOMAIN items
  /\ \A k \in DOMAIN items :
       \/ k \in heap /\ ~items[k].queued /\ ~items[k].inFlight
       \/ k \notin heap /\ items[k].queued /\ ~items[k].inFlight
       \/ k \notin heap /\ ~items[k].queued /\ items[k].inFlight
  /\ \A k \in DOMAIN items :
       items[k].queued => \E i \in DOMAIN ready[Priority(k)] : ready[Priority(k)][i] = k
  /\ \A p \in 0..2 : \A i \in DOMAIN ready[p] :
       /\ ready[p][i] \in DOMAIN items /\ items[ready[p][i]].queued
       /\ Priority(ready[p][i]) = p
       /\ \A j \in DOMAIN ready[p] : ready[p][i] = ready[p][j] => i = j

\* The tasks of the current run for key k that are somewhere between dispatch
\* and handleCompletion.
LiveTasks(k) ==
  Cardinality({i \in DOMAIN tasks : tasks[i].key = k /\ tasks[i].run = runID})
  + Cardinality({w \in Workers : /\ worker[w] # NoTask
                                 /\ worker[w].key = k /\ worker[w].run = runID})
  + Cardinality({i \in DOMAIN completions :
                   completions[i].key = k /\ completions[i].run = runID})

\* While the scheduler runs, a key in flight has exactly one task between
\* dispatch and completion, and a key not in flight has none: no device is
\* polled twice at once for the same key, and no in-flight item waits for a
\* completion that cannot come (dispatchReady, Complete, handleCompletion).
OneTaskPerKey ==
  running => \A k \in Keys : LiveTasks(k) = IF k \in InFlightKeys THEN 1 ELSE 0

\* The admission counters equal what is in flight, for the total, the essential
\* kind and every class (incrementInFlight, decrementInFlight).
CountersExact ==
  /\ inFlight = Cardinality(InFlightKeys)
  /\ inFlightByKind = Cardinality({k \in InFlightKeys : Essential(k)})
  /\ \A c \in VolatilityClasses :
       inFlightByClass[c] =
         Cardinality({k \in InFlightKeys : ~Essential(k) /\ Class(k) = c})

\* The isolation counters equal what is in flight in each scope
\* (incrementIsolationCounts, decrementIsolationCounts).
ScopeCountersExact ==
  \A s \in ScopeKeys :
    /\ inFlightByScope[s] = Cardinality({k \in InFlightKeys : s \in ScopesOf(k)})
    /\ essentialByScope[s] =
         Cardinality({k \in InFlightKeys : Essential(k) /\ s \in ScopesOf(k)})


\* dispatchReady, which sends while it holds the mutex, never finds the task
\* channel full: the global limit keeps the channel within its capacity.
DispatchNeverBlocks ==
  pc = "dispatch" /\ inFlight < GlobalLimit => Len(tasks) < TaskBuffer

\* Every accepted task that completed has released the counters it was charged
\* to: when nothing is in flight all of them are zero.
CountersReleased ==
  InFlightKeys = {} => /\ inFlight = 0
                       /\ \A s \in ScopeKeys : /\ inFlightByScope[s] = 0
                                               /\ essentialByScope[s] = 0

\* Stop returns: the run goroutine never blocks for good in a dispatch cycle and
\* reaches the select that sees its context done.
StopReturns == lifecycle = "stopping" ~> lifecycle = "stopped"

\* Once the inventory settles the scheduled items are those of the eligible
\* member devices, whatever stale reconciliations and re-due requests did.
Converges == <>[](running => DOMAIN items = Scheduled)


=============================================================================
