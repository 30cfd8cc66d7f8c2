-------------------------- MODULE SchedulerProofs ---------------------------
(***************************************************************************)
(* Safety of the polling scheduler for every instance of Scheduler: its    *)
(* types, the agreement of the ready queues, the heap and the items, the   *)
(* uniqueness of the task of a dispatched item, the exactness of the       *)
(* admission counters, and the room a dispatch finds in the task channel.  *)
(* The device reconciliations complete the induction of SchedulerSteps.    *)
(***************************************************************************)
EXTENDS SchedulerSteps

\* refreshDevices keeps the queues consistent and touches nothing in flight.
LEMMA refreshDevicesPlaces ==
  ASSUME IInv, refreshDevices
  PROVE  /\ DOMAIN items' \subseteq Keys /\ \A k \in DOMAIN items' : items'[k] \in Item
         /\ heap' \subseteq Keys /\ ready' \in [0..2 -> Seq(Keys)]
         /\ Places'
         /\ InFlightKeys' = InFlightKeys
         /\ \A k \in InFlightKeys : items'[k].runID = items[k].runID
<1> DEFINE new == Scheduled \ DOMAIN items
           kept == {k \in DOMAIN items :
                      k \in Scheduled \/ items[k].inFlight \/ items[k].queued}
           first == new \cap BootstrapKeys
<1>1. /\ DOMAIN items \subseteq Keys /\ \A k \in DOMAIN items : items[k] \in Item
      /\ ready \in [0..2 -> Seq(Keys)] /\ inventory \in [Devices -> Config]
      /\ members \subseteq Devices
  BY Zenon DEF IInv, TypeOK
<1>2. Scheduled \subseteq Keys
  <2> SUFFICES ASSUME NEW d \in members PROVE KeysOf(d, inventory[d]) \subseteq Keys
    BY DEF Scheduled
  <2> d \in Devices /\ inventory[d] \in Config
    BY <1>1
  <2> QED
    BY KeysOfKeys
<1>3. \A k \in Scheduled : inventory[k[1]] \in Config
  BY <1>1, <1>2, PriorityKinds
<1>4. /\ items' = [k \in kept \cup new |->
                     IF k \in new
                     THEN NewItem(inventory[k[1]], k \in BootstrapKeys)
                     ELSE IF k \in Scheduled
                          THEN Reconfigured(items[k], inventory[k[1]])
                          ELSE Disabled(items[k])]
      /\ heap' = (heap \cap kept) \cup (new \ BootstrapKeys)
  BY DEF refreshDevices
<1>5. PICK s \in Bijection(1..Cardinality(first), first) :
        ready' = [ready EXCEPT ![2] = s \o @]
  BY Zenon DEF refreshDevices
<1>6. /\ new \subseteq Keys /\ new \cap DOMAIN items = {} /\ new \subseteq Scheduled
      /\ kept \subseteq DOMAIN items /\ kept \subseteq Keys
      /\ first \subseteq new
      /\ \A k \in new : k \in first <=> k \in BootstrapKeys
      /\ \A k \in DOMAIN items : items[k].inFlight \/ items[k].queued => k \in kept
  BY <1>1, <1>2
<1>7. \A k \in first : Priority(k) = 2
  BY <1>6, PriorityKinds DEF BootstrapKeys
<1>8. Holds(s, first)
  <2>1. IsFiniteSet(first)
    BY <1>6, KeysFinite, FS_Subset
  <2> HIDE DEF first
  <2>2. QED
    BY <2>1, BijectionHolds
<1>9. DOMAIN items' = kept \cup new
  BY <1>4
<1>10. \A k \in new : /\ items'[k] \in Item /\ ~items'[k].inFlight
                      /\ items'[k].queued = (k \in BootstrapKeys)
  <2> SUFFICES ASSUME NEW k \in new
               PROVE  /\ items'[k] \in Item /\ ~items'[k].inFlight
                      /\ items'[k].queued = (k \in BootstrapKeys)
    OBVIOUS
  <2>1. items'[k] = NewItem(inventory[k[1]], k \in BootstrapKeys)
    BY <1>4
  <2>2. inventory[k[1]] \in Config /\ (k \in BootstrapKeys) \in BOOLEAN
    BY <1>3, <1>6
  <2>3. QED
    BY <2>1, <2>2, NewItemType, Zenon
<1>11. \A k \in kept : /\ items'[k] \in Item
                       /\ items'[k].queued = items[k].queued
                       /\ items'[k].inFlight = items[k].inFlight
                       /\ items'[k].runID = items[k].runID
  <2> SUFFICES ASSUME NEW k \in kept
               PROVE  /\ items'[k] \in Item
                      /\ items'[k].queued = items[k].queued
                      /\ items'[k].inFlight = items[k].inFlight
                      /\ items'[k].runID = items[k].runID
    OBVIOUS
  <2>1. k \notin new /\ items[k] \in Item
    BY <1>1, <1>6
  <2>2. CASE k \in Scheduled
    <3>1. items'[k] = Reconfigured(items[k], inventory[k[1]])
      BY <1>4, <2>1, <2>2
    <3>2. QED
      BY <1>3, <2>1, <2>2, <3>1, ReconfiguredType
  <2>3. CASE k \notin Scheduled
    <3>1. items'[k] = Disabled(items[k])
      BY <1>4, <2>1, <2>3
    <3>2. QED
      BY <2>1, <3>1, DisabledType
  <2>4. QED
    BY <2>2, <2>3
<1> HIDE DEF new, kept, first
<1>12. DOMAIN items' \subseteq Keys /\ \A k \in DOMAIN items' : items'[k] \in Item
  BY <1>6, <1>9, <1>10, <1>11
<1>13. heap' \subseteq Keys
  BY <1>4, <1>6
<1>14. Holds(s \o ready[2], QueuedAt(2) \cup first)
  <2>1. first \cap QueuedAt(2) = {}
    BY <1>6 DEF QueuedAt
  <2>2. Holds(ready[2], QueuedAt(2))
    BY SMTT(30) DEF IInv, Places
  <2>3. QED
    BY <1>8, <2>1, <2>2, ConcatHolds
<1>15. ready' \in [0..2 -> Seq(Keys)]
  <2>1. QueuedAt(2) \cup first \subseteq Keys
    BY <1>1, <1>6 DEF QueuedAt
  <2>2. s \o ready[2] \in Seq(Keys)
    BY <1>14, <2>1, SeqMonotonic DEF Holds
  <2>3. QED
    BY <1>1, <1>5, <2>2
<1>16. Places'
  <2>1. \A q \in 0..2 : Holds(ready'[q], QueuedAt(q)')
    <3> SUFFICES ASSUME NEW q \in 0..2 PROVE Holds(ready'[q], QueuedAt(q)')
      OBVIOUS
    <3>1. CASE q = 2
      <4>1. QueuedAt(q)' = QueuedAt(2) \cup first
        BY <3>1, <1>6, <1>7, <1>9, <1>10, <1>11, ZenonT(60) DEF QueuedAt
      <4>2. ready'[q] = s \o ready[2]
        BY <3>1, <1>1, <1>5
      <4>3. QED
        BY <1>14, <4>1, <4>2
    <3>2. CASE q # 2
      <4>1. QueuedAt(q)' = QueuedAt(q)
        BY <3>2, <1>6, <1>7, <1>9, <1>10, <1>11, Zenon DEF QueuedAt
      <4>2. ready'[q] = ready[q]
        BY <3>2, <1>1, <1>5
      <4>3. QED
        BY <4>1, <4>2, Zenon DEF IInv, Places
    <3>3. QED
      BY <3>1, <3>2
  <2>2. heap' \subseteq DOMAIN items'
    BY <1>4, <1>9
  <2>3. \A k \in DOMAIN items' :
          \/ k \in heap' /\ ~items'[k].queued /\ ~items'[k].inFlight
          \/ k \notin heap' /\ items'[k].queued /\ ~items'[k].inFlight
          \/ k \notin heap' /\ ~items'[k].queued /\ items'[k].inFlight
    <3> SUFFICES ASSUME NEW k \in DOMAIN items'
                 PROVE  \/ k \in heap' /\ ~items'[k].queued /\ ~items'[k].inFlight
                        \/ k \notin heap' /\ items'[k].queued /\ ~items'[k].inFlight
                        \/ k \notin heap' /\ ~items'[k].queued /\ items'[k].inFlight
      OBVIOUS
    <3>1. CASE k \in new
      <4>1. k \notin heap
        BY <3>1, <1>6, Zenon DEF IInv, Places
      <4>2. QED
        BY <3>1, <4>1, <1>4, <1>10, Zenon
    <3>2. CASE k \in kept
      <4>1. k \in DOMAIN items /\ k \notin new /\ (k \in heap' <=> k \in heap)
        BY <3>2, <1>4, <1>6
      <4>2. QED
        BY <3>2, <4>1, <1>11, Zenon DEF IInv, Places
    <3>3. QED
      BY <3>1, <3>2, <1>9
  <2>4. QED
    BY <2>1, <2>2, <2>3, Zenon DEF Places
<1>17. InFlightKeys' = InFlightKeys
  BY <1>6, <1>9, <1>10, <1>11 DEF InFlightKeys
<1>18. \A k \in InFlightKeys : items'[k].runID = items[k].runID
  BY <1>6, <1>11 DEF InFlightKeys
<1>19. QED
  BY <1>12, <1>13, <1>15, <1>16, <1>17, <1>18

\* The refresh ticker.
LEMMA RefreshInv ==
  ASSUME IInv, Refresh
  PROVE  IInv'
<1>1. /\ refreshDevices /\ pc = "select" /\ pc' = "loop"
      /\ UNCHANGED <<counters, control, channels, environment>>
  BY DEF Refresh
<1>2. /\ DOMAIN items' \subseteq Keys /\ \A k \in DOMAIN items' : items'[k] \in Item
      /\ heap' \subseteq Keys /\ ready' \in [0..2 -> Seq(Keys)]
      /\ Places' /\ InFlightKeys' = InFlightKeys
      /\ \A k \in InFlightKeys : items'[k].runID = items[k].runID
  BY <1>1, refreshDevicesPlaces
<1>3. TypeOK'
  BY <1>1, <1>2, Zenon DEF IInv, TypeOK, counters, control, channels, environment
<1>4. CountersExact'
  BY <1>1, <1>2, CountersFrame, Zenon DEF IInv
<1>5. Runs' /\ TasksInFlight' /\ TasksDistinct'
  BY <1>1, <1>2, TasksFrame, Zenon DEF IInv, control, channels
<1>6. QED
  BY <1>2, <1>3, <1>4, <1>5, Zenon DEF IInv

\* A new run: what workers still hold belongs to an earlier one.
LEMMA StartInv ==
  ASSUME IInv, Start
  PROVE  IInv'
<1>1. /\ lifecycle = "stopped" /\ lifecycle' = "started" /\ runID' = runID + 1
      /\ running' = TRUE /\ cancelled' = FALSE /\ pc' = "loop"
      /\ UNCHANGED <<counters, channels, environment>>
      /\ refreshDevices \/ UNCHANGED queues
  BY DEF Start
<1>2. /\ DOMAIN items' \subseteq Keys /\ \A k \in DOMAIN items' : items'[k] \in Item
      /\ heap' \subseteq Keys /\ ready' \in [0..2 -> Seq(Keys)]
      /\ Places' /\ InFlightKeys' = InFlightKeys
  <2>1. CASE refreshDevices
    BY <2>1, refreshDevicesPlaces
  <2>2. CASE UNCHANGED queues
    <3>1. Places'
      BY <2>2, PlacesFrame, Zenon DEF IInv
    <3>2. QED
      BY <2>2, <3>1, Zenon DEF IInv, TypeOK, queues, InFlightKeys
  <2>3. QED
    BY <1>1, <2>1, <2>2
<1>3. runID \in Nat /\ InFlightKeys = {} /\ tasks = <<>>
  BY <1>1, Zenon DEF IInv, TypeOK, Runs
<1>4. TypeOK'
  <2>1. /\ runID' \in Nat /\ running' \in BOOLEAN /\ cancelled' \in BOOLEAN
        /\ lifecycle' \in {"stopped", "started", "stopping"}
        /\ pc' \in {"stopped", "loop", "move", "dispatch", "select", "exited"}
    <3>1. runID' = runID + 1 /\ lifecycle' = "started" /\ pc' = "loop"
      BY <1>1
    <3>2. runID' \in Nat
      BY <1>3, <3>1
    <3>3. running' = TRUE /\ cancelled' = FALSE
      BY <1>1, Zenon
    <3>4. running' \in BOOLEAN /\ cancelled' \in BOOLEAN
      BY <3>3, Zenon
    <3>5. QED
      BY <3>1, <3>2, <3>4
  <2>2. UNCHANGED <<inFlight, inFlightByKind, inFlightByClass, inFlightByScope,
                    essentialByScope, tasks, completions, redueRequests, worker,
                    inventory, members, calls, changes>>
    BY <1>1 DEF counters, channels, environment
  <2>3. QED
    BY <1>2, <2>1, <2>2, Zenon DEF IInv, TypeOK
<1>5. CountersExact'
  BY <1>1, <1>2, CountersFrame, Zenon DEF IInv
<1>6. UNCHANGED <<tasks, worker, completions>>
  BY <1>1 DEF channels
<1>7. /\ \A w \in Workers : worker[w] # NoTask => worker[w].run \in Nat
      /\ \A i \in DOMAIN completions : completions[i].run \in Nat
  <2> DEFINE S == [key : Keys, run : Nat, early : BOOLEAN]
  <2>1. completions \in Seq(S)
    BY Zenon DEF IInv, TypeOK
  <2>2. \A i \in DOMAIN completions : completions[i] \in S
    <3> HIDE DEF S
    <3> QED
      BY <2>1
  <2>3. QED
    BY <2>2, Zenon DEF IInv, TypeOK
<1>8. /\ \A w \in Workers : worker[w] # NoTask => worker[w].run < runID'
      /\ \A i \in DOMAIN completions : completions[i].run < runID'
  BY <1>1, <1>3, <1>7, SMTT(30) DEF IInv, Runs
<1>9. /\ \A w \in Workers : ~LiveWorker(w)'
      /\ \A i \in DOMAIN completions : ~LiveCompletion(i)'
  <2>1. runID' \in Nat
    BY <1>1, <1>3
  <2>2. QED
    BY <1>6, <1>8, <2>1 DEF LiveWorker, LiveCompletion
<1>10. Runs'
  <2>1. /\ \A w \in Workers : worker[w] # NoTask => worker[w].run <= runID'
        /\ \A i \in DOMAIN completions : completions[i].run <= runID'
    <3>1. runID' \in Nat
      BY <1>1, <1>3
    <3>2. QED
      BY <1>8, <1>7, <3>1
  <2>2. QED
    BY <1>1, <1>2, <1>3, <1>6, <2>1, SMTT(30) DEF Runs
<1>11. TasksInFlight' /\ TasksDistinct'
  BY <1>3, <1>6, <1>9, SMTT(30) DEF TasksInFlight, TasksDistinct
<1>12. QED
  BY <1>2, <1>4, <1>5, <1>10, <1>11, Zenon DEF IInv

\* The ready queues without the items of a device.
LEMMA WithoutDeviceHolds ==
  ASSUME IInv, NEW d \in Devices
  PROVE  /\ WithoutDevice(d) \in [0..2 -> Seq(Keys)]
         /\ \A p \in 0..2 : Holds(WithoutDevice(d)[p], {k \in QueuedAt(p) : k[1] # d})
<1> DEFINE Rest(p) == {k \in QueuedAt(p) : k[1] # d}
<1>1. ready \in [0..2 -> Seq(Keys)] /\ \A p \in 0..2 : QueuedAt(p) \subseteq Keys
  BY Zenon DEF IInv, TypeOK, QueuedAt
<1>2. /\ Rest(0) = (QueuedAt(0) \ {<<d, "essential">>}) \ {<<d, "performance">>}
      /\ Rest(1) = QueuedAt(1) \ {<<d, "operational">>}
      /\ Rest(2) = (QueuedAt(2) \ {<<d, "static">>}) \ {<<d, "bootstrap">>}
  <2>1. \A p \in 0..2 : \A k \in QueuedAt(p) :
          k \in Keys /\ k = <<k[1], k[2]>> /\ Priority(k) = p
    BY <1>1, PriorityKinds DEF QueuedAt
  <2>2. \A k \in QueuedAt(0) : k[2] \in {"essential", "performance"}
    BY <2>1, PriorityKinds
  <2>3. \A k \in QueuedAt(1) : k[2] = "operational"
    BY <2>1, PriorityKinds
  <2>4. \A k \in QueuedAt(2) : k[2] \in {"static", "bootstrap"}
    BY <2>1, PriorityKinds
  <2>5. QED
    BY <2>1, <2>2, <2>3, <2>4
<1>3. /\ WithoutDevice(d)[0] = removeReadyItem(removeReadyItem(ready[0], <<d, "essential">>),
                                               <<d, "performance">>)
      /\ WithoutDevice(d)[1] = removeReadyItem(ready[1], <<d, "operational">>)
      /\ WithoutDevice(d)[2] = removeReadyItem(removeReadyItem(ready[2], <<d, "static">>),
                                               <<d, "bootstrap">>)
  BY <1>1 DEF WithoutDevice
<1>4. \A p \in 0..2 : Holds(ready[p], QueuedAt(p))
  BY Zenon DEF IInv, Places
<1>5. Holds(WithoutDevice(d)[0], Rest(0))
  <2>1. Holds(removeReadyItem(ready[0], <<d, "essential">>), QueuedAt(0) \ {<<d, "essential">>})
    BY <1>4, removeReadyItemHolds
  <2> HIDE DEF Rest
  <2>2. QED
    BY <1>2, <1>3, <2>1, removeReadyItemHolds
<1>6. Holds(WithoutDevice(d)[1], Rest(1))
  <2>1. Holds(removeReadyItem(ready[1], <<d, "operational">>),
              QueuedAt(1) \ {<<d, "operational">>})
    BY <1>4, removeReadyItemHolds
  <2> HIDE DEF Rest
  <2>2. QED
    BY <1>2, <1>3, <2>1
<1>7. Holds(WithoutDevice(d)[2], Rest(2))
  <2>1. Holds(removeReadyItem(ready[2], <<d, "static">>), QueuedAt(2) \ {<<d, "static">>})
    BY <1>4, removeReadyItemHolds
  <2> HIDE DEF Rest
  <2>2. QED
    BY <1>2, <1>3, <2>1, removeReadyItemHolds
<1>8. \A p \in 0..2 : Rest(p) \subseteq Keys
  BY <1>1
<1> HIDE DEF Rest
<1>9. \A p \in 0..2 : Holds(WithoutDevice(d)[p], Rest(p))
  <2> SUFFICES ASSUME NEW p \in 0..2 PROVE Holds(WithoutDevice(d)[p], Rest(p))
    OBVIOUS
  <2>1. p = 0 \/ p = 1 \/ p = 2
    OBVIOUS
  <2>2. QED
    BY <1>5, <1>6, <1>7, <2>1
<1>10. \A p \in 0..2 : WithoutDevice(d)[p] \in Seq(Keys)
  BY <1>8, <1>9, SeqMonotonic DEF Holds
<1>11. WithoutDevice(d) \in [0..2 -> Seq(Keys)]
  <2>1. /\ DOMAIN WithoutDevice(d) = 0..2
        /\ WithoutDevice(d) = [p \in DOMAIN WithoutDevice(d) |-> WithoutDevice(d)[p]]
    BY <1>1, Zenon DEF WithoutDevice
  <2>2. QED
    BY <1>10, <2>1
<1>12. QED
  BY <1>9, <1>11 DEF Rest

\* ReconcileDeviceTasks removes and reschedules the tasks of one device; those
\* in flight stay.
LEMMA ReconcileDeviceTasksInv ==
  ASSUME IInv, NEW c \in calls, ReconcileDeviceTasks(c)
  PROVE  IInv'
<1> DEFINE d == c.device
           b == <<d, "bootstrap">>
           mine == {k \in DOMAIN items : k[1] = d}
           left == {k \in mine : items[k].inFlight}
           wanted == IF d \in members THEN KeysOf(d, c.config) ELSE {}
           new == wanted \ left
           kept == (DOMAIN items \ mine) \cup left
<1>1. /\ d \in Devices /\ c.config \in Config
      /\ DOMAIN items \subseteq Keys /\ \A k \in DOMAIN items : items[k] \in Item
  BY Zenon DEF IInv, TypeOK
<1>2. /\ calls' = calls \ {c}
      /\ items' = [k \in (DOMAIN items \ mine) \cup left \cup new |->
                     IF k \in new THEN NewItem(c.config, k \in BootstrapKeys)
                     ELSE IF k \in left
                     THEN LET item == [Disabled(items[k]) EXCEPT !.pending = FALSE]
                          IN  IF k \in wanted
                              THEN Reconfigured(item, c.config) ELSE item
                     ELSE items[k]]
      /\ heap' = (heap \ mine) \cup (new \ BootstrapKeys)
      /\ ready' = IF b \in new THEN pushReadyFront(WithoutDevice(d), b)
                  ELSE WithoutDevice(d)
      /\ UNCHANGED <<counters, control, pc, channels, inventory, members, changes>>
  BY DEF ReconcileDeviceTasks
<1>3. wanted \subseteq Keys /\ \A k \in wanted : k[1] = d
  BY <1>1, KeysOfKeys
<1>4. /\ kept \subseteq DOMAIN items /\ kept \cap new = {} /\ new \subseteq Keys
      /\ \A k \in new : k[1] = d
      /\ \A k \in kept : k[1] = d => items[k].inFlight
      /\ \A k \in DOMAIN items : items[k].inFlight => k \in kept
      /\ \A k \in DOMAIN items : k[1] # d => k \in kept
      /\ DOMAIN items' = kept \cup new
  BY <1>2, <1>3
<1>5. \A k \in new : /\ items'[k] \in Item /\ ~items'[k].inFlight
                     /\ items'[k].queued = (k \in BootstrapKeys)
  <2> SUFFICES ASSUME NEW k \in new
               PROVE  /\ items'[k] \in Item /\ ~items'[k].inFlight
                      /\ items'[k].queued = (k \in BootstrapKeys)
    OBVIOUS
  <2>1. items'[k] = NewItem(c.config, k \in BootstrapKeys)
    BY <1>2
  <2>2. (k \in BootstrapKeys) \in BOOLEAN
    OBVIOUS
  <2>3. QED
    BY <1>1, <2>1, <2>2, NewItemType, Zenon
<1>6. \A k \in kept : /\ items'[k] \in Item
                      /\ items'[k].queued = items[k].queued
                      /\ items'[k].inFlight = items[k].inFlight
                      /\ items'[k].runID = items[k].runID
  <2> SUFFICES ASSUME NEW k \in kept
               PROVE  /\ items'[k] \in Item
                      /\ items'[k].queued = items[k].queued
                      /\ items'[k].inFlight = items[k].inFlight
                      /\ items'[k].runID = items[k].runID
    OBVIOUS
  <2>1. k \notin new /\ items[k] \in Item
    BY <1>1, <1>4
  <2>2. CASE k \notin left
    <3>1. items'[k] = items[k]
      BY <1>2, <2>1, <2>2
    <3>2. QED
      BY <2>1, <3>1
  <2>3. CASE k \in left
    <3> DEFINE item == [Disabled(items[k]) EXCEPT !.pending = FALSE]
    <3>1. items'[k] = IF k \in wanted THEN Reconfigured(item, c.config) ELSE item
      BY <1>2, <2>1, <2>3
    <3>2. /\ item \in Item /\ item.queued = items[k].queued
          /\ item.inFlight = items[k].inFlight /\ item.runID = items[k].runID
      BY <2>1, Zenon DEF Disabled, Item
    <3> HIDE DEF item, wanted
    <3>3. CASE k \in wanted
      <4>1. items'[k] = Reconfigured(item, c.config)
        BY <3>1, <3>3
      <4>2. QED
        BY <1>1, <3>2, <4>1, ReconfiguredType
    <3>4. CASE k \notin wanted
      BY <3>1, <3>2, <3>4
    <3>5. QED
      BY <3>3, <3>4
  <2>4. QED
    BY <2>2, <2>3
<1>7. \A k \in new : k \in BootstrapKeys <=> k = b
  <2> SUFFICES ASSUME NEW k \in new PROVE k \in BootstrapKeys <=> k = b
    OBVIOUS
  <2>1. k \in Keys /\ k[1] = d
    BY <1>4
  <2>2. k = <<k[1], k[2]>>
    BY <2>1, PriorityKinds
  <2>3. QED
    BY <2>1, <2>2 DEF BootstrapKeys
<1>8. heap' \subseteq kept \cup new /\ heap' \subseteq Keys
  <2>1. heap \subseteq DOMAIN items
    BY Zenon DEF IInv, Places
  <2>2. QED
    BY <1>1, <1>2, <1>4, <2>1
<1>9. \A k \in kept : k \in heap' <=> k \in heap
  <2> SUFFICES ASSUME NEW k \in kept PROVE k \in heap' <=> k \in heap
    OBVIOUS
  <2>1. k \in DOMAIN items /\ k \notin new /\ (k \in mine => items[k].inFlight)
    BY <1>4
  <2>2. items[k].inFlight => k \notin heap
    BY <2>1, Zenon DEF IInv, Places
  <2>3. QED
    BY <1>2, <2>1, <2>2
<1>10. \A k \in new : k \in heap' <=> k # b
  <2> SUFFICES ASSUME NEW k \in new PROVE k \in heap' <=> k # b
    OBVIOUS
  <2>1. k \in heap => k \in mine
    BY <1>4, Zenon DEF IInv, Places
  <2>2. QED
    BY <1>2, <1>7, <2>1
<1>11. \A q \in 0..2 :
         {k \in QueuedAt(q) : k[1] # d} = {k \in kept : items[k].queued /\ Priority(k) = q}
  <2>1. \A k \in DOMAIN items : items[k].inFlight => ~items[k].queued
    BY Zenon DEF IInv, Places
  <2> HIDE DEF kept
  <2>2. QED
    BY <1>4, <2>1 DEF QueuedAt
<1> HIDE DEF mine, left, wanted, new, kept
<1>12. DOMAIN items' \subseteq Keys /\ \A k \in DOMAIN items' : items'[k] \in Item
  BY <1>1, <1>4, <1>5, <1>6
<1>13. /\ ready' \in [0..2 -> Seq(Keys)]
       /\ \A q \in 0..2 : Holds(ready'[q], QueuedAt(q)')
  <2> DEFINE Rest(q) == {k \in QueuedAt(q) : k[1] # d}
  <2>1. /\ WithoutDevice(d) \in [0..2 -> Seq(Keys)]
        /\ \A q \in 0..2 : Holds(WithoutDevice(d)[q], Rest(q))
    BY <1>1, WithoutDeviceHolds, Zenon
  <2>2. \A q \in 0..2 : QueuedAt(q)' =
          Rest(q) \cup {k \in new : k = b /\ Priority(k) = q}
    <3>1. \A q \in 0..2 : QueuedAt(q)' =
            {k \in kept : items'[k].queued /\ Priority(k) = q}
              \cup {k \in new : items'[k].queued /\ Priority(k) = q}
      BY <1>4 DEF QueuedAt
    <3>2. \A q \in 0..2 : {k \in kept : items'[k].queued /\ Priority(k) = q} = Rest(q)
      BY <1>6, <1>11
    <3>3. \A q \in 0..2 : {k \in new : items'[k].queued /\ Priority(k) = q} =
                           {k \in new : k = b /\ Priority(k) = q}
      BY <1>5, <1>7, Zenon
    <3>4. QED
      BY <3>1, <3>2, <3>3
  <2>3. \A q \in 0..2 : b \notin Rest(q)
    OBVIOUS
  <2> HIDE DEF Rest
  <2>4. CASE b \in new
    <3>1. b \in Keys /\ Priority(b) = 2
      BY <1>4, <2>4, PriorityKinds
    <3>2. ready' = [WithoutDevice(d) EXCEPT ![2] = <<b>> \o @]
      BY <1>2, <2>4, <3>1, Zenon DEF pushReadyFront
    <3> HIDE DEF b
    <3>3. <<b>> \o WithoutDevice(d)[2] \in Seq(Keys)
      BY <2>1, <3>1
    <3>4. ready' \in [0..2 -> Seq(Keys)]
      BY <2>1, <3>2, <3>3
    <3>5. \A q \in 0..2 : QueuedAt(q)' = IF q = 2 THEN Rest(q) \cup {b} ELSE Rest(q)
      BY <2>2, <2>4, <3>1
    <3>6. Holds(<<b>> \o WithoutDevice(d)[2], Rest(2) \cup {b})
      <4>1. Holds(WithoutDevice(d)[2], Rest(2)) /\ b \notin Rest(2)
        BY <2>1, <2>3
      <4>2. QED
        BY <4>1, PushHolds, Zenon
    <3>7. \A q \in 0..2 : ready'[q] = IF q = 2 THEN <<b>> \o WithoutDevice(d)[2]
                                     ELSE WithoutDevice(d)[q]
      BY <2>1, <3>2
    <3>8. \A q \in 0..2 : Holds(ready'[q], QueuedAt(q)')
      BY <2>1, <3>5, <3>6, <3>7, Zenon
    <3>9. QED
      BY <3>4, <3>8
  <2>5. CASE b \notin new
    <3>1. ready' = WithoutDevice(d)
      BY <1>2, <2>5
    <3>2. \A q \in 0..2 : QueuedAt(q)' = Rest(q)
      BY <2>2, <2>5
    <3>3. QED
      BY <2>1, <3>1, <3>2
  <2>6. QED
    BY <2>4, <2>5
<1>14. TypeOK'
  <2>1. calls' \subseteq [device : Devices, config : Config]
    BY <1>2, Zenon DEF IInv, TypeOK
  <2>2. QED
    BY <1>2, <1>8, <1>12, <1>13, <2>1, Zenon DEF IInv, TypeOK, counters, control, channels
<1>15. Places'
  <2>1. \A k \in DOMAIN items' :
          \/ k \in heap' /\ ~items'[k].queued /\ ~items'[k].inFlight
          \/ k \notin heap' /\ items'[k].queued /\ ~items'[k].inFlight
          \/ k \notin heap' /\ ~items'[k].queued /\ items'[k].inFlight
    <3> SUFFICES ASSUME NEW k \in DOMAIN items'
                 PROVE  \/ k \in heap' /\ ~items'[k].queued /\ ~items'[k].inFlight
                        \/ k \notin heap' /\ items'[k].queued /\ ~items'[k].inFlight
                        \/ k \notin heap' /\ ~items'[k].queued /\ items'[k].inFlight
      OBVIOUS
    <3>1. CASE k \in new
      BY <3>1, <1>5, <1>7, <1>10, Zenon
    <3>2. CASE k \in kept
      <4>1. k \in DOMAIN items
        BY <3>2, <1>4
      <4>2. QED
        BY <3>2, <4>1, <1>6, <1>9, Zenon DEF IInv, Places
    <3>3. QED
      BY <3>1, <3>2, <1>4
  <2>2. QED
    BY <1>4, <1>8, <1>13, <2>1, Zenon DEF Places
<1>16. InFlightKeys' = InFlightKeys
  BY <1>4, <1>5, <1>6 DEF InFlightKeys
<1>17. \A k \in InFlightKeys : items'[k].runID = items[k].runID
  BY <1>4, <1>6 DEF InFlightKeys
<1>18. CountersExact'
  BY <1>2, <1>16, CountersFrame, Zenon DEF IInv
<1>19. Runs' /\ TasksInFlight' /\ TasksDistinct'
  BY <1>2, <1>16, <1>17, TasksFrame, Zenon DEF IInv, control, channels
<1>20. QED
  BY <1>14, <1>15, <1>18, <1>19, Zenon DEF IInv

-----------------------------------------------------------------------------
(* The theorems.                                                           *)

\* Every step keeps the inductive invariant.
LEMMA NextInv == IInv /\ [Next]_vars => IInv'
<1> SUFFICES ASSUME IInv, [Next]_vars PROVE IInv'
  OBVIOUS
<1>1. CASE Loop
  <2>1. CASE BeginIteration
    BY <2>1, BeginIterationInv
  <2>2. CASE MoveDone \/ DispatchDone \/ Wake \/ LoopExit
    BY <2>2, PhaseInv
  <2>3. CASE \E k \in Keys : MoveDueTask(k)
    BY <2>3, MoveDueTaskInv
  <2>4. CASE \E p \in 0..2 : \E i \in DOMAIN ready[p] : DispatchTask(p, i)
    BY <2>4, DispatchTaskInv
  <2>5. CASE \E p \in 0..2 : \E i \in DOMAIN ready[p] : DispatchAborted(p, i)
    BY <2>5, DispatchAbortedInv
  <2>6. CASE Refresh
    BY <2>6, RefreshInv
  <2>7. CASE HandleRedue
    BY <2>7, HandleRedueInv
  <2>8. CASE HandleCompletion
    BY <2>8, HandleCompletionInv
  <2>9. QED
    BY <1>1, <2>1, <2>2, <2>3, <2>4, <2>5, <2>6, <2>7, <2>8 DEF Loop
<1>2. CASE \E w \in Workers : TakeTask(w) \/ Complete(w) \/ SendCompletion(w)
  BY <1>2, TakeTaskInv, CompleteInv, SendCompletionInv
<1>3. CASE Start
  BY <1>3, StartInv
<1>4. CASE CancelContext \/ BeginStop
  BY <1>4, CancelInv
<1>5. CASE FinishStop
  BY <1>5, FinishStopInv
<1>6. CASE \E c \in calls : ReconcileDeviceTasks(c)
  BY <1>6, ReconcileDeviceTasksInv
<1>7. CASE \E d \in Devices :
             \/ RequestRedue(d, "essential") \/ RequestRedue(d, "background")
             \/ \E config \in DeviceConfigs[d] : ChangeDevice(d, config)
             \/ ChangeMembership(d)
  <2> PICK d \in Devices :
             \/ RequestRedue(d, "essential") \/ RequestRedue(d, "background")
             \/ \E config \in DeviceConfigs[d] : ChangeDevice(d, config)
             \/ ChangeMembership(d)
    BY <1>7
  <2> QED
    BY EnvironmentInv
<1>8. CASE \E k \in Keys : Tick(k)
  BY <1>8, TickInv
<1>9. CASE UNCHANGED vars
  <2>1. UNCHANGED <<queues, counters, control, pc, channels, environment>>
    BY <1>9 DEF vars
  <2>2. TypeOK'
    BY <2>1, Zenon DEF IInv, TypeOK, queues, counters, control, channels, environment
  <2>3. Places' /\ InFlightKeys' = InFlightKeys
    BY <2>1, PlacesFrame, Zenon DEF IInv, InFlightKeys, queues
  <2>4. CountersExact'
    BY <2>1, <2>3, CountersFrame, Zenon DEF IInv
  <2>5. Runs' /\ TasksInFlight' /\ TasksDistinct'
    BY <2>1, <2>3, TasksFrame, Zenon DEF IInv, control, channels, queues
  <2>6. QED
    BY <2>2, <2>3, <2>4, <2>5, Zenon DEF IInv
<1>10. QED
  BY <1>1, <1>2, <1>3, <1>4, <1>5, <1>6, <1>7, <1>8, <1>9 DEF Next

\* The inductive invariant holds in every state of the scheduler.
LEMMA Invariance == Spec => []IInv
  BY InitInv, NextInv, PTL DEF Spec

\* Every variable of the scheduler keeps its type, whatever the inventory, the
\* budgets, the scope limits and the number of workers.
THEOREM TypeCorrect == Spec => []TypeOK
<1>1. IInv => TypeOK
  BY Zenon DEF IInv
<1>2. QED
  BY <1>1, Invariance, PTL

\* Every scheduled item is in the heap, in its ready queue once, or in flight,
\* however refreshDevices, ReconcileDeviceTasks, re-dues, dispatches and
\* completions interleave.
THEOREM ItemsInOnePlace == Spec => []OnePlace
<1>1. IInv => OnePlace
  <2> SUFFICES ASSUME IInv PROVE OnePlace
    OBVIOUS
  <2>1. /\ heap \subseteq DOMAIN items
        /\ \A k \in DOMAIN items :
             \/ k \in heap /\ ~items[k].queued /\ ~items[k].inFlight
             \/ k \notin heap /\ items[k].queued /\ ~items[k].inFlight
             \/ k \notin heap /\ ~items[k].queued /\ items[k].inFlight
    BY Zenon DEF IInv, Places
  <2>2. \A p \in 0..2 : Holds(ready[p], QueuedAt(p))
    BY Zenon DEF IInv, Places
  <2>3. \A k \in DOMAIN items : items[k].queued =>
          \E i \in DOMAIN ready[Priority(k)] : ready[Priority(k)][i] = k
    <3> SUFFICES ASSUME NEW k \in DOMAIN items, items[k].queued
                 PROVE  \E i \in DOMAIN ready[Priority(k)] : ready[Priority(k)][i] = k
      OBVIOUS
    <3>1. Priority(k) \in 0..2
      BY PriorityRange, Zenon DEF IInv, TypeOK
    <3>2. k \in QueuedAt(Priority(k))
      BY DEF QueuedAt
    <3>3. QED
      BY <2>2, <3>1, <3>2 DEF Holds
  <2>4. \A p \in 0..2 : \A i \in DOMAIN ready[p] :
          /\ ready[p][i] \in QueuedAt(p)
          /\ \A j \in DOMAIN ready[p] : ready[p][i] = ready[p][j] => i = j
    BY <2>2 DEF Holds
  <2>5. QED
    BY <2>1, <2>3, <2>4 DEF OnePlace, QueuedAt
<1>2. QED
  BY <1>1, Invariance, PTL

\* The total, essential and class counters count exactly what is in flight: no
\* dispatch, completion, refresh, reconciliation or restart leaks admission.
THEOREM AdmissionCounters == Spec => []CountersExact
<1>1. IInv => CountersExact
  BY Zenon DEF IInv
<1>2. QED
  BY <1>1, Invariance, PTL

\* A key has at most one task of the current run between dispatch and
\* handleCompletion: no device is polled twice at once for the same key, also
\* across Stop and Start while old polls still run.
THEOREM NoKeyPolledTwice == Spec => []TasksDistinct
<1>1. IInv => TasksDistinct
  BY Zenon DEF IInv
<1>2. QED
  BY <1>1, Invariance, PTL

\* dispatchReady, which holds the mutex while it sends, never finds the task
\* channel full: its tasks are distinct keys in flight, and the global limit is
\* at most the buffer New creates.
THEOREM DispatchFits == Spec => []DispatchNeverBlocks
<1>1. IInv => DispatchNeverBlocks
  <2> SUFFICES ASSUME IInv, inFlight < GlobalLimit
               PROVE  Len(tasks) < TaskBuffer
    BY DEF DispatchNeverBlocks
  <2> DEFINE keyAt == [i \in 1..Len(tasks) |-> tasks[i].key]
  <2>1. tasks \in Seq(Task)
    BY Zenon DEF IInv, TypeOK
  <2>2. Len(tasks) \in Nat /\ DOMAIN tasks = 1..Len(tasks)
    BY <2>1
  <2>3. IsFiniteSet(1..Len(tasks)) /\ Cardinality(1..Len(tasks)) = Len(tasks)
    <3>1. 1 \in Int /\ Len(tasks) \in Int
      BY <2>2
    <3>2. /\ IsFiniteSet(1..Len(tasks))
          /\ Cardinality(1..Len(tasks)) =
               IF 1 > Len(tasks) THEN 0 ELSE Len(tasks) - 1 + 1
      BY <3>1, FS_Interval, Zenon
    <3>3. QED
      BY <2>2, <3>2
  <2>4. keyAt \in Injection(1..Len(tasks), InFlightKeys)
    <3>1. keyAt \in [1..Len(tasks) -> InFlightKeys]
      BY <2>2, Zenon DEF IInv, TasksInFlight
    <3>2. \A i, j \in 1..Len(tasks) : keyAt[i] = keyAt[j] => i = j
      BY <2>2, Zenon DEF IInv, TasksDistinct
    <3>3. QED
      BY <3>1, <3>2 DEF Injection, IsInjective
  <2>5. IsFiniteSet(InFlightKeys)
    BY KeysFinite, FS_Subset, Zenon DEF IInv, TypeOK, InFlightKeys
  <2> HIDE DEF keyAt
  <2>6. Len(tasks) <= Cardinality(InFlightKeys)
    BY <2>3, <2>4, <2>5, FS_Injection
  <2>7. inFlight = Cardinality(InFlightKeys) /\ inFlight \in Nat
    BY Zenon DEF IInv, CountersExact, TypeOK
  <2>8. QED
    BY <2>2, <2>6, <2>7, GlobalLimitFits, ConstantsOK
<1>2. QED
  BY <1>1, Invariance, PTL

=============================================================================
