------------------------- MODULE SchedulerInvariant -------------------------
(***************************************************************************)
(* The inductive invariant of the polling scheduler, for every instance of *)
(* Scheduler: lemmas on queues read as sets, the invariant, what the steps *)
(* that leave the queues alone preserve, the arithmetic of the admission   *)
(* counters, and the initial states.                                       *)
(***************************************************************************)
EXTENDS Scheduler, FiniteSetTheorems, SequenceTheorems, TLAPS

(* Queues as sets.                                                         *)

\* Queue q holds the elements of K, each at one position.
Holds(q, K) ==
  /\ q \in Seq(K)
  /\ \A k \in K : \E i \in DOMAIN q : q[i] = k
  /\ \A i, j \in DOMAIN q : q[i] = q[j] => i = j

\* An empty queue, as resetRuntimeState leaves it, holds nothing.
LEMMA EmptyHolds == Holds(<<>>, {})
  BY DEF Holds

\* enqueueReady: appending an element that is not there adds it.
LEMMA AppendHolds ==
  ASSUME NEW K, NEW q, Holds(q, K), NEW k, k \notin K
  PROVE  Holds(Append(q, k), K \cup {k})
<1> DEFINE L == K \cup {k}
           r == Append(q, k)
<1>1. q \in Seq(K) /\ q \in Seq(L)
  BY SeqMonotonic DEF Holds
<1>2. /\ r \in Seq(L)
      /\ Len(r) = Len(q) + 1
      /\ \A i \in 1..Len(q) : r[i] = q[i]
      /\ r[Len(q) + 1] = k
  BY <1>1, AppendProperties
<1>3. \A i \in DOMAIN q : q[i] \in K
  BY <1>1
<1>4. DOMAIN q = 1..Len(q) /\ DOMAIN r = 1..(Len(q) + 1) /\ Len(q) \in Nat
  BY <1>1, <1>2, LenProperties
<1> HIDE DEF L, r
<1>5. \A x \in L : \E i \in DOMAIN r : r[i] = x
  <2> SUFFICES ASSUME NEW x \in L PROVE \E i \in DOMAIN r : r[i] = x
    OBVIOUS
  <2>1. CASE x = k
    BY <2>1, <1>2, <1>4
  <2>2. CASE x \in K
    <3>1. PICK i \in DOMAIN q : q[i] = x
      BY <2>2 DEF Holds
    <3>2. QED
      BY <3>1, <1>2, <1>4
  <2>3. QED
    BY <2>1, <2>2 DEF L
<1>6. \A i, j \in DOMAIN r : r[i] = r[j] => i = j
  BY <1>2, <1>3, <1>4 DEF Holds
<1>7. QED
  BY <1>2, <1>5, <1>6, Zenon DEF Holds, L, r

\* pushReadyFront and a refresh's bootstraps: prepending new elements adds them.
LEMMA ConcatHolds ==
  ASSUME NEW K, NEW q, Holds(q, K),
         NEW F, NEW s, Holds(s, F), F \cap K = {}
  PROVE  Holds(s \o q, K \cup F)
<1> DEFINE L == K \cup F
           r == s \o q
<1>1. q \in Seq(L) /\ s \in Seq(L) /\ q \in Seq(K) /\ s \in Seq(F)
  BY SeqMonotonic DEF Holds
<1>2. /\ r \in Seq(L)
      /\ Len(r) = Len(s) + Len(q)
      /\ \A i \in 1..(Len(s) + Len(q)) :
           r[i] = IF i <= Len(s) THEN s[i] ELSE q[i - Len(s)]
  BY <1>1, ConcatProperties
<1>3. /\ DOMAIN q = 1..Len(q) /\ DOMAIN s = 1..Len(s)
      /\ DOMAIN r = 1..(Len(s) + Len(q))
      /\ Len(q) \in Nat /\ Len(s) \in Nat
  BY <1>1, <1>2, LenProperties
<1>4. /\ \A i \in DOMAIN q : q[i] \in K
      /\ \A i \in DOMAIN s : s[i] \in F
  BY <1>1
<1> HIDE DEF L, r
<1>5. \A x \in L : \E i \in DOMAIN r : r[i] = x
  <2> SUFFICES ASSUME NEW x \in L PROVE \E i \in DOMAIN r : r[i] = x
    OBVIOUS
  <2>1. CASE x \in F
    <3>1. PICK i \in DOMAIN s : s[i] = x
      BY <2>1 DEF Holds
    <3>2. i \in DOMAIN r /\ r[i] = x
      BY <3>1, <1>2, <1>3
    <3>3. QED
      BY <3>2
  <2>2. CASE x \in K
    <3>1. PICK i \in DOMAIN q : q[i] = x
      BY <2>2 DEF Holds
    <3>2. i + Len(s) \in DOMAIN r /\ r[i + Len(s)] = x
      BY <3>1, <1>2, <1>3
    <3>3. QED
      BY <3>2
  <2>3. QED
    BY <2>1, <2>2 DEF L
<1>6. \A i, j \in DOMAIN r : r[i] = r[j] => i = j
  <2> SUFFICES ASSUME NEW i \in DOMAIN r, NEW j \in DOMAIN r, r[i] = r[j]
               PROVE  i = j
    OBVIOUS
  <2>1. CASE i <= Len(s) /\ j <= Len(s)
    BY <2>1, <1>2, <1>3 DEF Holds
  <2>2. CASE i > Len(s) /\ j > Len(s)
    <3>1. i - Len(s) \in DOMAIN q /\ j - Len(s) \in DOMAIN q
      BY <2>2, <1>3
    <3>2. q[i - Len(s)] = q[j - Len(s)]
      BY <2>2, <1>2, <1>3
    <3>3. QED
      BY <3>1, <3>2, <1>3 DEF Holds
  <2>3. CASE i <= Len(s) /\ j > Len(s)
    <3>1. i \in DOMAIN s /\ j - Len(s) \in DOMAIN q
      BY <2>3, <1>3
    <3>2. r[i] = s[i] /\ r[j] = q[j - Len(s)]
      BY <2>3, <1>2, <1>3
    <3>3. QED
      BY <3>1, <3>2, <1>4, Zenon
  <2>4. CASE i > Len(s) /\ j <= Len(s)
    <3>1. j \in DOMAIN s /\ i - Len(s) \in DOMAIN q
      BY <2>4, <1>3
    <3>2. r[j] = s[j] /\ r[i] = q[i - Len(s)]
      BY <2>4, <1>2, <1>3
    <3>3. QED
      BY <3>1, <3>2, <1>4, Zenon
  <2>5. QED
    BY <2>1, <2>2, <2>3, <2>4, <1>3
<1>7. QED
  BY <1>2, <1>5, <1>6, Zenon DEF Holds, L, r

\* A queue of one element.
LEMMA SingletonHolds == \A k : Holds(<<k>>, {k})
  BY DEF Holds

\* pushReadyFront on one queue.
LEMMA PushHolds ==
  ASSUME NEW K, NEW q, Holds(q, K), NEW k, k \notin K
  PROVE  Holds(<<k>> \o q, K \cup {k})
  BY SingletonHolds, ConcatHolds, Zenon

\* What removing position i of a queue leaves.
LEMMA RemoveAtProperties ==
  ASSUME NEW S, NEW q \in Seq(S), NEW i \in 1..Len(q)
  PROVE  /\ RemoveAt(q, i) \in Seq(S)
         /\ Len(RemoveAt(q, i)) = Len(q) - 1
         /\ \A j \in 1..(Len(q) - 1) :
              RemoveAt(q, i)[j] = IF j < i THEN q[j] ELSE q[j + 1]
<1> DEFINE a == SubSeq(q, 1, i - 1)
           b == SubSeq(q, i + 1, Len(q))
<1>1. Len(q) \in Nat /\ i \in Int /\ i - 1 \in Int /\ i + 1 \in Int
      /\ \A j \in 1..Len(q) : q[j] \in S
  BY LenProperties
<1>2. /\ a \in Seq(S) /\ Len(a) = i - 1
      /\ \A j \in 1..(i - 1) : a[j] = q[j]
  <2>1. \A j \in 1..(i - 1) : q[j] \in S
    BY <1>1
  <2>2. QED
    BY <2>1, <1>1, SubSeqProperties
<1>3. /\ b \in Seq(S) /\ Len(b) = Len(q) - i
      /\ \A j \in 1..(Len(q) - i) : b[j] = q[i + j]
  <2>1. \A j \in (i + 1)..Len(q) : q[j] \in S
    BY <1>1
  <2>2. /\ b \in Seq(S)
        /\ Len(b) = IF i + 1 <= Len(q) THEN Len(q) - (i + 1) + 1 ELSE 0
        /\ \A j \in 1..(Len(q) - (i + 1) + 1) : b[j] = q[(i + 1) + j - 1]
    BY <2>1, <1>1, SubSeqProperties
  <2>3. \A j \in 1..(Len(q) - i) : j \in 1..(Len(q) - (i + 1) + 1) /\ (i + 1) + j - 1 = i + j
    BY <1>1
  <2> HIDE DEF b
  <2>4. QED
    BY <2>2, <2>3, <1>1
<1> HIDE DEF a, b
<1>4. /\ a \o b \in Seq(S) /\ Len(a \o b) = Len(a) + Len(b)
      /\ \A j \in 1..(Len(a) + Len(b)) :
           (a \o b)[j] = IF j <= Len(a) THEN a[j] ELSE b[j - Len(a)]
  BY <1>2, <1>3, ConcatProperties, Zenon
<1>5. RemoveAt(q, i) = a \o b
  BY DEF RemoveAt, a, b
<1>6. \A j \in 1..(Len(q) - 1) :
        (a \o b)[j] = IF j < i THEN q[j] ELSE q[j + 1]
  <2> SUFFICES ASSUME NEW j \in 1..(Len(q) - 1)
               PROVE  (a \o b)[j] = IF j < i THEN q[j] ELSE q[j + 1]
    BY Zenon
  <2> j \in 1..(Len(a) + Len(b)) /\ j \in Int
    BY <1>1, <1>2, <1>3
  <2>1. CASE j < i
    <3>1. j <= Len(a) /\ j \in 1..(i - 1)
      BY <2>1, <1>1, <1>2
    <3>2. QED
      BY <3>1, <2>1, <1>2, <1>4
  <2>2. CASE j >= i
    <3>1. ~(j <= Len(a))
      BY <2>2, <1>1, <1>2
    <3>2. (a \o b)[j] = b[j - Len(a)]
      BY <3>1, <1>4
    <3>3. j - Len(a) \in 1..(Len(q) - i) /\ i + (j - Len(a)) = j + 1
      BY <2>2, <1>1, <1>2
    <3>4. b[j - Len(a)] = q[j + 1]
      BY <3>3, <1>3, Zenon
    <3>5. QED
      BY <3>2, <3>4, <2>2, <1>1
  <2>3. QED
    BY <2>1, <2>2, <1>1
<1>7. Len(a \o b) = Len(q) - 1
  BY <1>1, <1>2, <1>3, <1>4
<1>8. QED
  BY <1>4, <1>5, <1>6, <1>7, Zenon

\* popReadyEligible: removing position i takes its element out.
LEMMA RemoveAtHolds ==
  ASSUME NEW K, NEW q, Holds(q, K), NEW i \in DOMAIN q
  PROVE  Holds(RemoveAt(q, i), K \ {q[i]})
<1> DEFINE r == RemoveAt(q, i)
           L == K \ {q[i]}
<1>1. q \in Seq(K) /\ DOMAIN q = 1..Len(q) /\ Len(q) \in Nat /\ i \in 1..Len(q)
  BY LenProperties DEF Holds
<1>2. /\ r \in Seq(K)
      /\ Len(r) = Len(q) - 1
      /\ \A j \in 1..(Len(q) - 1) : r[j] = IF j < i THEN q[j] ELSE q[j + 1]
  BY <1>1, RemoveAtProperties, Zenon
<1>3. DOMAIN r = 1..(Len(q) - 1)
  BY <1>1, <1>2, LenProperties
<1> HIDE DEF r
<1>4. \A j \in DOMAIN r : r[j] \in L
  <2> SUFFICES ASSUME NEW j \in DOMAIN r PROVE r[j] \in L
    OBVIOUS
  <2>1. PICK l \in DOMAIN q : l # i /\ r[j] = q[l]
    <3>1. CASE j < i
      BY <3>1, <1>1, <1>2, <1>3
    <3>2. CASE ~(j < i)
      <4>1. j + 1 \in DOMAIN q /\ j + 1 # i /\ r[j] = q[j + 1]
        BY <3>2, <1>1, <1>2, <1>3
      <4>2. QED
        BY <4>1
    <3>3. QED
      BY <3>1, <3>2
  <2>2. q[l] \in K /\ q[l] # q[i]
    BY <2>1, <1>1 DEF Holds
  <2>3. QED
    BY <2>1, <2>2
<1>5. r \in Seq(L)
  <2>1. r \in [1..(Len(q) - 1) -> K] /\ Len(q) - 1 \in Nat
    BY <1>1, <1>2, LenProperties
  <2>2. r \in [1..(Len(q) - 1) -> L]
    BY <2>1, <1>3, <1>4
  <2>3. QED
    BY <2>1, <2>2
<1>6. \A x \in L : \E j \in DOMAIN r : r[j] = x
  <2> SUFFICES ASSUME NEW x \in L PROVE \E j \in DOMAIN r : r[j] = x
    OBVIOUS
  <2>1. PICK j \in DOMAIN q : q[j] = x
    BY DEF Holds
  <2>2. j # i
    BY <2>1
  <2>3. CASE j < i
    <3>1. j \in DOMAIN r /\ r[j] = x
      BY <2>1, <2>3, <1>1, <1>2, <1>3
    <3>2. QED
      BY <3>1
  <2>4. CASE j > i
    <3>1. j - 1 \in DOMAIN r /\ r[j - 1] = x
      BY <2>1, <2>4, <1>1, <1>2, <1>3
    <3>2. QED
      BY <3>1
  <2>5. QED
    BY <2>2, <2>3, <2>4, <1>1
<1>7. \A j, l \in DOMAIN r : r[j] = r[l] => j = l
  <2> SUFFICES ASSUME NEW j \in DOMAIN r, NEW l \in DOMAIN r, r[j] = r[l]
               PROVE  j = l
    OBVIOUS
  <2> DEFINE at(x) == IF x < i THEN x ELSE x + 1
  <2>1. /\ at(j) \in DOMAIN q /\ r[j] = q[at(j)]
        /\ at(l) \in DOMAIN q /\ r[l] = q[at(l)]
    <3>1. at(j) \in DOMAIN q /\ r[j] = q[at(j)]
      BY <1>1, <1>2, <1>3
    <3>2. at(l) \in DOMAIN q /\ r[l] = q[at(l)]
      BY <1>1, <1>2, <1>3
    <3>3. QED
      BY <3>1, <3>2, Zenon
  <2>2. at(j) = at(l)
    BY <2>1, ZenonT(40) DEF Holds
  <2>3. QED
    BY <2>2, <1>1, <1>3
<1>8. QED
  BY <1>5, <1>6, <1>7 DEF Holds, r

\* removeReadyItem takes its item out, if it is there.
LEMMA removeReadyItemHolds ==
  ASSUME NEW K, NEW q, Holds(q, K), NEW k
  PROVE  Holds(removeReadyItem(q, k), K \ {k})
<1>1. CASE \E i \in DOMAIN q : q[i] = k
  <2> DEFINE i == CHOOSE i \in DOMAIN q : q[i] = k
  <2>1. i \in DOMAIN q /\ q[i] = k
    BY <1>1
  <2>2. removeReadyItem(q, k) = RemoveAt(q, i)
    BY <1>1 DEF removeReadyItem
  <2> HIDE DEF i
  <2>3. QED
    BY <2>1, <2>2, RemoveAtHolds
<1>2. CASE ~ \E i \in DOMAIN q : q[i] = k
  <2>1. removeReadyItem(q, k) = q
    BY <1>2 DEF removeReadyItem
  <2>2. k \notin K
    BY <1>2 DEF Holds
  <2>3. K \ {k} = K
    BY <2>2
  <2>4. QED
    BY <2>1, <2>3
<1>3. QED
  BY <1>1, <1>2

\* An order of a finite set, in which a refresh schedules its bootstraps.
LEMMA BijectionHolds ==
  ASSUME NEW F, IsFiniteSet(F), NEW s \in Bijection(1..Cardinality(F), F)
  PROVE  Holds(s, F)
<1>1. Cardinality(F) \in Nat
  BY FS_CardinalityType
<1>2. s \in [1..Cardinality(F) -> F]
  BY DEF Bijection, Injection
<1>3. s \in Seq(F) /\ DOMAIN s = 1..Cardinality(F)
  BY <1>1, <1>2
<1>4. QED
  BY <1>3 DEF Holds, Bijection, Injection, Surjection, IsInjective

-----------------------------------------------------------------------------
(* The inductive invariant.                                                *)

QueuedAt(p) == {k \in DOMAIN items : items[k].queued /\ Priority(k) = p}

\* OnePlace with each ready queue given by the items it holds.
Places ==
  /\ heap \subseteq DOMAIN items
  /\ \A k \in DOMAIN items :
       \/ k \in heap /\ ~items[k].queued /\ ~items[k].inFlight
       \/ k \notin heap /\ items[k].queued /\ ~items[k].inFlight
       \/ k \notin heap /\ ~items[k].queued /\ items[k].inFlight
  /\ \A p \in 0..2 : Holds(ready[p], QueuedAt(p))

\* Worker w holds, or the i-th completion reports, a task of the current run.
LiveWorker(w) == worker[w] # NoTask /\ worker[w].run = runID
LiveCompletion(i) == completions[i].run = runID

\* The runs of items and tasks: what is in flight, and what the task channel
\* holds, belongs to the current run, and no task belongs to a later one.
Runs ==
  /\ lifecycle = "stopped" <=> pc = "stopped"
  /\ lifecycle = "stopped" => InFlightKeys = {} /\ tasks = <<>>
  /\ \A k \in InFlightKeys : items[k].runID = runID
  /\ \A i \in DOMAIN tasks : tasks[i].run = runID
  /\ \A w \in Workers : worker[w] # NoTask => worker[w].run <= runID
  /\ \A i \in DOMAIN completions : completions[i].run <= runID

\* A task of the current run belongs to an item in flight.
TasksInFlight ==
  /\ \A i \in DOMAIN tasks : tasks[i].key \in InFlightKeys
  /\ lifecycle # "stopped" =>
       /\ \A w \in Workers : LiveWorker(w) => worker[w].key \in InFlightKeys
       /\ \A i \in DOMAIN completions :
            LiveCompletion(i) => completions[i].key \in InFlightKeys

\* No two tasks of the current run have the same key.
TasksDistinct ==
  /\ \A i, j \in DOMAIN tasks : tasks[i].key = tasks[j].key => i = j
  /\ \A v, w \in Workers : LiveWorker(v) /\ LiveWorker(w)
       /\ worker[v].key = worker[w].key => v = w
  /\ \A i, j \in DOMAIN completions : LiveCompletion(i) /\ LiveCompletion(j)
       /\ completions[i].key = completions[j].key => i = j
  /\ \A i \in DOMAIN tasks : \A w \in Workers :
       LiveWorker(w) => worker[w].key # tasks[i].key
  /\ \A i \in DOMAIN tasks : \A j \in DOMAIN completions :
       LiveCompletion(j) => completions[j].key # tasks[i].key
  /\ \A w \in Workers : \A j \in DOMAIN completions :
       LiveWorker(w) /\ LiveCompletion(j) => completions[j].key # worker[w].key

IInv == TypeOK /\ Places /\ Runs /\ TasksInFlight /\ TasksDistinct /\ CountersExact

-----------------------------------------------------------------------------
(* Facts about the constants.                                              *)

\* Every key has one of the three ready queues (readyPriority).
LEMMA PriorityRange == \A k \in Keys : Priority(k) \in 0..2
  BY ConstantsOK DEF Keys, Kinds, VolatilityClasses, Priority

\* The kinds of the keys of each queue.
LEMMA PriorityKinds ==
  ASSUME NEW k \in Keys
  PROVE  /\ k = <<k[1], k[2]>> /\ k[1] \in Devices
         /\ Priority(k) = 0 <=> k[2] \in {"essential", "performance"}
         /\ Priority(k) = 1 <=> k[2] = "operational"
         /\ Priority(k) = 2 <=> k[2] \in {"static", "bootstrap"}
  BY ConstantsOK DEF Keys, Kinds, VolatilityClasses, Priority

\* scheduleRecurringDeviceLocked schedules keys.
LEMMA KeysOfKeys ==
  ASSUME NEW d \in Devices, NEW config \in Config
  PROVE  KeysOf(d, config) \subseteq Keys /\ \A k \in KeysOf(d, config) : k[1] = d
  BY ConstantsOK DEF KeysOf, Keys, Kinds, Config

\* A new item is an item; a bootstrap is queued at once.
LEMMA NewItemType ==
  ASSUME NEW config \in Config, NEW queued \in BOOLEAN
  PROVE  /\ NewItem(config, queued) \in Item
         /\ NewItem(config, queued).queued = queued
         /\ ~NewItem(config, queued).inFlight
  BY DEF NewItem, Item, Config, Phases

\* Reconfiguring an item moves it nowhere.
LEMMA ReconfiguredType ==
  ASSUME NEW item \in Item, NEW config \in Config
  PROVE  /\ Reconfigured(item, config) \in Item
         /\ Reconfigured(item, config).queued = item.queued
         /\ Reconfigured(item, config).inFlight = item.inFlight
         /\ Reconfigured(item, config).runID = item.runID
  BY Zenon DEF Reconfigured, Item, Config

\* Neither does disabling it.
LEMMA DisabledType ==
  ASSUME NEW item \in Item
  PROVE  /\ Disabled(item) \in Item
         /\ Disabled(item).queued = item.queued
         /\ Disabled(item).inFlight = item.inFlight
         /\ Disabled(item).runID = item.runID
  BY Zenon DEF Disabled, Item

\* A non-essential key is charged to a class that has a budget.
LEMMA ClassRange == \A k \in Keys : ~Essential(k) => Class(k) \in VolatilityClasses
  BY ConstantsOK, Zenon DEF Keys, Kinds, VolatilityClasses, Essential, Class

\* There are finitely many task keys.
LEMMA KeysFinite == IsFiniteSet(Keys)
<1>1. IsFiniteSet(VolatilityClasses) /\ IsFiniteSet({"essential", "bootstrap"})
  <2>1. /\ VolatilityClasses = ({"performance"} \cup {"operational"}) \cup {"static"}
        /\ {"essential", "bootstrap"} = {"essential"} \cup {"bootstrap"}
    BY DEF VolatilityClasses
  <2>2. /\ IsFiniteSet({"performance"} \cup {"operational"})
        /\ IsFiniteSet({"essential"} \cup {"bootstrap"})
    BY FS_Singleton, FS_Union, Zenon
  <2>3. IsFiniteSet(({"performance"} \cup {"operational"}) \cup {"static"})
    BY <2>2, FS_Singleton, FS_Union, Zenon
  <2>4. QED
    BY <2>1, <2>2, <2>3
<1>2. IsFiniteSet(Classes)
  BY <1>1, FS_Subset, ConstantsOK
<1>3. IsFiniteSet(Kinds)
  BY <1>1, <1>2, FS_Union, Zenon DEF Kinds
<1>4. QED
  BY <1>3, ConstantsOK, FS_Product DEF Keys

\* dispatchLimits keeps the global limit within the task channel's capacity.
LEMMA GlobalLimitFits == GlobalLimit \in Nat /\ GlobalLimit <= TaskBuffer
<1>1. EssentialLimit \in Nat
  BY ConstantsOK DEF EssentialLimit
<1>2. QED
  BY <1>1, ConstantsOK DEF GlobalLimit, VolatilityClasses

-----------------------------------------------------------------------------
(* What an action that leaves some variables alone preserves.              *)

\* The queues are unchanged.
LEMMA PlacesFrame ==
  ASSUME Places, UNCHANGED queues
  PROVE  Places'
  BY Zenon DEF Places, QueuedAt, queues

\* What is in flight is unchanged.
LEMMA CountersFrame ==
  ASSUME CountersExact, UNCHANGED counters, InFlightKeys' = InFlightKeys
  PROVE  CountersExact'
  BY DEF CountersExact, counters

\* Tasks and what is in flight are unchanged.
LEMMA TasksFrame ==
  ASSUME Runs, TasksInFlight, TasksDistinct,
         UNCHANGED <<tasks, completions, worker, runID>>,
         lifecycle' = "stopped" <=> lifecycle = "stopped",
         pc' = "stopped" <=> pc = "stopped",
         InFlightKeys' = InFlightKeys,
         \A k \in InFlightKeys : items'[k].runID = items[k].runID
  PROVE  Runs' /\ TasksInFlight' /\ TasksDistinct'
<1>1. Runs'
  BY Zenon DEF Runs
<1>2. TasksInFlight'
  BY Zenon DEF TasksInFlight, LiveWorker, LiveCompletion
<1>3. TasksDistinct'
  BY Zenon DEF TasksDistinct, LiveWorker, LiveCompletion
<1>4. QED
  BY <1>1, <1>2, <1>3

\* An action that leaves the queues, the counters and the tasks alone.
LEMMA ControlFrame ==
  ASSUME IInv, TypeOK', UNCHANGED <<queues, counters>>,
         UNCHANGED <<tasks, completions, worker, runID>>,
         lifecycle' = "stopped" <=> lifecycle = "stopped",
         pc' = "stopped" <=> pc = "stopped"
  PROVE  IInv'
<1>1. InFlightKeys' = InFlightKeys
  BY DEF queues, InFlightKeys
<1>2. \A k \in InFlightKeys : items'[k].runID = items[k].runID
  BY DEF queues
<1>3. Places'
  BY PlacesFrame, Zenon DEF IInv
<1>4. CountersExact'
  BY <1>1, CountersFrame, Zenon DEF IInv
<1>5. Runs' /\ TasksInFlight' /\ TasksDistinct'
  BY <1>1, <1>2, TasksFrame, Zenon DEF IInv
<1>6. QED
  BY <1>3, <1>4, <1>5, Zenon DEF IInv

\* An action that changes items, but neither which are queued or in flight nor
\* their runs.
LEMMA ItemsFrame ==
  ASSUME IInv, TypeOK',
         DOMAIN items' = DOMAIN items,
         \A k \in DOMAIN items : /\ items'[k].queued = items[k].queued
                                 /\ items'[k].inFlight = items[k].inFlight
                                 /\ items'[k].runID = items[k].runID,
         UNCHANGED <<heap, ready, counters>>,
         UNCHANGED <<tasks, completions, worker, runID>>,
         lifecycle' = "stopped" <=> lifecycle = "stopped",
         pc' = "stopped" <=> pc = "stopped"
  PROVE  IInv'
<1>1. InFlightKeys' = InFlightKeys
  BY DEF InFlightKeys
<1>2. \A k \in InFlightKeys : items'[k].runID = items[k].runID
  BY DEF InFlightKeys
<1>3. Places'
  <2>1. \A p \in 0..2 : QueuedAt(p)' = QueuedAt(p)
    BY DEF QueuedAt
  <2>2. \A p \in 0..2 : Holds(ready[p], QueuedAt(p))'
    BY <2>1, Zenon DEF IInv, Places
  <2>3. QED
    BY <2>2, Zenon DEF IInv, Places
<1>4. CountersExact'
  BY <1>1, CountersFrame, Zenon DEF IInv
<1>5. Runs' /\ TasksInFlight' /\ TasksDistinct'
  BY <1>1, <1>2, TasksFrame, Zenon DEF IInv
<1>6. QED
  BY <1>3, <1>4, <1>5, Zenon DEF IInv

\* incrementInFlight and decrementInFlight keep the counters exact when item k
\* joins or leaves what is in flight.
LEMMA ChargeCounts ==
  ASSUME TypeOK, CountersExact, NEW k \in Keys, k \notin InFlightKeys, Charge(k),
         InFlightKeys' = InFlightKeys \cup {k}
  PROVE  CountersExact'
<1> DEFINE I == InFlightKeys
           E == {x \in I : Essential(x)}
           C(c) == {x \in I : ~Essential(x) /\ Class(x) = c}
<1>1. IsFiniteSet(I) /\ IsFiniteSet(E) /\ \A c : IsFiniteSet(C(c))
  <2>1. IsFiniteSet(I)
    BY KeysFinite, FS_Subset, Zenon DEF TypeOK, InFlightKeys
  <2>2. QED
    BY <2>1, FS_Subset
<1> HIDE DEF I
<1>2. inFlight' = Cardinality(I \cup {k})
  BY <1>1, FS_AddElement, Zenon DEF CountersExact, Charge, I
<1>3. inFlightByKind' = Cardinality({x \in I \cup {k} : Essential(x)})
  <2>1. CASE Essential(k)
    <3>1. {x \in I \cup {k} : Essential(x)} = E \cup {k} /\ k \notin E
      BY <2>1 DEF I
    <3>2. QED
      BY <1>1, <2>1, <3>1, FS_AddElement, Zenon
         DEF CountersExact, Charge, incrementInFlight, I
  <2>2. CASE ~Essential(k)
    <3>1. {x \in I \cup {k} : Essential(x)} = E
      BY <2>2
    <3>2. QED
      BY <2>2, <3>1, Zenon DEF CountersExact, Charge, incrementInFlight, I
  <2>3. QED
    BY <2>1, <2>2
<1>4. \A c \in VolatilityClasses : inFlightByClass'[c] =
        Cardinality({x \in I \cup {k} : ~Essential(x) /\ Class(x) = c})
  <2> SUFFICES ASSUME NEW c \in VolatilityClasses
               PROVE  inFlightByClass'[c] =
                 Cardinality({x \in I \cup {k} : ~Essential(x) /\ Class(x) = c})
    OBVIOUS
  <2>0. inFlightByClass[c] = Cardinality(C(c))
    BY DEF CountersExact, I
  <2>1. CASE ~Essential(k) /\ Class(k) = c
    <3>1. /\ {x \in I \cup {k} : ~Essential(x) /\ Class(x) = c} = C(c) \cup {k}
          /\ k \notin C(c)
      BY <2>1 DEF I
    <3>2. inFlightByClass'[c] = inFlightByClass[c] + 1
      BY <2>1, Zenon DEF Charge, incrementInFlight, TypeOK
    <3>3. Cardinality(C(c) \cup {k}) = Cardinality(C(c)) + 1
      <4> DEFINE D == C(c)
      <4>1. IsFiniteSet(D) /\ k \notin D
        BY <1>1, <3>1, Zenon
      <4> HIDE DEF D
      <4>2. Cardinality(D \cup {k}) = Cardinality(D) + 1
        BY <4>1, FS_AddElement, Zenon
      <4>3. QED
        BY <4>2 DEF D
    <3>4. QED
      BY <2>0, <3>1, <3>2, <3>3
  <2>2. CASE Essential(k) \/ Class(k) # c
    <3>1. {x \in I \cup {k} : ~Essential(x) /\ Class(x) = c} = C(c)
      BY <2>2
    <3>2. inFlightByClass'[c] = inFlightByClass[c]
      BY <2>2, Zenon DEF Charge, incrementInFlight, TypeOK
    <3>3. QED
      BY <2>0, <3>1, <3>2
  <2>3. QED
    BY <2>1, <2>2
<1>5. QED
  BY <1>2, <1>3, <1>4 DEF CountersExact, I

\* The same for a completion.
LEMMA ReleaseCounts ==
  ASSUME TypeOK, CountersExact, NEW k \in Keys, k \in InFlightKeys, Release(k),
         InFlightKeys' = InFlightKeys \ {k}
  PROVE  CountersExact' /\ inFlight > 0
<1> DEFINE I == InFlightKeys
           E == {x \in I : Essential(x)}
           C(c) == {x \in I : ~Essential(x) /\ Class(x) = c}
<1>1. IsFiniteSet(I) /\ IsFiniteSet(E) /\ \A c : IsFiniteSet(C(c))
  <2>1. IsFiniteSet(I)
    BY KeysFinite, FS_Subset, Zenon DEF TypeOK, InFlightKeys
  <2>2. QED
    BY <2>1, FS_Subset
<1> HIDE DEF I
<1>2. inFlight' = Cardinality(I \ {k}) /\ inFlight > 0
  <2>1. I # {}
    BY DEF I
  <2>2. Cardinality(I) # 0 /\ Cardinality(I) \in Nat
    BY <1>1, <2>1, FS_EmptySet, FS_CardinalityType
  <2>3. Cardinality(I \ {k}) = Cardinality(I) - 1
    BY <1>1, FS_RemoveElement, Zenon DEF I
  <2>4. inFlight = Cardinality(I) /\ inFlight' = inFlight - 1
    BY DEF CountersExact, Release, I
  <2>5. QED
    BY <2>2, <2>3, <2>4
<1>3. inFlightByKind' = Cardinality({x \in I \ {k} : Essential(x)})
  <2>1. CASE Essential(k)
    <3>1. {x \in I \ {k} : Essential(x)} = E \ {k} /\ k \in E
      BY <2>1 DEF I
    <3>2. Cardinality(E) # 0 /\ Cardinality(E) \in Nat
      BY <1>1, <3>1, FS_EmptySet, FS_CardinalityType, Zenon
    <3>3. Cardinality(E \ {k}) = Cardinality(E) - 1
      BY <1>1, <3>1, FS_RemoveElement, Zenon
    <3>4. inFlightByKind' = Released(Cardinality(E))
      BY <2>1 DEF CountersExact, Release, decrementInFlight, I
    <3>5. QED
      BY <3>1, <3>2, <3>3, <3>4 DEF Released
  <2>2. CASE ~Essential(k)
    <3>1. {x \in I \ {k} : Essential(x)} = E
      BY <2>2
    <3>2. QED
      BY <2>2, <3>1 DEF CountersExact, Release, decrementInFlight, I
  <2>3. QED
    BY <2>1, <2>2
<1>4. \A c \in VolatilityClasses : inFlightByClass'[c] =
        Cardinality({x \in I \ {k} : ~Essential(x) /\ Class(x) = c})
  <2> SUFFICES ASSUME NEW c \in VolatilityClasses
               PROVE  inFlightByClass'[c] =
                 Cardinality({x \in I \ {k} : ~Essential(x) /\ Class(x) = c})
    OBVIOUS
  <2>0. inFlightByClass[c] = Cardinality(C(c))
    BY DEF CountersExact, I
  <2>1. CASE ~Essential(k) /\ Class(k) = c
    <3>1. /\ {x \in I \ {k} : ~Essential(x) /\ Class(x) = c} = C(c) \ {k}
          /\ k \in C(c)
      BY <2>1 DEF I
    <3>2. inFlightByClass'[c] = Released(inFlightByClass[c])
      BY <2>1, Zenon DEF Release, decrementInFlight, TypeOK
    <3>3. /\ Cardinality(C(c)) # 0 /\ Cardinality(C(c)) \in Nat
          /\ Cardinality(C(c) \ {k}) = Cardinality(C(c)) - 1
      <4> DEFINE D == C(c)
      <4>1. IsFiniteSet(D) /\ k \in D
        BY <1>1, <3>1
      <4> HIDE DEF D
      <4>2. Cardinality(D) # 0 /\ Cardinality(D) \in Nat
        BY <4>1, FS_EmptySet, FS_CardinalityType
      <4>3. Cardinality(D \ {k}) = Cardinality(D) - 1
        BY <4>1, FS_RemoveElement, Zenon
      <4>4. QED
        BY <4>2, <4>3 DEF D
    <3>4. inFlightByClass'[c] = Cardinality(C(c) \ {k})
      <4> DEFINE n == Cardinality(C(c))
                 m == Cardinality(C(c) \ {k})
      <4>1. n # 0 /\ n \in Nat /\ m = n - 1 /\ inFlightByClass'[c] = Released(n)
        BY <2>0, <3>2, <3>3
      <4> HIDE DEF n, m
      <4>2. inFlightByClass'[c] = m
        BY <4>1 DEF Released
      <4>3. QED
        BY <4>2 DEF m
    <3>5. QED
      BY <3>1, <3>4
  <2>2. CASE Essential(k) \/ Class(k) # c
    <3>1. {x \in I \ {k} : ~Essential(x) /\ Class(x) = c} = C(c)
      BY <2>2
    <3>2. inFlightByClass'[c] = inFlightByClass[c]
      BY <2>2, Zenon DEF Release, decrementInFlight, TypeOK
    <3>3. QED
      BY <2>0, <3>1, <3>2
  <2>3. QED
    BY <2>1, <2>2
<1>5. QED
  BY <1>2, <1>3, <1>4 DEF CountersExact, I

-----------------------------------------------------------------------------
(* One lemma per action.                                                   *)

\* Initially nothing is scheduled.
LEMMA InitInv == Init => IInv
<1> SUFFICES ASSUME Init PROVE IInv
  OBVIOUS
<1> USE DEF Init
<1>1. DOMAIN items = {} /\ InFlightKeys = {}
  BY DEF InFlightKeys
<1>2. TypeOK
  <2>1. inventory \in [Devices -> Config]
    BY ConstantsOK DEF Config, Range
  <2>2. ready \in [0..2 -> Seq(Keys)]
    BY EmptySeq
  <2>3. /\ tasks \in Seq(Task)
        /\ completions \in Seq([key : Keys, run : Nat, early : BOOLEAN])
        /\ redueRequests \in Seq(Request)
    BY EmptySeq
  <2>4. QED
    BY <1>1, <2>1, <2>2, <2>3, Zenon DEF TypeOK
<1>3. Places
  <2>1. \A p \in 0..2 : ready[p] = <<>> /\ QueuedAt(p) = {}
    BY <1>1 DEF QueuedAt
  <2>2. QED
    BY <1>1, <2>1, EmptyHolds, Zenon DEF Places
<1>4. Runs /\ TasksInFlight /\ TasksDistinct
  BY <1>1, Zenon DEF Runs, TasksInFlight, TasksDistinct, LiveWorker
<1>5. CountersExact
  BY <1>1, FS_EmptySet DEF CountersExact
<1>6. QED
  BY <1>2, <1>3, <1>4, <1>5, Zenon DEF IInv

\* The steps of the loop between its phases.
LEMMA PhaseInv ==
  ASSUME IInv, MoveDone \/ DispatchDone \/ Wake \/ LoopExit
  PROVE  IInv'
<1>1. TypeOK'
  BY Zenon DEF IInv, TypeOK, MoveDone, DispatchDone, Wake, LoopExit, queues, counters,
         control, channels, environment
<1>2. QED
  BY <1>1, ControlFrame
     DEF MoveDone, DispatchDone, Wake, LoopExit, control, channels

\* Stop's first half and the cancellation of the context.
LEMMA CancelInv ==
  ASSUME IInv, CancelContext \/ BeginStop
  PROVE  IInv'
<1>1. TypeOK'
  BY Zenon DEF IInv, TypeOK, CancelContext, BeginStop, queues, counters, channels,
         environment
<1>2. QED
  BY <1>1, ControlFrame DEF CancelContext, BeginStop, channels

\* Requests and changes of the inventory only reach the scheduler later.
LEMMA EnvironmentInv ==
  ASSUME IInv, NEW d \in Devices,
         \/ \E kind \in {"essential", "background"} : RequestRedue(d, kind)
         \/ \E config \in DeviceConfigs[d] : ChangeDevice(d, config)
         \/ ChangeMembership(d)
  PROVE  IInv'
<1>1. CASE \E kind \in {"essential", "background"} : RequestRedue(d, kind)
  <2> PICK kind \in {"essential", "background"} : RequestRedue(d, kind)
    BY <1>1
  <2>1. TypeOK'
    <3> inventory[d] \in Config
      BY Zenon DEF IInv, TypeOK
    <3>1. [device |-> d, kind |-> kind, config |-> inventory[d]] \in Request
      BY DEF Request
    <3>2. redueRequests' \in Seq(Request)
      BY <3>1, SMTT(30) DEF RequestRedue, IInv, TypeOK
    <3>3. changes' \in Nat
      <4>1. changes \in Nat
        BY Zenon DEF IInv, TypeOK
      <4>2. QED
        BY <4>1 DEF RequestRedue
    <3>4. QED
      BY <3>2, <3>3, Zenon DEF RequestRedue, IInv, TypeOK, queues, counters, control
  <2>2. QED
    BY <2>1, ControlFrame DEF RequestRedue, control
<1>2. CASE \E config \in DeviceConfigs[d] : ChangeDevice(d, config)
  <2> PICK config \in DeviceConfigs[d] : ChangeDevice(d, config)
    BY <1>2
  <2>1. TypeOK'
    <3>1. config \in Config
      BY ConstantsOK
    <3>2. /\ inventory \in [Devices -> Config] /\ changes \in Nat
          /\ calls \subseteq [device : Devices, config : Config]
      BY Zenon DEF IInv, TypeOK
    <3>3. /\ inventory' \in [Devices -> Config] /\ changes' \in Nat
          /\ calls' \subseteq [device : Devices, config : Config]
      BY <3>1, <3>2 DEF ChangeDevice
    <3>4. QED
      BY <3>3, Zenon DEF ChangeDevice, IInv, TypeOK, queues, counters, control, channels
  <2>2. QED
    BY <2>1, ControlFrame DEF ChangeDevice, control, channels
<1>3. CASE ChangeMembership(d)
  <2>1. TypeOK'
    <3>1. members' \subseteq Devices
      BY <1>3, Zenon DEF ChangeMembership, IInv, TypeOK
    <3>2. changes' \in Nat
      <4>1. changes \in Nat
        BY Zenon DEF IInv, TypeOK
      <4>2. changes' = changes + 1
        BY <1>3, Zenon DEF ChangeMembership
      <4>3. QED
        BY <4>1, <4>2
    <3>3. QED
      BY <1>3, <3>1, <3>2, Zenon DEF ChangeMembership, IInv, TypeOK, queues, counters,
            control, channels
  <2>2. QED
    BY <1>3, <2>1, ControlFrame, Zenon DEF ChangeMembership, control, channels
<1>4. QED
  BY <1>1, <1>2, <1>3

\* markElapsedInFlightWindows only sets pending flags.
LEMMA BeginIterationInv ==
  ASSUME IInv, BeginIteration
  PROVE  IInv'
<1> USE DEF BeginIteration
<1>1. DOMAIN items' = DOMAIN items
  OBVIOUS
<1>2. \A k \in DOMAIN items : /\ items[k] \in Item /\ items'[k] \in Item
                              /\ items'[k].queued = items[k].queued
                              /\ items'[k].inFlight = items[k].inFlight
                              /\ items'[k].runID = items[k].runID
  BY ZenonT(40) DEF IInv, TypeOK, Item
<1>3. TypeOK'
  BY <1>1, <1>2, Zenon DEF IInv, TypeOK, counters, control, channels, environment
<1>4. QED
  BY <1>1, <1>2, <1>3, ItemsFrame DEF control, channels

=============================================================================
