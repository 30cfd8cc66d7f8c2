--------------------------- MODULE BulkBackupRun ---------------------------
(***************************************************************************)
(* A durable bulk backup run: its row and item rows in PostgreSQL, the     *)
(* goroutines that process it under a database lease, the backup workers,  *)
(* and the pause, resume and cancel requests that race with them           *)
(* (internal/service/bulk_backup_run.go and the bulk repositories of       *)
(* internal/repository/postgres).                                          *)
(*                                                                         *)
(* A database transaction is one step; everything a goroutine read before  *)
(* is local to it.  A step of a processor first locks the run row and      *)
(* checks that the processor still owns an unexpired lease (Mutation).     *)
(***************************************************************************)
EXTENDS Integers, Sequences, FiniteSets

CONSTANTS
  Items,        \* the items (devices) of the run
  Processors,   \* goroutines that can process the run at the same time
  BatchSize,    \* defaultBulkBackupRunBatchSize
  Requests,     \* the control requests that clients send
  DBFails,      \* statements of a processor may fail
  Stalls,       \* a live processor may miss its lease or its wait deadline
  FastRestart,  \* the process may be back before its lease has expired
  MaxCrashes,   \* bound on crashes
  MaxJobs,      \* bound on backup jobs
  NoOwner, NoJob

ASSUME ConstantsOK ==
  /\ IsFiniteSet(Items) /\ BatchSize \in Nat \ {0}
  /\ Requests \subseteq {"pause", "resume", "cancel"}
  /\ {DBFails, Stalls, FastRestart} \subseteq BOOLEAN
  /\ MaxCrashes \in Nat /\ MaxJobs \in Nat
  /\ NoOwner \notin Processors /\ NoJob \notin Nat

VARIABLES
  status, cancelRequested, counts,  \* the row of backup_bulk_runs
  owner, leaseLive,                 \* its processor lease
  items,                            \* backup_bulk_run_items: status and backup_job_id
  jobs,                             \* backup_jobs created for the run
  live,                             \* jobs held by a backup worker of this process
  proc,                             \* the processor goroutines
  calls,                            \* requests between their two UPDATEs
  up, crashes                       \* the process

row == <<status, cancelRequested, counts>>
lease == <<owner, leaseLive>>
tables == <<row, lease, items, jobs>>
process == <<live, calls, up, crashes>>
vars == <<tables, proc, process>>

-----------------------------------------------------------------------------
(* Statuses and counters.                                                  *)

TerminalRun == {"success", "partial", "failed", "cancelled"}
TerminalItem == {"skipped", "success", "failed", "cancelled"}
Resumable == {"running", "pausing", "cancelling"}

Terminal(i) == items[i].status \in TerminalItem
Started(i) == items[i].status \in {"active", "running"}

Count(its, s) == Cardinality({i \in Items : its[i].status = s})

\* bulkCountersSQL.
Counters(its) ==
  [success |-> Count(its, "success"), failed |-> Count(its, "failed"),
   skipped |-> Count(its, "skipped"), cancelled |-> Count(its, "cancelled")]

\* The terminal status finishBulkBackupRun computes from the row.
Outcome(c, cancel) ==
  IF cancel \/ c.cancelled > 0
  THEN IF c.success > 0 \/ c.failed > 0 \/ c.skipped > 0 THEN "partial" ELSE "cancelled"
  ELSE IF Cardinality(Items) > 0 /\ c.success = Cardinality(Items) THEN "success"
  ELSE IF c.success > 0 \/ c.skipped > 0 THEN "partial" ELSE "failed"

-----------------------------------------------------------------------------
(* Processors.                                                             *)

Idle == [pc |-> "idle", recover |-> FALSE, batch |-> {}, todo |-> {},
         claimed |-> {}, queued |-> {}, outcome |-> "none"]

\* go s.processBulkBackupRun(id, recover) on a free goroutine p.
Spawn(p, recover) ==
  /\ proc[p].pc = "idle"
  /\ proc' = [proc EXCEPT ![p] = [Idle EXCEPT !.pc = "acquire", !.recover = recover]]

\* Processor p goes on at pc; its local variables are dead.
Goto(p, pc) == proc' = [proc EXCEPT ![p] = [Idle EXCEPT !.pc = pc]]

Owns(p) == owner = p /\ leaseLive

\* execProcessorMutation: the statement commits only under the lease; otherwise,
\* or when the database fails, the caller sees an error.
Mutation(p, Commit, Error) ==
  \/ Owns(p) /\ Commit
  \/ (~Owns(p) \/ DBFails) /\ Error /\ UNCHANGED tables

\* TryAcquireBulkRunProcessor: without the lease the goroutine ends.
TryAcquireBulkRunProcessor(p) ==
  /\ proc[p].pc = "acquire"
  /\ IF status \in Resumable /\ (owner = NoOwner \/ ~leaseLive)
     THEN /\ owner' = p /\ leaseLive' = TRUE
          /\ Goto(p, IF proc[p].recover THEN "recover" ELSE "loop")
     ELSE UNCHANGED lease /\ proc' = [proc EXCEPT ![p] = Idle]
  /\ UNCHANGED <<row, items, jobs, process>>

\* A mutant: terminal items start over, too.
RecoverEveryItem(p) ==
  /\ proc[p].pc = "recover"
  /\ Mutation(p,
       /\ items' = [i \in Items |-> [status |-> "checking", job |-> NoJob]]
       /\ status' = IF status = "pausing" THEN "paused" ELSE status
       /\ Goto(p, "loop")
       /\ UNCHANGED <<cancelRequested, counts, lease, jobs>>,
       Goto(p, "release"))
  /\ UNCHANGED process

\* A mutant: a run that was pausing is paused with the items it had.
RecoverRunOnly(p) ==
  /\ proc[p].pc = "recover"
  /\ Mutation(p,
       /\ status' = IF status = "pausing" THEN "paused" ELSE status
       /\ Goto(p, "loop")
       /\ UNCHANGED <<cancelRequested, counts, lease, items, jobs>>,
       Goto(p, "release"))
  /\ UNCHANGED process

\* RecoverBulkRun: interrupted items start over, their jobs have failed, and a
\* run that was pausing is paused.
RecoverBulkRun(p) ==
  /\ proc[p].pc = "recover"
  /\ Mutation(p,
       /\ jobs' = [j \in DOMAIN jobs |->
                     IF /\ jobs[j].status \in {"pending", "running"}
                        /\ \E i \in Items : ~Terminal(i) /\ items[i].job = j
                     THEN [jobs[j] EXCEPT !.status = "failed"] ELSE jobs[j]]
       /\ items' = [i \in Items |-> IF Terminal(i) THEN items[i]
                                    ELSE [status |-> "checking", job |-> NoJob]]
       /\ status' = IF status = "pausing" THEN "paused" ELSE status
       /\ cancelRequested' = (status # "pausing" /\ cancelRequested)
       /\ Goto(p, "loop")
       /\ UNCHANGED <<counts, lease>>,
       Goto(p, "release"))
  /\ UNCHANGED process

\* refreshBulkRunProcessor at the head of processAcquiredBulkRun's loop.
Refresh(p) ==
  /\ proc[p].pc = "loop"
  /\ \/ Owns(p) /\ Goto(p, "read")
     \/ (~Owns(p) \/ DBFails) /\ Goto(p, "release")
  /\ UNCHANGED <<tables, process>>

\* nextBulkRunBatch: the next items, at most BatchSize, that are not terminal.
nextBulkRunBatch(batch) ==
  LET open == {i \in Items : ~Terminal(i)}
      size == IF Cardinality(open) < BatchSize THEN Cardinality(open) ELSE BatchSize
  IN  batch \subseteq open /\ Cardinality(batch) = size

\* A mutant: an item whose job runs is cancelled, too.
PendingUnlessActive(i) == ~Terminal(i) /\ items[i].status # "active"

\* The items cancelPendingBulkRunItems cancels.
Pending(i) == ~Terminal(i) /\ ~Started(i)

\* GetRun and the branch on what it returned.
ReadRun(p) ==
  /\ proc[p].pc = "read"
  /\ \/ status \in TerminalRun \cup {"paused"} /\ Goto(p, "release")
     \/ DBFails /\ Goto(p, "release")
     \/ status = "pausing" /\ Goto(p, "reload")
     \/ /\ status \in {"running", "cancelling"} /\ cancelRequested
        /\ proc' = [proc EXCEPT ![p].pc = "cancel",
                                ![p].todo = {i \in Items : Pending(i)}]
     \/ /\ status \in {"running", "cancelling"} /\ ~cancelRequested
        /\ \E batch \in SUBSET Items :
             /\ nextBulkRunBatch(batch)
             /\ IF batch = {} THEN Goto(p, "finish")
                ELSE proc' = [proc EXCEPT ![p].pc = "claim", ![p].batch = batch,
                                          ![p].todo = batch]
  /\ UNCHANGED <<tables, process>>

\* The second GetRun of a run that was seen pausing.
ReloadPausing(p) ==
  /\ proc[p].pc = "reload"
  /\ \/ status = "pausing" /\ Goto(p, "pause")
     \/ status # "pausing" /\ Goto(p, "loop")
     \/ DBFails /\ Goto(p, "release")
  /\ UNCHANGED <<tables, process>>

\* UpdateRun(latest) with status paused: the row is written whatever its status
\* became since it was read, unless it is terminal; cancel_requested is kept.
PauseRun(p) ==
  /\ proc[p].pc = "pause"
  /\ Mutation(p,
       /\ status' = IF status \in TerminalRun THEN status ELSE "paused"
       /\ UNCHANGED <<cancelRequested, counts, lease, items, jobs>>,
       TRUE)
  /\ Goto(p, "release")
  /\ UNCHANGED process

\* recalculateBulkRunCounters after a write left the items at its: a transaction
\* of its own, before which the process may die or the lease end, and whose
\* failure is only logged.
Recalculated(its) == counts' \in {counts, Counters(its)}

\* completeBulkRunItem(item, st, reason, nil).
completeBulkRunItem(p, i, st) ==
  Mutation(p,
    /\ items' = [items EXCEPT ![i] = [status |-> st, job |-> NoJob]]
    /\ Recalculated(items')
    /\ UNCHANGED <<status, cancelRequested, lease, jobs>>,
    TRUE)

Done(p, i) == [proc EXCEPT ![p].todo = @ \ {i}]

\* cancelPendingBulkRunItems, one item.
CancelItem(p, i) ==
  /\ proc[p].pc = "cancel" /\ i \in proc[p].todo
  /\ completeBulkRunItem(p, i, "cancelled")
  /\ proc' = Done(p, i)
  /\ UNCHANGED process

\* After the last one: reload, and finish unless items are active.
CancelDone(p) ==
  /\ proc[p].pc = "cancel" /\ proc[p].todo = {}
  /\ \/ Owns(p) /\ Recalculated(items)
     \/ ~Owns(p) /\ UNCHANGED counts
  /\ LET active == {i \in Items : Started(i)}
     IN  \/ active = {} /\ Goto(p, "finish")
         \/ active # {} /\ proc' = [proc EXCEPT ![p].pc = "wait", ![p].batch = active]
         \/ DBFails /\ Goto(p, "release")
  /\ UNCHANGED <<status, cancelRequested, lease, items, jobs, process>>

\* ClaimBulkRunItem: only an item still checking becomes active.  The row is read
\* back in a second statement; when that fails the item stays active, unclaimed.
ClaimBulkRunItem(p, i) ==
  /\ proc[p].pc = "claim" /\ i \in proc[p].todo
  /\ Mutation(p,
       IF items[i].status = "checking"
       THEN /\ items' = [items EXCEPT ![i] = [status |-> "active", job |-> NoJob]]
            /\ \/ proc' = [Done(p, i) EXCEPT ![p].claimed = @ \cup {i}]
               \/ DBFails /\ proc' = Done(p, i)
            /\ UNCHANGED <<row, lease, jobs>>
       ELSE proc' = Done(p, i) /\ UNCHANGED tables,
       proc' = Done(p, i))
  /\ UNCHANGED process

\* The end of claimBulkRunBatch.
ClaimDone(p) ==
  /\ proc[p].pc = "claim" /\ proc[p].todo = {}
  /\ \/ Owns(p) /\ proc[p].claimed # {} /\ Recalculated(items)
     \/ (~Owns(p) \/ proc[p].claimed = {}) /\ UNCHANGED counts
  /\ proc' = [proc EXCEPT ![p].pc = "prepare", ![p].todo = proc[p].claimed,
                          ![p].claimed = {}]
  /\ UNCHANGED <<status, cancelRequested, lease, items, jobs, process>>

\* prepareBulkRunBatch, one claimed item: its device is missing, offline,
\* unreachable, without profile or support, or the job could not be created.
RejectItem(p, i) ==
  /\ proc[p].pc = "prepare" /\ i \in proc[p].todo
  /\ \E st \in {"failed", "skipped"} : completeBulkRunItem(p, i, st)
  /\ proc' = Done(p, i)
  /\ UNCHANGED process

\* CreateBulkRunJob: the job and its attachment to an active item, atomically.
CreateBulkRunJob(p, i) ==
  /\ proc[p].pc = "prepare" /\ i \in proc[p].todo
  /\ Owns(p) /\ items[i] = [status |-> "active", job |-> NoJob]
  /\ Len(jobs) < MaxJobs
  /\ jobs' = Append(jobs, [item |-> i, status |-> "pending"])
  /\ items' = [items EXCEPT ![i].job = Len(jobs')]
  /\ proc' = [Done(p, i) EXCEPT ![p].queued = @ \cup {Len(jobs')}]
  /\ UNCHANGED <<row, lease, process>>

\* startBulkBackupWorkers with the jobs created; then waitForBulkRunBatch.
StartWorkers(p) ==
  /\ proc[p].pc = "prepare" /\ proc[p].todo = {}
  /\ \/ Owns(p) /\ proc[p].queued # {} /\ Recalculated(items)
     \/ (~Owns(p) \/ proc[p].queued = {}) /\ UNCHANGED counts
  /\ live' = live \cup proc[p].queued
  /\ proc' = [proc EXCEPT ![p].pc = "wait", ![p].queued = {}]
  /\ UNCHANGED <<status, cancelRequested, lease, items, jobs, calls, up, crashes>>

\* A mutant: the status of the job is copied, whatever it is.
ProjectedAlways(i) ==
  IF ~Started(i) THEN items[i]
  ELSE IF items[i].job = NoJob THEN [items[i] EXCEPT !.status = "failed"]
  ELSE [items[i] EXCEPT !.status = jobs[items[i].job].status]

\* A mutant: a job that has not started counts as lost.
ProjectedImpatiently(i) ==
  IF ~Started(i) THEN items[i]
  ELSE IF items[i].job = NoJob \/ jobs[items[i].job].status = "pending"
  THEN [items[i] EXCEPT !.status = "failed"]
  ELSE [items[i] EXCEPT !.status = jobs[items[i].job].status]

\* The next state of an item of a batch (ReconcileBulkRunBatchContext).
Projected(i) ==
  IF ~Started(i) THEN items[i]
  ELSE IF items[i].job = NoJob THEN [items[i] EXCEPT !.status = "failed"]
  ELSE IF jobs[items[i].job].status = "pending" THEN items[i]
  ELSE [items[i] EXCEPT !.status = jobs[items[i].job].status]

\* One tick of waitForBulkRunBatchContext: it refreshes the lease, projects the
\* jobs onto the items and returns once the batch is terminal.
ReconcileBulkRunBatch(p) ==
  /\ proc[p].pc = "wait"
  /\ Mutation(p,
       /\ items' = [i \in Items |-> IF i \in proc[p].batch THEN Projected(i) ELSE items[i]]
       /\ counts' = IF items' = items THEN counts ELSE Counters(items')
       /\ IF \A i \in proc[p].batch : items'[i].status \in TerminalItem
          THEN Goto(p, "loop") ELSE UNCHANGED proc
       /\ UNCHANGED <<status, cancelRequested, lease, jobs>>,
       Goto(p, "release"))
  /\ UNCHANGED process

\* The deadline of waitForBulkRunBatch: the processor gives the run up.
WaitDeadline(p) ==
  /\ proc[p].pc = "wait" /\ (Stalls \/ DBFails)
  /\ Goto(p, "release")
  /\ UNCHANGED <<tables, process>>

\* A mutant: the counters of the row are taken as they are.
OutcomeOfStoredCounters(p) ==
  /\ proc[p].pc = "finish"
  /\ Mutation(p,
       /\ proc' = [proc EXCEPT ![p].pc = "finishing",
                               ![p].outcome = Outcome(counts, cancelRequested)]
       /\ UNCHANGED <<row, lease, items, jobs>>,
       Goto(p, "release"))
  /\ UNCHANGED process

\* finishBulkBackupRun up to the status it computes.
ComputeOutcome(p) ==
  /\ proc[p].pc = "finish"
  /\ Mutation(p,
       /\ counts' = Counters(items)
       /\ proc' = [proc EXCEPT ![p].pc = "finishing",
                               ![p].outcome = Outcome(Counters(items), cancelRequested)]
       /\ UNCHANGED <<status, cancelRequested, lease, items, jobs>>,
       Goto(p, "release"))
  /\ UNCHANGED process

\* FinishBulkRun: never over a terminal status.
FinishBulkRun(p) ==
  /\ proc[p].pc = "finishing"
  /\ Mutation(p,
       /\ status' = IF status \in TerminalRun THEN status ELSE proc[p].outcome
       /\ UNCHANGED <<cancelRequested, counts, lease, items, jobs>>,
       TRUE)
  /\ Goto(p, "release")
  /\ UNCHANGED process

\* The deferred ReleaseBulkRunProcessor.
ReleaseBulkRunProcessor(p) ==
  /\ proc[p].pc = "release"
  /\ \/ owner = p /\ owner' = NoOwner /\ leaseLive' = FALSE
     \/ (owner # p \/ DBFails) /\ UNCHANGED lease
  /\ proc' = [proc EXCEPT ![p] = Idle]
  /\ UNCHANGED <<row, items, jobs, process>>

-----------------------------------------------------------------------------
(* Backup workers.                                                         *)

SetJob(j, st) == jobs' = [jobs EXCEPT ![j].status = st]

\* runFullBackupContext sets the job running.
RunJob(j) ==
  /\ j \in live /\ jobs[j].status = "pending"
  /\ SetJob(j, "running")
  /\ UNCHANGED <<row, lease, items, proc, process>>

\* The backup ends, or never got its slot or its device lock in time.
EndJob(j) ==
  /\ j \in live
  /\ \/ SetJob(j, "failed")
     \/ jobs[j].status = "running" /\ SetJob(j, "success")
     \/ DBFails /\ UNCHANGED jobs \* updateJobStatus failed
  /\ live' = live \ {j}
  /\ UNCHANGED <<row, lease, items, proc, calls, up, crashes>>

-----------------------------------------------------------------------------
(* Control requests.                                                       *)

\* PauseBulkBackupRun.
RequestBulkRunPause ==
  /\ "pause" \in Requests /\ up
  /\ status = "running" /\ ~cancelRequested
  /\ status' = "pausing"
  /\ UNCHANGED <<cancelRequested, counts, lease, items, jobs, proc, process>>

\* ResumeBulkBackupRun, the UPDATE of a paused run, which starts a processor.
ResumePaused ==
  /\ "resume" \in Requests /\ up
  /\ status = "paused" /\ ~cancelRequested
  /\ status' = "running"
  /\ \E p \in Processors : Spawn(p, FALSE)
  /\ UNCHANGED <<cancelRequested, counts, lease, items, jobs, process>>

\* That UPDATE matched nothing.
ResumeMissed ==
  /\ "resume" \in Requests \ calls /\ up
  /\ status \notin TerminalRun /\ (status # "paused" \/ cancelRequested)
  /\ calls' = calls \cup {"resume"}
  /\ UNCHANGED <<tables, proc, live, up, crashes>>

\* The UPDATE of a pausing run, whose processor goes on.
ResumePausing ==
  /\ "resume" \in calls
  /\ calls' = calls \ {"resume"}
  /\ status' = IF status = "pausing" /\ ~cancelRequested THEN "running" ELSE status
  /\ UNCHANGED <<cancelRequested, counts, lease, items, jobs, proc, live, up, crashes>>

\* CancelBulkBackupRun, the UPDATE of a paused run, which starts a processor.
CancelPaused ==
  /\ "cancel" \in Requests /\ up
  /\ status = "paused"
  /\ status' = "cancelling" /\ cancelRequested' = TRUE
  /\ \E p \in Processors : Spawn(p, FALSE)
  /\ UNCHANGED <<counts, lease, items, jobs, process>>

\* That UPDATE matched nothing.
CancelMissed ==
  /\ "cancel" \in Requests \ calls /\ up
  /\ status \in Resumable
  /\ calls' = calls \cup {"cancel"}
  /\ UNCHANGED <<tables, proc, live, up, crashes>>

\* The UPDATE of a run that should have a processor.
CancelActive ==
  /\ "cancel" \in calls
  /\ calls' = calls \ {"cancel"}
  /\ IF status \in Resumable THEN status' = "cancelling" /\ cancelRequested' = TRUE
     ELSE UNCHANGED <<status, cancelRequested>>
  /\ UNCHANGED <<counts, lease, items, jobs, proc, live, up, crashes>>

-----------------------------------------------------------------------------
(* Time and the process.                                                   *)

\* The lease runs out: its processor is gone, or late.
ExpireLease ==
  /\ leaseLive /\ (Stalls \/ proc[owner].pc = "idle")
  /\ leaseLive' = FALSE
  /\ UNCHANGED <<row, owner, items, jobs, proc, process>>

\* The process dies; what it did not write is gone.
Crash ==
  /\ up /\ crashes < MaxCrashes
  /\ up' = FALSE /\ crashes' = crashes + 1
  /\ proc' = [p \in Processors |-> Idle] /\ live' = {} /\ calls' = {}
  /\ UNCHANGED tables

\* A mutant: a run that is being cancelled is not resumed.
ListRunningRuns == status \in {"running", "pausing"}

\* ListResumableRuns returns the run.
ListResumableRuns == status \in Resumable

\* ResumeBulkBackupRuns at startup.
Startup ==
  /\ ~up /\ (FastRestart \/ ~leaseLive)
  /\ up' = TRUE
  /\ IF ListResumableRuns THEN \E p \in Processors : Spawn(p, TRUE)
     ELSE UNCHANGED proc
  /\ UNCHANGED <<tables, live, calls, crashes>>

-----------------------------------------------------------------------------
\* StartBulkBackupRun: devices known to be down are skipped at once.
Init ==
  /\ status = "running" /\ cancelRequested = FALSE
  /\ items \in [Items -> [status : {"checking", "skipped"}, job : {NoJob}]]
  /\ counts = Counters(items)
  /\ owner = NoOwner /\ leaseLive = FALSE
  /\ jobs = <<>> /\ live = {} /\ calls = {}
  /\ up = TRUE /\ crashes = 0
  /\ \E p \in Processors :
       proc = [q \in Processors |-> IF q = p THEN [Idle EXCEPT !.pc = "acquire"] ELSE Idle]

Step(p) ==
  \/ TryAcquireBulkRunProcessor(p) \/ RecoverBulkRun(p) \/ Refresh(p)
  \/ ReadRun(p) \/ ReloadPausing(p) \/ PauseRun(p)
  \/ \E i \in Items : \/ CancelItem(p, i) \/ ClaimBulkRunItem(p, i)
                      \/ RejectItem(p, i) \/ CreateBulkRunJob(p, i)
  \/ CancelDone(p) \/ ClaimDone(p) \/ StartWorkers(p)
  \/ ReconcileBulkRunBatch(p) \/ ComputeOutcome(p) \/ FinishBulkRun(p)
  \/ ReleaseBulkRunProcessor(p)

Next ==
  \/ \E p \in Processors : Step(p) \/ WaitDeadline(p)
  \/ \E j \in live : RunJob(j) \/ EndJob(j)
  \/ RequestBulkRunPause \/ ResumePaused \/ ResumeMissed \/ ResumePausing
  \/ CancelPaused \/ CancelMissed \/ CancelActive
  \/ ExpireLease \/ Crash \/ Startup

Spec == Init /\ [][Next]_vars

\* Goroutines of a live process proceed, workers end (every backup has a
\* five-minute context), a request that was begun ends, the process is restarted
\* and the lease of a dead processor runs out.
Fairness ==
  /\ \A p \in Processors : WF_vars(Step(p))
  /\ \A j \in 1..MaxJobs : WF_vars(j \in live /\ EndJob(j))
  /\ WF_vars(ResumePausing) /\ WF_vars(CancelActive)
  /\ WF_vars(Startup) /\ WF_vars(ExpireLease)

FairSpec == Spec /\ Fairness

-----------------------------------------------------------------------------
(* Properties.                                                             *)

JobIds == 1..Len(jobs)

\* Types of all variables.
TypeOK ==
  /\ status \in Resumable \cup TerminalRun \cup {"paused"}
  /\ cancelRequested \in BOOLEAN
  /\ counts \in [{"success", "failed", "skipped", "cancelled"} -> 0..Cardinality(Items)]
  /\ owner \in Processors \cup {NoOwner} /\ leaseLive \in BOOLEAN
  /\ items \in [Items -> [status : {"checking", "active", "running"} \cup TerminalItem,
                          job : JobIds \cup {NoJob}]]
  /\ jobs \in Seq([item : Items, status : {"pending", "running", "success", "failed"}])
  /\ live \subseteq JobIds
  /\ calls \subseteq {"resume", "cancel"}
  /\ up \in BOOLEAN /\ crashes \in 0..MaxCrashes
  /\ \A p \in Processors :
       /\ proc[p].batch \cup proc[p].todo \cup proc[p].claimed \subseteq Items
       /\ proc[p].queued \subseteq JobIds

\* A terminal run is settled: every item is terminal, no worker still backs one
\* up, and the counters and the status agree with the items (finishBulkBackupRun
\* after the last batch or the last cancelled item).
FinishedRunSettled ==
  status \in TerminalRun =>
    /\ \A i \in Items : Terminal(i)
    /\ live = {}
    /\ counts = Counters(items)
    /\ status \in {Outcome(counts, FALSE), Outcome(counts, cancelRequested)}

\* A paused run is settled: its active batch has ended, whatever resumes,
\* cancels, lease losses and restarts came before (ReadRun, PauseRun and
\* RecoverBulkRun).
PausedRunSettled == status = "paused" => live = {} /\ \A i \in Items : ~Started(i)

\* An item is backed up by one job at a time: the job of a live worker is the one
\* its item refers to, and that item is not terminal (CreateBulkRunJob,
\* RecoverBulkRun, completeBulkRunItem).
LiveJobsAttached ==
  \A j \in live : items[jobs[j].item].job = j /\ Started(jobs[j].item)

Backups(i) == {j \in JobIds : jobs[j] = [item |-> i, status |-> "success"]}

\* No backup is invented or lost: an item succeeded only with a job that did, and
\* a device that was backed up is not reported skipped, failed or cancelled, nor
\* backed up again, except that every crash can lose the outcome of one job
\* (ReconcileBulkRunBatchContext, cancelPendingBulkRunItems, RecoverBulkRun).
BackupsReported ==
  \A i \in Items :
    /\ items[i].status = "success" =>
         items[i].job # NoJob /\ jobs[items[i].job].status = "success"
    /\ Cardinality(Backups(i)) <=
         crashes + IF Started(i) \/ items[i].status = "success" THEN 1 ELSE 0

\* A terminal item or run never changes again, and nothing is written for it.
TerminalIsFinal ==
  [][/\ status \in TerminalRun => status' = status
     /\ \A i \in Items : Terminal(i) => items'[i] = items[i]]_vars

\* A run that is never paused reaches a terminal status, also when it is cancelled
\* or the process restarts after its lease ran out.
RunSettles == [](status \notin {"pausing", "paused"}) => <>(status \in TerminalRun)

\* A requested cancellation computes a terminal outcome.
CancelSettles == cancelRequested ~> status \in TerminalRun

\* A run interrupted by a restart is resumed: some processor has its lease again,
\* or it is paused or over.
InterruptedRunResumes ==
  up /\ crashes > 0 ~> status \in TerminalRun \cup {"paused"}

=============================================================================
