---------------------------- MODULE RuntimeStream ----------------------------
(***************************************************************************)
(* The runtime stream (protocol version 2): the pipeline keeps a versioned *)
(* snapshot of the state of all devices and a journal of its last changes, *)
(* the hub sends each browser deltas and recovery batches through a bounded *)
(* mailbox, and the browser applies them, acknowledges them, and recovers  *)
(* by itself when something does not fit.                                  *)
(*                                                                         *)
(* One browser and its connection are modelled, with any number of other   *)
(* browsers that come and go (they decide whether the pipeline has clients *)
(* to work for).  A step that holds overviewBuildMu is one action.  Devices *)
(* stand for runtime records, and a record is the number of its last change. *)
(***************************************************************************)
EXTENDS Integers, Sequences, FiniteSets, SequencesExt

CONSTANTS
  Devices,        \* devices whose runtime records are streamed
  MailboxCap,     \* capacity of overviewSend
  WireCap,        \* bound: messages written and not yet received by the browser
  ControlCap,     \* bound: controls sent and not yet read by the server
  JournalCap,     \* capacity of the journal
  MaxChanges,     \* bound: changes of device records
  MaxTopology,    \* bound: topology changes
  MaxBootstraps,  \* bound: HTTP canvas bootstraps
  MaxLosses       \* bound: lost connections, failed requests and early timeouts

ASSUME ConstantsOK ==
  /\ MailboxCap \in Nat /\ MailboxCap >= 3
  /\ {WireCap, ControlCap, JournalCap} \subseteq Nat \ {0}
  /\ {MaxChanges, MaxTopology, MaxBootstraps, MaxLosses} \subseteq Nat

VARIABLES
  live,         \* the state store: for each device, its last change
  changes,      \* changes so far
  dirty,        \* changes queued by the store or collected by broadcastLoop
  overflowed,   \* the store dropped a change batch
  topologyDirty,
  topologies,   \* topology changes so far
  server,       \* runtime: stream, version, snapshot, prevHashes # nil, journal
  published,    \* history: stream and snapshot of every version
  client,       \* the hub's Client for this browser's connection
  down,         \* messages on the wire to the browser
  up,           \* controls on the wire to the server
  link,         \* the browser's socket
  view,         \* what the browser shows: stream, version, snapshot
  shown,        \* history: the versions the browser has shown
  phase,        \* runtimeRecoveryState.phase
  timer,        \* runtimeRecoveryDeadlineTimer, relative to the generation
  fallback,     \* activeRuntimeFallback
  bootstrap,    \* an HTTP canvas bootstrap response on its way
  bootstraps,   \* bootstraps so far
  ack,          \* the acknowledgement scheduler
  losses        \* losses so far

store == <<live, changes, dirty, overflowed, topologyDirty, topologies>>
runtime == <<server, published>>
wires == <<down, up>>
browser == <<link, view, shown, phase, timer, fallback, ack>>
requests == <<bootstrap, bootstraps, losses>>
vars == <<store, runtime, client, wires, browser, requests>>

None == [stream |-> 0, version |-> 0]
Cursor(x) == [stream |-> x.stream, version |-> x.version]
Higher(a, b) == IF a >= b THEN a ELSE b

-----------------------------------------------------------------------------
(* The journal and the patches. *)

\* mergeOverviewJournalPatches: the fields of the later patch win.
MergePatches(older, newer) ==
  [d \in DOMAIN older \cup DOMAIN newer |-> IF d \in DOMAIN newer THEN newer[d] ELSE older[d]]

\* mergeRuntimeDeltaPatch, applySnapshotDeltaToRuntime: records that the patch does not
\* name keep their value.
ApplyPatch(content, patch) ==
  [d \in DOMAIN content |-> IF d \in DOMAIN patch THEN patch[d] ELSE content[d]]

\* Mutant of JournalAppend: the oldest entries stay.
JournalAppendUnbounded(journal, entry) ==
  IF journal # <<>> /\ Last(journal).version # entry.base THEN <<entry>> ELSE Append(journal, entry)

\* overviewJournal.Append: an entry that does not follow the last one restarts
\* the journal; the oldest entries leave a full journal.
JournalAppend(journal, entry) ==
  LET kept == IF journal # <<>> /\ Last(journal).version # entry.base THEN <<>> ELSE journal
      all  == Append(kept, entry)
  IN  SubSeq(all, Higher(1, Len(all) - JournalCap + 1), Len(all))

\* overviewJournal.Replay: the entries after version from, without a gap up to target.
ReplayEntries(journal, from) == SelectSeq(journal, LAMBDA e : e.version > from)

Covers(journal, from, target) ==
  LET entries == ReplayEntries(journal, from) IN
  /\ entries # <<>> /\ Last(entries).version = target
  /\ \A i \in DOMAIN entries :
       entries[i].base = IF i = 1 THEN from ELSE entries[i - 1].version

CompactedReplay(journal, from) ==
  FoldLeft(LAMBDA patch, e : MergePatches(patch, e.patch), <<>>, ReplayEntries(journal, from))

-----------------------------------------------------------------------------
(* The hub's client. *)

NoClient == [pc |-> "none", hello |-> None, echo |-> None, acked |-> None, ceiling |-> None,
             pending |-> None, installed |-> FALSE, mailbox |-> <<>>]

Bootstrapping(c) == c.pc \in {"snapshot", "sync", "select"}

\* canReceiveOverviewBroadcast: an installed batch lets deltas queue behind its ready.
CanReceive(c) == c.pc # "none" /\ (~Bootstrapping(c) \/ c.installed)

\* prepareOverviewSyncBatch.
Batch(s, mode, from) ==
  LET ready  == [type |-> "ready", stream |-> s.stream, version |-> s.version]
      resync == [type |-> "resync", stream |-> s.stream, version |-> s.version]
  IN  CASE mode = "current"  -> <<ready>>
        [] mode = "replay"   -> <<resync,
                                  [type |-> "replay", stream |-> s.stream, from |-> from,
                                   version |-> s.version,
                                   patch |-> CompactedReplay(s.journal, from)],
                                  ready>>
        [] mode = "snapshot" -> <<resync,
                                  [type |-> "snapshot", stream |-> s.stream,
                                   version |-> s.version, content |-> s.content],
                                  ready>>

\* Mutant of Install: what was installed counts as acknowledged.
InstallAsAcknowledged(c, s, mode, from) ==
  IF c.pc = "none" \/ s.version < c.pending.version
    THEN c
    ELSE [c EXCEPT !.mailbox = Batch(s, mode, from), !.pending = Cursor(s),
                   !.ceiling = Cursor(s), !.installed = TRUE, !.acked = Cursor(s)]

\* replaceOverviewStreamPrepared: the batch replaces the mailbox unless the pending
\* recovery is ahead of it.  An acknowledgement beyond the new ceiling is forgotten.
Install(c, s, mode, from) ==
  IF c.pc = "none" \/ s.version < c.pending.version
    THEN c
    ELSE [c EXCEPT !.mailbox = Batch(s, mode, from),
                   !.pending = Cursor(s),
                   !.ceiling = Cursor(s),
                   !.installed = TRUE,
                   !.acked = IF @.stream = s.stream /\ @.version > s.version THEN None ELSE @]

\* syncOverviewClientLocked: current and replay need the client to have acknowledged the
\* cursor they start from (overviewSyncClientStateMatchesBatch); otherwise a snapshot.
Sync(c, s, cursor) ==
  LET mode == IF cursor = Cursor(s) THEN "current"
              ELSE IF /\ cursor.stream = s.stream /\ cursor.version < s.version
                      /\ Covers(s.journal, cursor.version, s.version)
                THEN "replay" ELSE "snapshot"
  IN  Install(c, s, IF c.acked = cursor THEN mode ELSE "snapshot", cursor.version)

\* markOverviewRecoveryPendingLocked and the synchronisation that follows under the same
\* overviewBuildMu (syncOverflowedOverviewClientsLocked).
RecoverOverflow(c, s) ==
  Sync([c EXCEPT !.mailbox = <<>>, !.pending = Cursor(s)], s, c.acked)

\* Mutant of EnqueueDelta: a delta that finds the mailbox full is dropped.
EnqueueOrDrop(c, s, delta) ==
  IF c.pending # None /\ c.pending.stream # s.stream THEN RecoverOverflow(c, s)
  ELSE IF delta.base < c.pending.version \/ Len(c.mailbox) >= MailboxCap THEN c
  ELSE [c EXCEPT !.mailbox = Append(@, delta), !.ceiling = Cursor(s)]

\* enqueueOverviewStreamDelta.  s is the state after the delta.
EnqueueDelta(c, s, delta) ==
  IF c.pending # None /\ c.pending.stream # s.stream THEN RecoverOverflow(c, s)
  ELSE IF delta.base < c.pending.version THEN c
  ELSE IF Len(c.mailbox) >= MailboxCap THEN RecoverOverflow(c, s)
  ELSE [c EXCEPT !.mailbox = Append(@, delta), !.ceiling = Cursor(s)]

-----------------------------------------------------------------------------
(* The pipeline's runtime state. *)

\* buildFullOverviewSnapshot and the new stream that starts with it.
Rebuilt(s) ==
  [stream |-> s.stream + 1, version |-> s.version + 1, content |-> live, hashed |-> TRUE,
   journal |-> <<>>]

Publish(s) == published' = IF s.version > server.version
                             THEN Append(published, [stream |-> s.stream, content |-> s.content])
                             ELSE published

\* getOrBuildOverviewStateLocked: a stale base is rebuilt and, if somebody listens, every
\* client of the hub gets the new stream.
GetOrBuild == IF server.hashed THEN server ELSE Rebuilt(server)

AfterBuild(c, others) ==
  IF ~server.hashed /\ (others \/ CanReceive(c)) THEN Install(c, GetOrBuild, "snapshot", 0) ELSE c

Response == [stream |-> GetOrBuild.stream, version |-> GetOrBuild.version,
             content |-> GetOrBuild.content]

\* SyncOverviewClient, called for a hello or a resume and by the connection's handler.
SyncClient(c, cursor) ==
  /\ server' = GetOrBuild /\ Publish(GetOrBuild)
  /\ \E others \in BOOLEAN : client' = Sync(AfterBuild(c, others), GetOrBuild, cursor)

-----------------------------------------------------------------------------
(* Changes and broadcasts. *)

\* The state store changes a record and emits it (emitChanges); when the channel is
\* full the coalesced batch may leave a device out and set the overflow mark.
ChangeDevice(d) ==
  /\ changes < MaxChanges
  /\ changes' = changes + 1
  /\ live' = [live EXCEPT ![d] = changes + 1]
  /\ \/ dirty' = dirty \cup {d} /\ UNCHANGED overflowed
     \/ dirty # {} /\ d \notin dirty /\ overflowed' = TRUE /\ UNCHANGED dirty
  /\ UNCHANGED <<topologyDirty, topologies, runtime, client, wires, browser, requests>>

\* A device is created or deleted, or a link or the topology changes.
ChangeTopology ==
  /\ topologies < MaxTopology
  /\ topologies' = topologies + 1 /\ topologyDirty' = TRUE
  /\ UNCHANGED <<live, dirty, overflowed, changes, runtime, client, wires, browser, requests>>

\* The flush timer of broadcastLoop: D is what the loop has collected.  Whatever
\* broadcastDirty does, resetDirtyState forgets it.
Collected(D) ==
  /\ D # {} \/ topologyDirty
  /\ dirty' = dirty \ D /\ topologyDirty' = FALSE
  /\ UNCHANGED <<live, changes, topologies, wires, browser, requests>>


\* skipOverviewWorkWithoutClientsLocked and broadcastTopologyInvalidationLocked:
\* the base is stale, the version stays.
Invalidate == server' = [server EXCEPT !.hashed = FALSE] /\ UNCHANGED <<published, client>>

\* broadcastFullSnapshotLocked: a new stream for every client, stale again at once
\* when the topology changed too.
BroadcastFull(stale) ==
  /\ server' = [Rebuilt(server) EXCEPT !.hashed = ~stale]
  /\ Publish(Rebuilt(server))
  /\ client' = Install(client, Rebuilt(server), "snapshot", 0)

\* broadcastDirty after the store dropped changes.
FlushOverflow(D, others) ==
  /\ overflowed /\ overflowed' = FALSE
  /\ IF others \/ CanReceive(client) THEN BroadcastFull(topologyDirty) ELSE Invalidate
  /\ Collected(D)

\* broadcastDirty with a topology change: the collected devices are not sent.
FlushTopology(D) ==
  /\ ~overflowed /\ topologyDirty
  /\ Invalidate
  /\ Collected(D) /\ UNCHANGED overflowed

\* buildDirtyOverviewDelta: the collected records that differ from the snapshot.
DirtyPatch(D) == [d \in {x \in D : live[x] # server.content[x]} |-> live[d]]

\* broadcastDirty with dirty devices: the next version, the
\* journal, BroadcastOverviewStreamDelta.
FlushDirty(D, others) ==
  /\ ~overflowed /\ ~topologyDirty
  /\ LET patch == DirtyPatch(D)
         next  == [server EXCEPT
                    !.version = @ + 1, !.content = ApplyPatch(@, patch),
                    !.journal = JournalAppend(@, [base |-> server.version,
                                                  version |-> server.version + 1,
                                                  patch |-> patch])]
         delta == [type |-> "delta", stream |-> server.stream, base |-> server.version,
                   version |-> server.version + 1, patch |-> patch]
     IN  IF ~(others \/ CanReceive(client)) THEN Invalidate
         ELSE IF ~server.hashed THEN BroadcastFull(FALSE)
         ELSE IF DOMAIN patch = {} THEN UNCHANGED <<runtime, client>>
         ELSE /\ server' = next /\ Publish(next)
              /\ client' = IF CanReceive(client) THEN EnqueueDelta(client, next, delta) ELSE client
  /\ Collected(D) /\ UNCHANGED overflowed

-----------------------------------------------------------------------------
(* The server's side of the connection. *)

\* ServeHTTP up to the first runtime synchronisation: snapshotFunc.
HandlerSnapshot ==
  /\ client.pc = "snapshot"
  /\ server' = GetOrBuild /\ Publish(GetOrBuild)
  /\ \E others \in BOOLEAN : client' = [AfterBuild(client, others) EXCEPT !.pc = "sync"]
  /\ UNCHANGED <<store, wires, browser, requests>>

\* ServeHTTP: runtimeSync with the cursor of the query.
HandlerSync ==
  /\ client.pc = "sync"
  /\ SyncClient([client EXCEPT !.pc = "select"], client.hello)
  /\ UNCHANGED <<store, wires, browser, requests>>

\* ServeHTTP: markBootstrapSnapshotSelected, then writePump starts.
HandlerServe ==
  /\ client.pc = "select"
  /\ client' = [client EXCEPT !.pc = "serving"]
  /\ UNCHANGED <<store, runtime, wires, browser, requests>>

\* writePump.
WritePump ==
  /\ client.pc = "serving" /\ client.mailbox # <<>> /\ Len(down) < WireCap
  /\ down' = Append(down, Head(client.mailbox))
  /\ client' = [client EXCEPT !.mailbox = Tail(@)]
  /\ UNCHANGED <<store, runtime, up, browser, requests>>

\* acceptHello: the echo of the query's hello is consumed; a hello during the bootstrap
\* only sets the acknowledged cursor, below the ceiling.
AcceptHello(m) ==
  LET c == [client EXCEPT !.echo = None,
                          !.acked = IF ~Bootstrapping(client) THEN @
                                    ELSE IF /\ m.stream = client.ceiling.stream
                                            /\ m.version > client.ceiling.version
                                      THEN None ELSE Cursor(m)]
  IN  IF Bootstrapping(client) \/ client.echo = Cursor(m)
        THEN client' = c /\ UNCHANGED runtime
        ELSE SyncClient(c, Cursor(m))

\* acceptRuntimeResume.
AcceptResume(m) ==
  IF Bootstrapping(client) THEN UNCHANGED <<runtime, client>> ELSE SyncClient(client, Cursor(m))

\* acceptRuntimeAck: within the ceiling, and an advance or the end of the pending recovery.
AcceptAck(m) ==
  LET completes == client.pending.stream = m.stream /\ m.version >= client.pending.version
      within    == m.stream = client.ceiling.stream /\ m.version <= client.ceiling.version
      advances  == m.stream = client.acked.stream /\ m.version > client.acked.version
      regresses == m.stream = client.acked.stream /\ m.version < client.acked.version
  IN  /\ client' = IF within /\ (advances \/ (completes /\ ~regresses))
                     THEN [client EXCEPT !.acked = Cursor(m),
                                         !.pending = IF completes THEN None ELSE @]
                     ELSE client
      /\ UNCHANGED runtime

\* readPump.
ReadPump ==
  /\ client.pc # "none" /\ up # <<>>
  /\ up' = Tail(up)
  /\ CASE Head(up).type = "hello"  -> AcceptHello(Head(up))
       [] Head(up).type = "resume" -> AcceptResume(Head(up))
       [] Head(up).type = "ack"    -> AcceptAck(Head(up))
  /\ UNCHANGED <<store, down, browser, requests>>

-----------------------------------------------------------------------------
(* The browser. *)

NewAck == [stream |-> 0, last |-> 0, pending |-> 0]
NoFallback == [state |-> "none", response |-> None]

\* runtimeAckScheduler.cancel, schedule and what flush leaves and sends.
CancelAck(a) == [a EXCEPT !.pending = 0]

ScheduleAck(a, cursor) ==
  LET stream == IF a.stream = 0 THEN cursor.stream ELSE a.stream IN
  [a EXCEPT !.stream = stream,
            !.pending = IF cursor.stream # stream THEN @
                        ELSE IF @ # 0 THEN Higher(@, cursor.version)
                        ELSE IF cursor.version > a.last THEN cursor.version ELSE 0]

FlushedAck(a) == [a EXCEPT !.last = Higher(@, a.pending), !.pending = 0]

AckMessages(a) ==
  IF a.pending = 0 THEN <<>>
  ELSE <<[type |-> "ack", stream |-> a.stream, version |-> a.pending]>>

Control(type, cursor) == <<[type |-> type, stream |-> cursor.stream, version |-> cursor.version]>>

\* A send on a socket that is not open does nothing.
Send(messages) == up' = IF link = "open" THEN up \o messages ELSE up

Show(x) == /\ view' = [stream |-> x.stream, version |-> x.version, content |-> x.content]
           /\ shown' = shown \cup {x.version}

\* A new stream resets the acknowledgement scheduler.
AckOfStream(x) == IF x.stream # view.stream THEN NewAck ELSE ack

\* requestRuntimeRecovery: only an idle browser starts a generation and may ask the server
\* to resume.  A deadline timer that is already set is kept, whatever its generation.
RequestRecovery(resume) ==
  /\ phase' = IF phase = "idle" THEN "stream" ELSE phase
  /\ fallback' = IF phase = "idle" THEN NoFallback ELSE fallback
  /\ timer' = IF phase = "idle" THEN (IF timer = "none" THEN "current" ELSE "stale")
              ELSE IF phase = "stream" /\ timer = "none" THEN "current" ELSE timer
  /\ Send(IF phase = "idle" /\ resume THEN Control("resume", view) ELSE <<>>)
  /\ UNCHANGED <<view, shown, ack>>

Ignore == UNCHANGED <<up, view, shown, phase, timer, fallback, ack>>

Apply(x) ==
  /\ Show(x)
  /\ ack' = ScheduleAck(AckOfStream(x), Cursor(x))
  /\ UNCHANGED <<up, phase, timer, fallback>>

\* A patch applied to the shown content, at the message's version.
Patched(m) == [stream |-> m.stream, version |-> m.version,
               content |-> ApplyPatch(view.content, m.patch)]

\* onmessage snapshot: ignored if older than what is shown of the same stream.
OnSnapshot(m) ==
  IF m.stream = view.stream /\ m.version < view.version THEN Ignore ELSE Apply(m)

\* Mutant of OnReplay: a replay that starts after what is shown is applied.
OnReplayWithGap(m) ==
  IF m.stream # view.stream \/ m.version <= view.version
    THEN RequestRecovery(TRUE) ELSE Apply(Patched(m))

\* onmessage runtime_replay, classifyRuntimeReplay: the range may overlap what is shown.
OnReplay(m) ==
  IF m.stream # view.stream \/ m.version <= view.version \/ m.from > view.version
    THEN RequestRecovery(TRUE)
    ELSE Apply(Patched(m))

\* onmessage runtime_delta, classifyRuntimeDelta.
OnDelta(m) ==
  IF phase # "idle" \/ m.stream # view.stream \/ m.base > view.version
    THEN RequestRecovery(TRUE)
    ELSE IF m.base < view.version THEN Ignore ELSE Apply(Patched(m))


\* onmessage ready, applyRuntimeRecoveryReady: the exact cursor ends a recovery and
\* flushes the acknowledgement.
OnReady(m) ==
  IF Cursor(m) # Cursor(view)
    THEN IF phase = "idle" THEN RequestRecovery(TRUE) ELSE Ignore
    ELSE LET a == ScheduleAck(ack, Cursor(view)) IN
         /\ phase' = "idle" /\ timer' = "none"
         /\ fallback' = IF phase = "idle" THEN fallback ELSE NoFallback
         /\ ack' = FlushedAck(a) /\ Send(AckMessages(a))
         /\ UNCHANGED <<view, shown>>

\* onmessage.
OnMessage ==
  /\ link = "open" /\ down # <<>> /\ Len(up) < ControlCap
  /\ down' = Tail(down)
  /\ LET m == Head(down) IN
     CASE m.type = "resync"   -> RequestRecovery(FALSE)
       [] m.type = "snapshot" -> OnSnapshot(m)
       [] m.type = "replay"   -> OnReplay(m)
       [] m.type = "delta"    -> OnDelta(m)
       [] m.type = "ready"    -> OnReady(m)
  /\ UNCHANGED <<store, runtime, client, link, requests>>

\* The acknowledgement scheduler's timer.
AckTimer ==
  /\ ack.pending # 0 /\ Len(up) < ControlCap
  /\ Send(AckMessages(ack)) /\ ack' = FlushedAck(ack)
  /\ UNCHANGED <<store, runtime, client, down, link, view, shown, phase, timer, fallback, requests>>

\* The recovery deadline: the generation that set it falls back to HTTP (runRuntimeFallback);
\* in any other generation or phase it is only gone.
StreamDeadline ==
  /\ timer # "none" /\ timer' = "none"
  /\ IF timer = "current" /\ phase = "stream"
       THEN phase' = "http-fallback" /\ fallback' = [NoFallback EXCEPT !.state = "request"]
       ELSE UNCHANGED <<phase, fallback>>
  /\ UNCHANGED <<store, runtime, client, wires, link, view, shown, ack, requests>>

\* GET /api/v1/runtime/overview on the server: GetOrBuildOverviewState.
FallbackServe ==
  /\ fallback.state = "request" /\ fallback.response = None
  /\ server' = GetOrBuild /\ Publish(GetOrBuild)
  /\ \E others \in BOOLEAN : client' = AfterBuild(client, others)
  /\ fallback' = [fallback EXCEPT !.response = Response]
  /\ UNCHANGED <<store, wires, link, view, shown, phase, timer, ack, requests>>

\* Mutant of FailFallback: the socket stays open.
FailFallbackOnly ==
  /\ fallback' = NoFallback
  /\ phase' = IF phase = "http-fallback" THEN "failed" ELSE phase
  /\ UNCHANGED <<link, ack>>

\* failRuntimeFallbackGeneration: the socket is closed to reconnect.
FailFallback ==
  /\ fallback' = NoFallback
  /\ IF phase = "http-fallback"
       THEN phase' = "failed" /\ link' = "closing" /\ ack' = CancelAck(ack)
       ELSE UNCHANGED <<phase, link, ack>>

\* The response: applied in its generation unless it is older than what is shown; then the
\* acknowledgement, a fresh scheduler, and the wait for ready.
FallbackArrive ==
  /\ fallback.state = "request" /\ fallback.response # None /\ Len(up) < ControlCap
  /\ LET r == fallback.response
         a == ScheduleAck(AckOfStream(r), Cursor(r))
     IN  IF phase # "http-fallback" \/ (r.stream = view.stream /\ r.version < view.version)
           THEN FailFallback /\ UNCHANGED <<up, view, shown>>
           ELSE /\ Show(r) /\ ack' = NewAck
                /\ fallback' = [NoFallback EXCEPT !.state = "ready-barrier"]
                /\ Send(AckMessages(a) \o Control("resume", r))
                /\ UNCHANGED <<phase, link>>
  /\ UNCHANGED <<store, runtime, client, down, timer, requests>>

\* The request fails, or a deadline of the fallback passes while answers are on their way.
FallbackExpire ==
  /\ fallback.state # "none" /\ losses < MaxLosses
  /\ losses' = losses + 1
  /\ FailFallback
  /\ UNCHANGED <<store, runtime, client, wires, view, shown, timer, bootstrap, bootstraps>>

\* The ready deadline passes when no answer is on its way.
BarrierExpire ==
  /\ fallback.state = "ready-barrier"
  /\ up = <<>> /\ down = <<>> /\ client.mailbox = <<>> /\ client.pc = "serving"
  /\ FailFallback
  /\ UNCHANGED <<store, runtime, client, wires, view, shown, timer, requests>>

\* The canvas loads a map over HTTP and gets the runtime state with it.
BootstrapServe ==
  /\ bootstrap = None /\ bootstraps < MaxBootstraps
  /\ bootstraps' = bootstraps + 1
  /\ server' = GetOrBuild /\ Publish(GetOrBuild)
  /\ \E others \in BOOLEAN : client' = AfterBuild(client, others)
  /\ bootstrap' = Response
  /\ UNCHANGED <<store, wires, browser, losses>>

\* subscribeCanvasRuntimeBootstrap: the response replaces what is shown, whatever its
\* version; the deadline timer and the fallback are left alone.
BootstrapArrive ==
  /\ bootstrap # None /\ Len(up) < ControlCap
  /\ Show(bootstrap) /\ ack' = AckOfStream(bootstrap)
  /\ phase' = "idle" /\ bootstrap' = None
  /\ Send(Control("hello", bootstrap))
  /\ UNCHANGED <<store, runtime, client, down, link, timer, fallback, bootstraps, losses>>

\* connect: the hello travels in the query of the upgrade (initializeRuntimeQueryHello).
Connect ==
  /\ link = "down" /\ link' = "connecting"
  /\ client' = [NoClient EXCEPT !.pc = "snapshot", !.hello = Cursor(view),
                                !.echo = Cursor(view), !.acked = Cursor(view)]
  /\ ack' = NewAck /\ phase' = "idle" /\ timer' = "none" /\ fallback' = NoFallback
  /\ UNCHANGED <<store, runtime, wires, view, shown, requests>>

\* onopen.
Open ==
  /\ link = "connecting" /\ link' = "open"
  /\ up' = up \o Control("hello", view)
  /\ UNCHANGED <<store, runtime, client, down, view, shown, phase, timer, fallback, ack, requests>>

\* onclose, and removeClient on the server.
OnClose ==
  /\ link' = "down" /\ down' = <<>> /\ up' = <<>> /\ client' = NoClient
  /\ phase' = "idle" /\ timer' = "none" /\ fallback' = NoFallback /\ ack' = CancelAck(ack)
  /\ UNCHANGED <<store, runtime, view, shown, bootstrap, bootstraps>>

Close == link = "closing" /\ OnClose /\ UNCHANGED losses

LoseConnection ==
  /\ link \in {"connecting", "open"} /\ losses < MaxLosses
  /\ losses' = losses + 1 /\ OnClose

-----------------------------------------------------------------------------
\* The pipeline has published its first snapshot (broadcastOnce) and the browser has
\* loaded it with the canvas.
Init ==
  /\ live = [d \in Devices |-> 0] /\ changes = 0 /\ dirty = {} /\ overflowed = FALSE
  /\ topologyDirty = FALSE /\ topologies = 0
  /\ server = [stream |-> 1, version |-> 1, content |-> live, hashed |-> TRUE, journal |-> <<>>]
  /\ published = <<[stream |-> 1, content |-> live]>>
  /\ client = NoClient /\ down = <<>> /\ up = <<>> /\ link = "down"
  /\ view = [stream |-> 1, version |-> 1, content |-> live] /\ shown = {1}
  /\ phase = "idle" /\ timer = "none" /\ fallback = NoFallback /\ ack = NewAck
  /\ bootstrap = None /\ bootstraps = 0 /\ losses = 0

Flush == \E D \in SUBSET dirty :
  \/ FlushTopology(D)
  \/ \E others \in BOOLEAN : FlushOverflow(D, others) \/ FlushDirty(D, others)

Handler == HandlerSnapshot \/ HandlerSync \/ HandlerServe
Fallback == FallbackServe \/ FallbackArrive \/ BarrierExpire

Next ==
  \/ \E d \in Devices : ChangeDevice(d)
  \/ ChangeTopology \/ Flush
  \/ Handler \/ WritePump \/ ReadPump
  \/ OnMessage \/ AckTimer \/ StreamDeadline
  \/ Fallback \/ FallbackExpire
  \/ BootstrapServe \/ BootstrapArrive
  \/ Connect \/ Open \/ Close \/ LoseConnection

Spec == Init /\ [][Next]_vars

\* Goroutines, timers and the browser's event loop proceed, a request that was answered
\* gets its answer, and the browser reconnects.  Nothing forces a change or a loss.
Fairness ==
  /\ WF_vars(Flush) /\ WF_vars(Handler) /\ WF_vars(WritePump) /\ WF_vars(ReadPump)
  /\ WF_vars(OnMessage) /\ WF_vars(AckTimer) /\ WF_vars(StreamDeadline) /\ WF_vars(Fallback)
  /\ WF_vars(BootstrapArrive) /\ WF_vars(Connect) /\ WF_vars(Open) /\ WF_vars(Close)

FairSpec == Spec /\ Fairness

-----------------------------------------------------------------------------
Content == [Devices -> Nat]
CursorType == [stream : Nat, version : Nat]

\* The types of the runtime state, of the hub's client and of the browser's state.
TypeOK ==
  /\ live \in Content /\ dirty \subseteq Devices
  /\ server.content \in Content /\ Len(server.journal) <= JournalCap
  /\ Len(published) = server.version /\ server.stream <= server.version
  /\ {client.hello, client.echo, client.acked, client.ceiling, client.pending} \subseteq CursorType
  /\ client.pc \in {"none", "snapshot", "sync", "select", "serving"}
  /\ Len(client.mailbox) <= MailboxCap
  /\ link \in {"down", "connecting", "open", "closing"}
  /\ view.content \in Content
  /\ phase \in {"idle", "stream", "http-fallback", "failed"}
  /\ timer \in {"none", "current", "stale"}
  /\ fallback.state \in {"none", "request", "ready-barrier"}

\* What the browser shows at a cursor is exactly what the pipeline had at that stream and
\* version, through deltas, overlapping replays (classifyRuntimeReplay), snapshots, HTTP
\* responses, reconnects and mailboxes replaced under way.
ShownIsPublished ==
  published[view.version] = [stream |-> view.stream, content |-> view.content]

\* No silent gap: an idle browser on a served connection with nothing under way in either
\* direction shows the pipeline's current version (enqueueOverviewStreamDelta,
\* syncOverviewClientLocked, requestRuntimeRecovery).
NoSilentGap ==
  /\ link = "open" /\ phase = "idle" /\ client.pc = "serving"
  /\ client.mailbox = <<>> /\ down = <<>> /\ up = <<>>
  => Cursor(view) = Cursor(server)


\* The hub takes a cursor for acknowledged only if the browser has shown it, so current
\* and replay batches start from a state the browser had (acceptRuntimeAck, acceptHello).
AcknowledgedWasShown == client.acked # None => client.acked.version \in shown

\* When changes stop, the browser ends every recovery and shows the current version for
\* good (recovery deadline, HTTP fallback, ready barrier, reconnect).
Converges == <>[](link = "open" /\ phase = "idle" /\ Cursor(view) = Cursor(server))


\* A stream recovery ends, if need be by its deadline (scheduleRuntimeRecoveryDeadline).
RecoveryEnds == (phase = "stream") ~> (phase # "stream")
=============================================================================
