---------------------------- MODULE AlprBackfill ----------------------------
(***************************************************************************)
(* The ALPR historical backfill: the alpr_backfill_jobs table, the HTTP    *)
(* handlers that start, pause, resume and cancel a job                     *)
(* (internal/api/alpr_backfill.go) and the singleton goroutine that walks  *)
(* the routes (internal/worker/alpr_backfill.go).                          *)
(*                                                                         *)
(* Every statement sent to the database is one action, because that is     *)
(* where another goroutine can come between.  A handler reads the latest   *)
(* job and later writes it; the worker reads the row, the setting and the  *)
(* segment progress at different times.                                    *)
(*                                                                         *)
(* A definition named XMutant is X with a plausible bug; nothing uses it    *)
(* but the entry of PROJECT.json that shows a property failing with it.     *)
(***************************************************************************)
EXTENDS Integers, FiniteSets

CONSTANTS
    MaxJobs,        \* bound: rows ever inserted
    NumRoutes,      \* rows of the routes table, numbered in (route_name, id) order
    NameOf,         \* route -> rank of its route_name (two devices can share one)
    Footage,        \* pairs <<route, segment>> with an fcamera.hevc on disk
    Filters,        \* start requests: [routes, newest, max]
    RouteBatch,     \* LIMIT of the worker's route query
    Handlers,       \* HTTP requests in flight at once
    Ops,            \* the requests this instance makes
    MaxRequests,    \* bound: requests ever served
    MaxToggles,     \* bound: flips of the alpr_enabled setting
    MaxCrashes,     \* bound: process restarts
    DbMayFail       \* whether statements and ffmpeg runs can fail

Jobs   == 1 .. MaxJobs
Routes == 1 .. NumRoutes

ASSUME BackfillAssumption ==
    /\ MaxJobs \in Nat /\ NumRoutes \in Nat /\ RouteBatch \in Nat \ {0}
    /\ MaxRequests \in Nat /\ MaxToggles \in Nat /\ MaxCrashes \in Nat
    /\ NameOf \in [Routes -> Nat \ {0}]
    /\ \A r, q \in Routes : r <= q => NameOf[r] <= NameOf[q]
    /\ Footage \subseteq Routes \X Nat
    /\ Filters \subseteq [routes : SUBSET Routes, newest : BOOLEAN, max : Nat]
    /\ Ops \subseteq {"start", "pause", "resume", "cancel"}
    /\ DbMayFail \in BOOLEAN

VARIABLES
    jobs,       \* alpr_backfill_jobs, by id
    inserted,   \* highest id handed out; the row of that id is the latest
    enabled,    \* settings: alpr_enabled
    extracted,  \* alpr_segment_progress.processed_at_extractor is set
    handler,    \* per request: what it read and is about to write
    w,          \* the worker goroutine: program counter and locals
    walked,     \* history: segments the job extracted, skipped or gave up
    grace,      \* history: segments a job extracted since it left 'running'
    requests, toggles, crashes   \* the bounded counters

table   == <<jobs, inserted>>
history == <<walked, grace>>
counts  == <<requests, toggles, crashes>>
vars    == <<table, enabled, extracted, handler, w, history, counts>>

JobStates == {"absent", "running", "paused", "done", "failed"}
Terminal  == {"done", "failed"}

NoFilter == [routes |-> {}, newest |-> FALSE, max |-> 0]
NoRow    == [state |-> "absent", filters |-> NoFilter, processed |-> 0,
             last |-> 0, finished |-> FALSE, cancelled |-> FALSE]

IdleHandler == [op |-> "none", job |-> 0]
IdleWorker  == [pc |-> "idle", job |-> 0, batch |-> {}, route |-> 0,
                segs |-> {}, target |-> "none"]

WorkerPcs == {"idle", "gate", "reread", "enabled", "fetch", "mid",
              "midEnabled", "seg", "progress", "extract", "mark", "stamp",
              "write"}

WorkerRec == [pc : WorkerPcs, job : 0 .. MaxJobs, batch : SUBSET Routes,
              route : 0 .. NumRoutes, segs : SUBSET Nat,
              target : JobStates \cup {"none"}]

JobRow == [state : JobStates, filters : Filters \cup {NoFilter},
           processed : Nat, last : Nat, finished : BOOLEAN,
           cancelled : BOOLEAN]

Init ==
    /\ jobs      = [j \in Jobs |-> NoRow]
    /\ inserted  = 0
    /\ enabled   = TRUE
    /\ extracted = {}
    /\ handler   = [h \in Handlers |-> IdleHandler]
    /\ w         = IdleWorker
    /\ walked    = [j \in Jobs |-> {}]
    /\ grace     = [j \in Jobs |-> 0]
    /\ requests  = 0 /\ toggles = 0 /\ crashes = 0

-----------------------------------------------------------------------------
(* The queries of sql/queries/alpr_backfill_jobs.sql.                      *)

Running == {j \in Jobs : jobs[j].state = "running"}

AfterTokenMutant(f, last, r) == last = 0 \/ NameOf[r] > last + 1

\* The route comes after the resume token in the order of the job.
AfterToken(f, last, r) ==
    \/ last = 0
    \/ f.newest /\ NameOf[r] < last
    \/ ~f.newest /\ NameOf[r] > last

Precedes(f, r, q) == IF f.newest THEN r > q ELSE r < q

\* ListBackfillRoutesAsc / Desc without the LIMIT.
Eligible(f, last) == {r \in f.routes : AfterToken(f, last, r)}

\* ... and with it: the first RouteBatch of them.
ListBackfillRoutes(f, last) ==
    {r \in Eligible(f, last) :
        Cardinality({q \in Eligible(f, last) : Precedes(f, q, r)}) < RouteBatch}

MaxReachedMutant(j) ==
    jobs[j].filters.max > 0 /\ jobs[j].processed > jobs[j].filters.max

MaxReached(j) ==
    /\ jobs[j].filters.max > 0
    /\ jobs[j].processed >= jobs[j].filters.max

UniqueViolationMutant(j, s) == FALSE

\* UpdateBackfillJobState: no guard on the state the row has.  The partial
\* unique index refuses a second running row.
UniqueViolation(j, s) == s = "running" /\ Running \ {j} # {}

SetStateMutant(j, s, cancel) ==    \* resuming starts the count afresh
    /\ jobs' = [jobs EXCEPT ![j].state = s,
                            ![j].processed = IF s = "running" THEN 0 ELSE @]
    /\ UNCHANGED grace

SetState(j, s, cancel) ==
    /\ jobs' = [jobs EXCEPT ![j].state = s,
                            ![j].finished = @ \/ s \in Terminal,
                            ![j].cancelled = @ \/ cancel]
    /\ grace' = [grace EXCEPT ![j] = IF s = "running" THEN 0 ELSE @]

-----------------------------------------------------------------------------
(* The handlers.  A request that answers without writing changes nothing,  *)
(* so only the ones that go on to write leave a trace.                     *)

Begin(h, op, j) ==
    /\ handler[h].op = "none"
    /\ op \in Ops
    /\ requests < MaxRequests
    /\ requests' = requests + 1
    /\ handler' = [handler EXCEPT ![h] = [op |-> op, job |-> j]]
    /\ UNCHANGED <<table, enabled, extracted, w, history, toggles, crashes>>

Return(h) == handler' = [handler EXCEPT ![h] = IdleHandler]

\* Start up to the fast-path check: no running row, so go on to INSERT.
StartCheck(h) == Running = {} /\ Begin(h, "start", 0)

\* InsertBackfillJob in state 'running', or the 23505 of the index (409).
\* MaxJobs is a bound of the model only.
StartInsert(h, f) ==
    /\ handler[h].op = "start"
    /\ IF Running # {} \/ inserted = MaxJobs
       THEN UNCHANGED table
       ELSE /\ inserted' = inserted + 1
            /\ jobs' = [jobs EXCEPT ![inserted + 1] =
                           [NoRow EXCEPT !.state = "running", !.filters = f]]
    /\ Return(h)
    /\ UNCHANGED <<enabled, extracted, w, history, counts>>

\* GetLatestBackfillJob and the check of the state it returned.
PauseRead(h) ==
    inserted > 0 /\ jobs[inserted].state = "running" /\ Begin(h, "pause", inserted)

ResumeRead(h) ==
    inserted > 0 /\ jobs[inserted].state = "paused" /\ Begin(h, "resume", inserted)

CancelRead(h) ==
    inserted > 0 /\ jobs[inserted].state \notin Terminal
                 /\ Begin(h, "cancel", inserted)

\* The UPDATE that follows, of the row that was read then.
PauseWrite(h) ==
    /\ handler[h].op = "pause"
    /\ SetState(handler[h].job, "paused", FALSE)
    /\ Return(h)
    /\ UNCHANGED <<inserted, enabled, extracted, w, walked, counts>>

ResumeWrite(h) ==
    /\ handler[h].op = "resume"
    /\ IF UniqueViolation(handler[h].job, "running")
       THEN UNCHANGED <<jobs, grace>>
       ELSE SetState(handler[h].job, "running", FALSE)
    /\ Return(h)
    /\ UNCHANGED <<inserted, enabled, extracted, w, walked, counts>>

CancelWrite(h) ==
    /\ handler[h].op = "cancel"
    /\ SetState(handler[h].job, "failed", TRUE)
    /\ Return(h)
    /\ UNCHANGED <<inserted, enabled, extracted, w, walked, counts>>

\* A statement that fails: 500, and the row stays as it is.
RequestFails(h) ==
    /\ DbMayFail /\ handler[h].op # "none"
    /\ Return(h)
    /\ UNCHANGED <<table, enabled, extracted, w, history, counts>>

Api == \E h \in Handlers :
    \/ StartCheck(h) \/ PauseRead(h) \/ ResumeRead(h) \/ CancelRead(h)
    \/ \E f \in Filters : StartInsert(h, f)
    \/ PauseWrite(h) \/ ResumeWrite(h) \/ CancelWrite(h) \/ RequestFails(h)

-----------------------------------------------------------------------------
(* The worker goroutine: Run, runOnce, processJob, processRoute.  The wake *)
(* channel and the IdlePoll timer both lead back to runOnce, so RunOnce is *)
(* simply possible whenever the goroutine idles.                           *)

Goto(pc)     == w' = [w EXCEPT !.pc = pc]
GiveUp       == w' = IdleWorker

Writing(s)   == w' = [w EXCEPT !.pc = "write", !.target = s]
OnlyWorker   == UNCHANGED <<table, enabled, extracted, handler, history, counts>>

\* GetRunningBackfillJob finds the row to work on.
RunOnce ==
    /\ w.pc = "idle"
    /\ \E j \in Running : w' = [IdleWorker EXCEPT !.pc = "gate", !.job = j]
    /\ OnlyWorker

\* alprEnabled: the setting, and FALSE when it cannot be read.
AlprGate(from, to) ==
    /\ w.pc = from
    /\ \/ enabled /\ Goto(to)
       \/ ~enabled /\ Writing("paused")
       \/ DbMayFail /\ Writing("paused")
    /\ OnlyWorker

Gate == AlprGate("gate", "reread")

\* The row is read again; anything but 'running' ends the job's loop.
ReadRow(from, to) ==
    /\ w.pc = from
    /\ \/ jobs[w.job].state = "running" /\ Goto(to)
       \/ jobs[w.job].state # "running" /\ GiveUp
       \/ DbMayFail /\ GiveUp
    /\ OnlyWorker

Reread      == ReadRow("reread", "enabled")
RereadGate  == AlprGate("enabled", "fetch")

FetchRouteBatchMutant ==           \* the end of the routes goes unnoticed
    /\ w.pc = "fetch"
    /\ LET batch == ListBackfillRoutes(jobs[w.job].filters, jobs[w.job].last)
       IN  \/ MaxReached(w.job) /\ Writing("done")
           \/ ~MaxReached(w.job) /\ w' = [w EXCEPT !.pc = "mid", !.batch = batch]
    /\ OnlyWorker

\* The cap, then the next batch after the resume token.  processed_routes
\* and last_processed_route were read by Reread; no one else writes them.
FetchRouteBatch ==
    /\ w.pc = "fetch"
    /\ LET j == w.job
           batch == ListBackfillRoutes(jobs[j].filters, jobs[j].last)
       IN  \/ MaxReached(j) /\ Writing("done")
           \/ ~MaxReached(j) /\ batch = {} /\ Writing("done")
           \/ ~MaxReached(j) /\ batch # {}
                /\ w' = [w EXCEPT !.pc = "mid", !.batch = batch]
           \/ ~MaxReached(j) /\ DbMayFail /\ Writing("failed")
    /\ OnlyWorker

\* The same checks between two routes of a batch.
MidBatch     == w.batch # {} /\ ReadRow("mid", "midEnabled")
BatchDone    == w.pc = "mid" /\ w.batch = {} /\ Goto("reread") /\ OnlyWorker

\* processRoute starts on the first route left in the batch.  When the
\* segments cannot be listed it logs that and returns.
StartRoute ==
    /\ w.pc = "midEnabled" /\ enabled
    /\ IF MaxReached(w.job)
       THEN Writing("done") /\ UNCHANGED walked
       ELSE \E r \in w.batch :
              LET segs == {s \in {p[2] : p \in Footage} : <<r, s>> \in Footage}
              IN
              /\ \A q \in w.batch : q = r \/ Precedes(jobs[w.job].filters, r, q)
              /\ \/ /\ w' = [w EXCEPT !.pc = "seg", !.batch = @ \ {r},
                                      !.route = r, !.segs = segs]
                    /\ UNCHANGED walked
                 \/ /\ DbMayFail
                    /\ w' = [w EXCEPT !.pc = "stamp", !.batch = @ \ {r},
                                      !.route = r, !.segs = {}]
                    /\ walked' = [walked EXCEPT ![w.job] = @ \cup ({r} \X segs)]
    /\ UNCHANGED <<table, enabled, extracted, handler, grace, counts>>

MidGateFails ==
    /\ w.pc = "midEnabled" /\ (~enabled \/ DbMayFail)
    /\ Writing("paused")
    /\ OnlyWorker

SegmentCheckMutant ==              \* the last segment is left out
    /\ w.pc = "seg"
    /\ \/ Cardinality(w.segs) <= 1 /\ Goto("stamp")
       \/ Cardinality(w.segs) > 1 /\ Goto("progress")
    /\ OnlyWorker

SegmentCheckMutant2 ==             \* no look at the job between segments
    /\ w.pc = "seg"
    /\ Goto(IF w.segs = {} THEN "stamp" ELSE "progress")
    /\ OnlyWorker

\* Top of the segment loop: out of segments, or told to stop.  Both return
\* to processJob, which goes on to stamp the route.  An unreadable row does
\* not stop the loop.
SegmentCheck ==
    /\ w.pc = "seg"
    /\ \/ /\ w.segs = {} \/ jobs[w.job].state # "running"
          /\ Goto("stamp")
          /\ walked' = [walked EXCEPT ![w.job] = @ \cup ({w.route} \X w.segs)]
       \/ /\ w.segs # {} /\ (jobs[w.job].state = "running" \/ DbMayFail)
          /\ Goto("progress")
          /\ UNCHANGED walked
    /\ UNCHANGED <<table, enabled, extracted, handler, grace, counts>>

\* Segments are walked in ascending order.
IsNext(s) == \A t \in w.segs : s <= t

\* The segment is settled for this job; on to the next one.
Settle(s) ==
    /\ w' = [w EXCEPT !.pc = "seg", !.segs = @ \ {s}]
    /\ walked' = [walked EXCEPT ![w.job] = @ \cup {<<w.route, s>>}]

\* IsExtractorProcessed; a failed read skips the segment.
ReadProgress(s) ==
    /\ w.pc = "progress" /\ IsNext(s)
    /\ \/ (<<w.route, s>> \in extracted \/ DbMayFail) /\ Settle(s) /\ UNCHANGED grace
       \/ /\ <<w.route, s>> \notin extracted
          /\ Goto("extract")
          /\ grace' = [grace EXCEPT ![w.job] =
                          IF jobs[w.job].state = "running" THEN @ ELSE @ + 1]
          /\ UNCHANGED walked
    /\ UNCHANGED <<table, enabled, extracted, handler, counts>>

\* processSegment: every frame pushed, or an error that is logged.
ProcessSegment(s) ==
    /\ w.pc = "extract" /\ IsNext(s)
    /\ \/ Goto("mark") /\ UNCHANGED walked
       \/ DbMayFail /\ Settle(s)
    /\ UNCHANGED <<table, enabled, extracted, handler, grace, counts>>

MarkExtractorProcessed(s) ==
    /\ w.pc = "mark" /\ IsNext(s)
    /\ Settle(s)
    /\ \/ extracted' = extracted \cup {<<w.route, s>>}
       \/ DbMayFail /\ UNCHANGED extracted
    /\ UNCHANGED <<table, enabled, handler, grace, counts>>

\* IncrementBackfillJobProgress: counter and token in one statement.
IncrementProgress ==
    /\ w.pc = "stamp"
    /\ \/ jobs' = [jobs EXCEPT ![w.job].processed = @ + 1,
                               ![w.job].last = NameOf[w.route]]
       \/ DbMayFail /\ UNCHANGED jobs
    /\ w' = [w EXCEPT !.pc = "mid", !.route = 0, !.segs = {}]
    /\ UNCHANGED <<inserted, enabled, extracted, handler, history, counts>>

\* setState, then back to Run's select.
WorkerSetState ==
    /\ w.pc = "write"
    /\ \/ SetState(w.job, w.target, FALSE)
       \/ DbMayFail /\ UNCHANGED <<jobs, grace>>
    /\ GiveUp
    /\ UNCHANGED <<inserted, enabled, extracted, handler, walked, counts>>

Worker ==
    \/ RunOnce \/ Gate \/ Reread \/ RereadGate \/ FetchRouteBatch
    \/ MidBatch \/ BatchDone \/ MidGateFails \/ StartRoute
    \/ SegmentCheck
    \/ \E s \in w.segs :
          ReadProgress(s) \/ ProcessSegment(s) \/ MarkExtractorProcessed(s)
    \/ IncrementProgress \/ WorkerSetState

-----------------------------------------------------------------------------
(* The surroundings.                                                       *)

\* PUT /v1/settings/alpr.
ToggleEnabled ==
    /\ toggles < MaxToggles
    /\ toggles' = toggles + 1
    /\ enabled' = ~enabled
    /\ UNCHANGED <<table, extracted, handler, w, history, requests, crashes>>

\* The live extractor finishes a segment the backfill has not marked.
LiveExtract ==
    /\ \E p \in Footage \ extracted : extracted' = extracted \cup {p}
    /\ UNCHANGED <<table, enabled, handler, w, history, counts>>

\* The process dies and comes back; only the database survives.
Crash ==
    /\ crashes < MaxCrashes
    /\ crashes' = crashes + 1
    /\ w' = IdleWorker
    /\ handler' = [h \in Handlers |-> IdleHandler]
    /\ UNCHANGED <<table, enabled, extracted, history, requests, toggles>>

Next == Api \/ Worker \/ ToggleEnabled \/ LiveExtract \/ Crash

Spec == Init /\ [][Next]_vars

\* Goroutines are scheduled, the IdlePoll timer fires, and a handler runs on
\* once it has begun.  No request, toggle or crash is ever owed.
FairSpec ==
    /\ Spec
    /\ WF_vars(Worker)
    /\ \A h \in Handlers : WF_vars(PauseWrite(h) \/ ResumeWrite(h) \/ CancelWrite(h))

-----------------------------------------------------------------------------
(* Properties.                                                             *)

\* The shape of the rows, of the worker's locals and of the requests in
\* flight: what Go's types and the column constraints promise.
TypeOK ==
    /\ jobs \in [Jobs -> JobRow]
    /\ inserted \in 0 .. MaxJobs
    /\ enabled \in BOOLEAN
    /\ extracted \subseteq Footage
    /\ handler \in [Handlers -> [op : Ops \cup {"none"}, job : 0 .. MaxJobs]]
    /\ w \in WorkerRec
    /\ walked \in [Jobs -> SUBSET Footage]
    /\ grace \in [Jobs -> Nat]
    /\ requests \in 0 .. MaxRequests
    /\ toggles \in 0 .. MaxToggles
    /\ crashes \in 0 .. MaxCrashes

\* "At most one running job": whatever Start and Resume read before they
\* wrote, no two rows are in state 'running' at once.
OneRunning == \A i, j \in Running : i = j

\* max_routes is a hard ceiling on processed_routes, across pauses, resumes,
\* failed statements and restarts (processJob checks it before each route
\* and increments only after the route).
CapRespected ==
    \A j \in Jobs : jobs[j].filters.max > 0 =>
                    jobs[j].processed <= jobs[j].filters.max

\* Routes the resume token of a job says are behind it.
Behind(j) == {r \in jobs[j].filters.routes : ~AfterToken(jobs[j].filters, jobs[j].last, r)}

\* No segment is passed over unseen: of the routes behind the resume token,
\* each was extracted, found extracted, given up with an error, or left when
\* the job was seen to be stopped, whatever restarts and failed statements
\* came between.
TokenMeansWalked ==
    \A j \in Jobs : \A p \in Footage : p[1] \in Behind(j) => p \in walked[j]

\* Doc of the package: last_processed_route is stamped after a route's
\* segments are all enqueued, or skipped for being already complete.
StampAfterAllSegments == w.pc = "stamp" => w.segs = {}

\* A job that ended 'done' before its cap has seen every route it asked for
\* (the batch query returns nothing only when nothing lies ahead).
DoneMeansWalked ==
    \A j \in Jobs :
        jobs[j].state = "done" /\ ~MaxReached(j) =>
            \A p \in Footage : p[1] \in jobs[j].filters.routes => p \in walked[j]

\* A pause or cancel is honoured at the segment boundary: after a job left
\* 'running' the worker starts on at most one more of its segments.
PauseHonoured == \A j \in Jobs : grace[j] <= 1

\* Doc of Cancel: the job is 'failed' from then on, and terminal states are
\* left alone; a cancelled job is never seen in another state again.
CancelIsFinal == \A j \in Jobs : jobs[j].cancelled => jobs[j].state = "failed"

\* A running job does not hang: it ends or is paused, whatever restarts
\* interrupt it, because IdlePoll keeps bringing the worker back to it.
Settles == \A j \in Jobs : jobs[j].state = "running" ~> jobs[j].state # "running"

\* The inductive strengthening: what the worker's locals and the requests in
\* flight still have to do with the rows they were read from.
WalkingPcs == {"seg", "progress", "extract", "mark", "stamp"}
BatchPcs   == {"mid", "midEnabled"} \cup WalkingPcs

NotBehind(f, last, r) ==
    last = 0 \/ (IF f.newest THEN NameOf[r] <= last ELSE NameOf[r] >= last)

RowsMatch ==
    /\ \A j \in Jobs : j > inserted => jobs[j] = NoRow
    /\ \A h \in Handlers : handler[h].op \in {"pause", "resume", "cancel"} =>
                              handler[h].job \in 1 .. inserted
    /\ w.pc # "idle" => w.job \in 1 .. inserted
    /\ w.pc = "write" => w.target \in {"paused", "done", "failed"}

BatchAhead ==
    w.pc \in BatchPcs =>
        \A r \in w.batch : /\ r \in jobs[w.job].filters.routes
                           /\ NotBehind(jobs[w.job].filters, jobs[w.job].last, r)

RouteAhead ==
    w.pc \in WalkingPcs =>
        LET row == jobs[w.job] IN
        /\ w.route \in row.filters.routes
        /\ NotBehind(row.filters, row.last, w.route)
        /\ \A q \in w.batch : q = w.route \/ Precedes(row.filters, w.route, q)
        /\ row.filters.max > 0 => row.processed < row.filters.max
        /\ \A s \in w.segs : <<w.route, s>> \in Footage

\* The worker still works on the row it thinks it does: the route it walks
\* is one the filter asks for, ahead of the token and below the cap.
WorkerConsistent == RowsMatch /\ BatchAhead /\ RouteAhead

IInv == TypeOK /\ OneRunning /\ CapRespected /\ WorkerConsistent

\* What keeps PauseHonoured: a running job owes nothing, and the worker turns
\* to a segment only after it has seen its job running.
PauseInv ==
    /\ PauseHonoured
    /\ \A j \in Jobs : jobs[j].state = "running" \/ j > inserted => grace[j] = 0
    /\ w.pc = "progress" => grace[w.job] = 0

\* The resume token names one route: no two routes share a name.
DistinctNames == \A r, q \in Routes : r < q => NameOf[r] < NameOf[q]

Seen(j, r) == \A p \in Footage : p[1] = r => p \in walked[j]

\* What the batch leaves out was seen before or comes after all of it.
BatchComplete ==
    w.pc \in BatchPcs =>
        LET row == jobs[w.job] IN
        \A q \in Eligible(row.filters, row.last) :
            \/ q \in w.batch
            \/ Seen(w.job, q)
            \/ w.pc \in WalkingPcs /\ q = w.route
            \/ /\ \A r \in w.batch : Precedes(row.filters, r, q)
               /\ w.pc \in WalkingPcs => Precedes(row.filters, w.route, q)

\* Of the route under way only the segments still held are unseen, and none
\* when it is about to be stamped.
RouteSeen ==
    w.pc \in WalkingPcs =>
        \A p \in Footage : p[1] = w.route =>
            \/ p \in walked[w.job]
            \/ w.pc # "stamp" /\ p[2] \in w.segs

\* The worker writes 'done' at the cap or with nothing left ahead.
DoneGrounds ==
    w.pc = "write" /\ w.target = "done" =>
        MaxReached(w.job) \/ Eligible(jobs[w.job].filters, jobs[w.job].last) = {}

WalkInv ==
    /\ TokenMeansWalked /\ DoneMeansWalked
    /\ BatchComplete /\ RouteSeen /\ DoneGrounds

-----------------------------------------------------------------------------
(* The job table implements BackfillProgress.                              *)

Progress == INSTANCE BackfillProgress WITH
    opened <- inserted,
    live   <- Running,
    filter <- [j \in Jobs |-> jobs[j].filters],
    done   <- [j \in Jobs |-> jobs[j].processed],
    token  <- [j \in Jobs |-> jobs[j].last]

\* Handlers, worker, crashes and failed statements together do nothing to
\* the progress of the jobs that the abstract specification does not allow.
ImplementsProgress == Progress!PSpec
=============================================================================
