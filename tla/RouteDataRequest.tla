-------------------------- MODULE RouteDataRequest --------------------------
(***************************************************************************)
(* Asking a device for the full-resolution files of a route: the POST and   *)
(* GET handlers of internal/api/route_data_request.go and the background    *)
(* dispatcher of internal/worker/route_data_request_dispatcher.go.  All     *)
(* three write the status of one row, none with a guard on the status it    *)
(* has, and POST calls the device before the row exists.                    *)
(*                                                                         *)
(* One route.  A file is a pair <<segment, name>>; a row keeps the set of   *)
(* files it asked for, of which the code only stores the number.  A         *)
(* definition named XMutant is X with a plausible bug, used only to show    *)
(* that a property can fail.                                                *)
(***************************************************************************)
EXTENDS Integers, FiniteSets

CONSTANTS
    Segs,           \* segments of the route the device may upload
    Kinds,          \* request kinds
    FilesForKind,   \* kind -> names of its files in a segment
    Posters,        \* POST requests in flight at once
    Pollers,        \* GET requests in flight at once
    MaxAttempts,    \* defaultDispatcherMaxAttempts
    BatchLimit,     \* defaultDispatcherBatchLimit
    MaxRows,        \* bound: rows ever inserted
    MaxFaults       \* bound: statements that fail, and process restarts

Ids   == 1 .. MaxRows
Names == UNION {FilesForKind[k] : k \in Kinds}
Files == Segs \X Names

ASSUME RequestAssumption ==
    /\ IsFiniteSet(Segs)
    /\ FilesForKind \in [Kinds -> SUBSET Names] /\ IsFiniteSet(Names)
    /\ MaxAttempts \in Nat \ {0} /\ BatchLimit \in Nat \ {0}
    /\ MaxRows \in Nat /\ MaxFaults \in Nat

VARIABLES
    rows,       \* route_data_requests, by id (the order of requested_at)
    inserted,   \* rows inserted so far
    known,      \* segments that have a row
    uploaded,   \* upload flags that are set
    covered,    \* history: files that arrived or the device was told to upload
    post,       \* per POST: progress and locals
    poll,       \* per GET: progress and locals
    d,          \* the dispatcher goroutine
    attempts,   \* its retry counts
    faults

vars == <<rows, inserted, known, uploaded, covered, post, poll, d, attempts, faults>>

Statuses == {"none", "pending", "dispatched", "complete", "failed"}
Outcomes == {"none", "ok", "error", "offline"}
NoKind   == "none"

RowRec  == [status : Statuses, kind : Kinds \cup {NoKind}, files : SUBSET Files,
            recent : BOOLEAN]
PostRec == [pc : {"idle", "dispatch", "insert"}, kind : Kinds \cup {NoKind},
            items : SUBSET Files, outcome : Outcomes]
PollRec == [pc : {"idle", "count", "write"}, id : 0 .. MaxRows]
DispRec == [pc : {"idle", "visit", "record"}, batch : SUBSET Ids,
            id : 0 .. MaxRows, outcome : Outcomes]

NoRow    == [status |-> "none", kind |-> NoKind, files |-> {}, recent |-> FALSE]
IdlePost == [pc |-> "idle", kind |-> NoKind, items |-> {}, outcome |-> "none"]
IdlePoll == [pc |-> "idle", id |-> 0]
IdleDisp == [pc |-> "idle", batch |-> {}, id |-> 0, outcome |-> "none"]

Init ==
    /\ rows = [i \in Ids |-> NoRow] /\ inserted = 0
    /\ known = {} /\ uploaded = {} /\ covered = {}
    /\ post = [p \in Posters |-> IdlePost]
    /\ poll = [q \in Pollers |-> IdlePoll]
    /\ d = IdleDisp
    /\ attempts = [i \in Ids |-> 0]
    /\ faults = 0

-----------------------------------------------------------------------------
\* The files of a kind over the segments that have a row.
Wanted(k) == {f \in Files : f[1] \in known /\ f[2] \in FilesForKind[k]}

\* BuildUploadItemsAt: those whose flag is not set.
BuildUploadItems(k) == Wanted(k) \ uploaded

\* countUploadedForKind: over all segments, whenever the files arrived.
CountUploaded(k) == Cardinality(Wanted(k) \cap uploaded)

EnoughMutant(row) == Cardinality(Wanted(row.kind)) >= Cardinality(row.files)

\* uploaded >= FilesRequested, the number of files that were missing when
\* the row was made.
Enough(row) == CountUploaded(row.kind) >= Cardinality(row.files)

\* GetLatestRouteDataRequestByRoute.
OfKind(k) == {i \in 1 .. inserted : rows[i].kind = k}
Latest(k, i) == i \in OfKind(k) /\ \A j \in OfKind(k) : j <= i

DuplicateMutant(k) ==              \* a request still waiting does not count
    \E i \in Ids : Latest(k, i) /\ rows[i].status \in {"dispatched", "complete"}
                                /\ rows[i].recent

\* The idempotency check of POST.
Duplicate(k) ==
    \E i \in Ids : Latest(k, i) /\ rows[i].status # "failed" /\ rows[i].recent

SetStatus(i, s) == rows' = [rows EXCEPT ![i] = [@ EXCEPT !.status = s]]

Fault == faults < MaxFaults /\ faults' = faults + 1

\* One RPC: the hub has no client, or the call succeeds, or it fails after
\* the device got it or before.
Rpc(items, outcome) ==
    \/ outcome = "offline" /\ UNCHANGED covered
    \/ outcome = "ok"      /\ covered' = covered \cup items
    \/ outcome = "error"   /\ covered' \in {covered, covered \cup items}

-----------------------------------------------------------------------------
(* POST.                                                                   *)

PostLookUp(p, k) ==
    /\ post[p].pc = "idle" /\ ~Duplicate(k)
    /\ post' = [post EXCEPT ![p] = [IdlePost EXCEPT !.pc = "dispatch", !.kind = k]]
    /\ UNCHANGED <<rows, inserted, known, uploaded, covered, poll, d, attempts, faults>>

\* ListSegmentsByRoute, then Dispatch, whose list may be empty.  An upload
\* between the two is an upload after both.
PostDispatch(p) ==
    /\ post[p].pc = "dispatch"
    /\ LET k == post[p].kind IN
       \E o \in Outcomes \ {"none"} :
          /\ Rpc(BuildUploadItems(k), o)
          /\ post' = [post EXCEPT ![p] = [pc |-> "insert", kind |-> k,
                                          items |-> BuildUploadItems(k), outcome |-> o]]
    /\ UNCHANGED <<rows, inserted, known, uploaded, poll, d, attempts, faults>>

InsertStatusMutant(o) == IF o = "offline" THEN "pending" ELSE "dispatched"

\* The switch on the outcome of Dispatch.
InsertStatus(o) ==
    CASE o = "offline" -> "pending" [] o = "error" -> "failed" [] OTHER -> "dispatched"

\* CreateRouteDataRequest.  MaxRows is a bound of the model only.
PostInsert(p) ==
    /\ post[p].pc = "insert"
    /\ \/ /\ inserted < MaxRows
          /\ inserted' = inserted + 1
          /\ rows' = [rows EXCEPT ![inserted + 1] =
                         [status |-> InsertStatus(post[p].outcome), kind |-> post[p].kind,
                          files |-> post[p].items, recent |-> TRUE]]
          /\ UNCHANGED faults
       \/ Fault /\ UNCHANGED <<rows, inserted>>
    /\ post' = [post EXCEPT ![p] = IdlePost]
    /\ UNCHANGED <<known, uploaded, covered, poll, d, attempts>>

\* A lookup or a list that fails: 500 before anything happened.
PostFails(p) ==
    /\ post[p].pc = "dispatch" /\ Fault
    /\ post' = [post EXCEPT ![p] = IdlePost]
    /\ UNCHANGED <<rows, inserted, known, uploaded, covered, poll, d, attempts>>

-----------------------------------------------------------------------------
(* GET, which also completes the row.                                      *)

PollRead(q, i) ==
    /\ poll[q].pc = "idle" /\ i <= inserted
    /\ rows[i].status \notin {"complete", "failed"} /\ rows[i].files # {}
    /\ poll' = [poll EXCEPT ![q] = [pc |-> "count", id |-> i]]
    /\ UNCHANGED <<rows, inserted, known, uploaded, covered, post, d, attempts, faults>>

\* The segments are read and counted.
PollCount(q) ==
    /\ poll[q].pc = "count"
    /\ poll' = IF Enough(rows[poll[q].id])
               THEN [poll EXCEPT ![q] = [@ EXCEPT !.pc = "write"]]
               ELSE [poll EXCEPT ![q] = IdlePoll]
    /\ UNCHANGED <<rows, inserted, known, uploaded, covered, post, d, attempts, faults>>

\* A write that fails is left to the next GET.
PollWrite(q) ==
    /\ poll[q].pc = "write"
    /\ \/ SetStatus(poll[q].id, "complete") /\ UNCHANGED faults
       \/ Fault /\ UNCHANGED rows
    /\ poll' = [poll EXCEPT ![q] = IdlePoll]
    /\ UNCHANGED <<inserted, known, uploaded, covered, post, d, attempts>>

-----------------------------------------------------------------------------
(* The dispatcher.                                                         *)

PendingMutant ==                   \* a row that was given up is tried again
    {i \in Ids : rows[i].status \in {"pending", "failed"}}

Pending == {i \in Ids : rows[i].status = "pending"}

\* ListPendingRouteDataRequests: the oldest BatchLimit of them.
Sweep ==
    /\ d.pc = "idle" /\ Pending # {}
    /\ d' = [IdleDisp EXCEPT !.pc = "visit",
                !.batch = {i \in Pending :
                              Cardinality({j \in Pending : j < i}) < BatchLimit}]
    /\ UNCHANGED <<rows, inserted, known, uploaded, covered, post, poll, attempts, faults>>

\* DispatchPending for the next row of the list, as it was when listed.  The
\* items are built from the segments of now; with none left the device is
\* not called.
DispatchPending ==
    /\ d.pc = "visit"
    /\ \E i \in d.batch :
          /\ \A j \in d.batch : i <= j
          /\ LET items == BuildUploadItems(rows[i].kind) IN
             \E o \in Outcomes \ {"none"} :
                /\ Rpc(items, o)
                /\ d' = [pc |-> "record", batch |-> d.batch \ {i}, id |-> i, outcome |-> o]
    /\ UNCHANGED <<rows, inserted, known, uploaded, post, poll, attempts, faults>>

Proceed == d' = [IdleDisp EXCEPT !.pc = IF d.batch = {} THEN "idle" ELSE "visit",
                                 !.batch = d.batch]

\* processRow after a dispatch that went well.
RecordDispatched ==
    /\ d.pc = "record" /\ d.outcome = "ok"
    /\ \/ /\ SetStatus(d.id, "dispatched")
          /\ attempts' = [attempts EXCEPT ![d.id] = 0]
          /\ UNCHANGED faults
       \/ Fault /\ UNCHANGED <<rows, attempts>>
    /\ Proceed
    /\ UNCHANGED <<inserted, known, uploaded, covered, post, poll>>

BumpMutant(i) == IF d.outcome = "offline" THEN attempts[i] ELSE attempts[i] + 1

Bump(i) == attempts[i] + 1

Spent(i) == Bump(i) >= MaxAttempts

\* ... and after one that did not: the budget is spent, or one more try.
RecordAttempt ==
    /\ d.pc = "record" /\ d.outcome \in {"error", "offline"}
    /\ IF Spent(d.id)
       THEN /\ attempts' = [attempts EXCEPT ![d.id] = 0]
            /\ \/ SetStatus(d.id, "failed") /\ UNCHANGED faults
               \/ Fault /\ UNCHANGED rows
       ELSE /\ attempts' = [attempts EXCEPT ![d.id] = Bump(d.id)]
            /\ UNCHANGED <<rows, faults>>
    /\ Proceed
    /\ UNCHANGED <<inserted, known, uploaded, covered, post, poll>>

Dispatcher == Sweep \/ DispatchPending \/ RecordDispatched \/ RecordAttempt

-----------------------------------------------------------------------------
(* The surroundings.                                                       *)

\* trackUpload: the segment row, and the flag of the file.  A file that no
\* kind asks for makes the row only.
Upload(s) ==
    /\ known' = known \cup {s}
    /\ \/ \E n \in Names : /\ uploaded' = uploaded \cup {<<s, n>>}
                          /\ covered' = covered \cup {<<s, n>>}
       \/ UNCHANGED <<uploaded, covered>>
    /\ UNCHANGED <<rows, inserted, post, poll, d, attempts, faults>>

\* The idempotency window of a row, and of all older ones, runs out.
WindowEnds(i) ==
    /\ rows[i].recent
    /\ rows' = [j \in Ids |-> IF j <= i THEN [rows[j] EXCEPT !.recent = FALSE]
                              ELSE rows[j]]
    /\ UNCHANGED <<inserted, known, uploaded, covered, post, poll, d, attempts, faults>>

\* The process restarts: handlers and retry counts are gone.
Crash ==
    /\ Fault
    /\ post' = [p \in Posters |-> IdlePost]
    /\ poll' = [q \in Pollers |-> IdlePoll]
    /\ d' = IdleDisp
    /\ attempts' = [i \in Ids |-> 0]
    /\ UNCHANGED <<rows, inserted, known, uploaded, covered>>

Handlers ==
    \/ \E p \in Posters : \/ \E k \in Kinds : PostLookUp(p, k)
                          \/ PostDispatch(p) \/ PostInsert(p) \/ PostFails(p)
    \/ \E q \in Pollers : \/ \E i \in Ids : PollRead(q, i)
                          \/ PollCount(q) \/ PollWrite(q)

Next ==
    \/ Handlers \/ Dispatcher
    \/ \E s \in Segs : Upload(s)
    \/ \E i \in Ids : WindowEnds(i)
    \/ Crash

Spec == Init /\ [][Next]_vars

\* The poll timer fires and an RPC returns within its timeout.
FairSpec == Spec /\ WF_vars(Dispatcher)

-----------------------------------------------------------------------------
(* Properties.                                                             *)

\* The columns of the table and the locals of the goroutines; a row's retry
\* count stays below the budget.
TypeOK ==
    /\ rows \in [Ids -> RowRec]
    /\ inserted \in 0 .. MaxRows
    /\ known \subseteq Segs /\ uploaded \subseteq Files /\ covered \subseteq Files
    /\ post \in [Posters -> PostRec]
    /\ poll \in [Pollers -> PollRec]
    /\ d \in DispRec
    /\ attempts \in [Ids -> 0 .. MaxAttempts - 1]
    /\ faults \in 0 .. MaxFaults

\* A row is 'dispatched' only if the device was told of every file the row
\* asked for, save those that arrived by themselves before the device was
\* back (DispatchPending rebuilds the batch from the segments of now).
DispatchedMeansAsked ==
    \A i \in Ids : rows[i].status = "dispatched" => rows[i].files \subseteq covered

\* A row is 'complete' only if as many files of its kind are there as it
\* asked for, however GET, dispatcher and uploads interleave.
HasEnough(row) ==
    Cardinality(Wanted(row.kind) \cap uploaded) >= Cardinality(row.files)

CompleteMeansEnough ==
    \A i \in Ids : rows[i].status = "complete" => HasEnough(rows[i])

\* POSTs that come one at a time leave at most one request of a kind under
\* way within the idempotency window, whatever GET and dispatcher write in
\* between.  Two POSTs at once can leave any number: each may look up the
\* other's failed row and put its own in front of a request under way.
InFlight(k) == {i \in Ids : /\ rows[i].kind = k /\ rows[i].recent
                            /\ rows[i].status \in {"pending", "dispatched"}}

OneAtATime == \A p, q \in Posters : p = q

InFlightBounded == OneAtATime => \A k \in Kinds : \A i, j \in InFlight(k) : i = j

\* No row waits for ever: the retry budget gets it out of the way of the
\* rows behind it, whether or not the device comes back.
PendingLeaves == \A i \in Ids : rows[i].status = "pending" ~> rows[i].status # "pending"

\* Comment in GetFullDataRequest: "Auto-complete: when every requested file
\* has uploaded".
CompleteMeansUploaded ==
    \A i \in Ids : rows[i].status = "complete" => rows[i].files \subseteq uploaded

\* The strengthening: what the goroutines hold matches the rows and the files.
\* A POST whose call succeeded has asked for its items; a GET about to complete
\* a row has counted enough files; the dispatcher's last success covers its row.
RowNumbered(row) ==
    /\ row.kind \in Kinds
    /\ \A f \in row.files : f[1] \in known /\ f[2] \in FilesForKind[row.kind]

RowsNumbered ==
    /\ \A i \in Ids : IF i <= inserted THEN RowNumbered(rows[i]) ELSE rows[i].status = "none"
    /\ uploaded \subseteq covered

PostCovered ==
    \A p \in Posters :
        /\ post[p].outcome = "ok" => post[p].items \subseteq covered
        /\ post[p].pc = "insert" => post[p].outcome # "none"
        /\ post[p].pc # "idle" => RowNumbered([kind |-> post[p].kind, files |-> post[p].items])

PollCounted ==
    \A q \in Pollers :
        /\ poll[q].pc # "idle" => poll[q].id \in 1 .. inserted
        /\ poll[q].pc = "write" => HasEnough(rows[poll[q].id])

DispatcherCovered ==
    /\ d.batch \subseteq 1 .. inserted
    /\ d.pc = "record" => d.id \in 1 .. inserted
    /\ d.outcome = "ok" => d.pc = "record" /\ rows[d.id].files \subseteq covered

RequestInv ==
    /\ TypeOK /\ DispatchedMeansAsked /\ CompleteMeansEnough
    /\ RowsNumbered /\ PostCovered /\ PollCounted /\ DispatcherCovered

\* A row POST may pass over: out of the window, or ended and out of the
\* dispatcher's hands, which alone could bring it back.
Held(i) == \/ i \in d.batch
           \/ d.pc = "record" /\ d.id = i

Settled(i) ==
    \/ ~rows[i].recent
    \/ rows[i].status \in {"failed", "complete"} /\ ~Held(i)

\* Only the dispatcher gives up a row, and it lets go of it then.
HeldOpen ==
    /\ \A i \in Ids : Held(i) => rows[i].status \in {"pending", "complete"}
    /\ d.pc = "record" => d.id \notin d.batch

\* Rows with a later one of their kind are settled, and so are all rows of a
\* kind that a POST is about to insert one of.
OthersSettled ==
    \A i, j \in 1 .. inserted : rows[i].kind = rows[j].kind /\ i < j => Settled(i)

PostSettled ==
    \A p \in Posters : post[p].pc # "idle" =>
        \A i \in 1 .. inserted : rows[i].kind = post[p].kind => Settled(i)

WindowInv == HeldOpen /\ OthersSettled /\ PostSettled

\* What the unguarded writes of POST, GET and dispatcher come to: no row is
\* put back to wait, one that is dispatched or given up can only be completed,
\* and a complete one is only undone by the dispatcher, which listed it before
\* GET completed it.
RowLife ==
    [][\A i \in Ids :
          LET old == rows[i].status
              new == rows'[i].status
          IN new # old => /\ new = "pending" => old = "none"
                          /\ old \in {"dispatched", "failed"} => new = "complete"
                          /\ old = "complete" => d.pc = "record" /\ d.id = i]_vars
=============================================================================
