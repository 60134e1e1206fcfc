# Specifications of the comma personal backend

TLA+ modules, TLC configurations and TLAPS proofs for the Go server in `src/`:
a self-hosted backend that comma devices connect to, upload drives to and take
commands from, and that derives trips, events, turns, thumbnails, HLS video and
licence-plate encounters from what they upload.

Most of its hazards are of one kind: goroutines and HTTP handlers that read a
row, a map or a directory, do something slow, and write back. The modules
therefore split an operation where another goroutine can come between (at each
SQL statement, each lock section, each channel operation) and keep everything
between two such points in one action.

## Inventory

| Part | State | Operations | Interacts with | Hard behaviour | What makes it correct |
|---|---|---|---|---|---|
| ALPR backfill (`worker/alpr_backfill.go`, `api/alpr_backfill.go`) | `alpr_backfill_jobs` rows, segment progress marks | start, pause, resume, cancel; a worker that walks routes | settings, live extractor, detector channel | stale reads before writes, crash in mid-route, statement failures | one running job; the cap; the resume token loses and repeats nothing; a pause takes effect |
| WebSocket hub (`ws/hub.go`, `ws/client.go`, `ws/handler.go`) | dongle id to connection, one gauge | register, unregister, two pumps per connection, close | handlers that call devices | reconnect while the old connection ends, close after unlock | the entry is the newest connection; what was replaced closes; no goroutine is left |
| Server to device RPC (`ws/methods.go`) | pending table, request counter, one channel per call | call, response, timeout, disconnect | hub, send channel | late, repeated and lost answers, full channel | an answer reaches its own call only; the table is exact; every call returns |
| Route data requests (`api/route_data_request.go`, `worker/route_data_request_dispatcher.go`) | one row per request, attempts in memory | POST, polling GET, background dispatch with retry | RPC, uploads | three writers of one status, retry of what was done | a status claims no more than was asked and sent; no row waits for ever |
| Upload and storage (`api/upload.go`, `storage/storage.go`) | files, route and segment rows with flags | PUT of a file: truncate, copy, then three statements of tracking | everything that reads files | repeated PUT, copy failure, file before row, a foreign key that refuses | a flag set means that a file which sets it was stored; no file without a row |
| Retention (`worker/cleanup.go`, preserve switch in `api/route.go`) | the rows listed by a pass | list, remove the directory, delete the row | uploads into the same directory | the list is stale when the delete runs; one half fails | what is left can be found by the next pass |
| Transcoder (`worker/transcoder.go`) | queue, in-flight set, HLS directories | scan, enqueue, stream copy, re-encode, package | uploads, cleanup | full queue, input on its way or removed, partial outputs | one writer per clip; no partial playlist kept; every video gets one |
| Redaction builder (`worker/redaction_builder.go`) | queue, in-flight set, blurred variants | trigger by a viewer, load detections, build segments | share links, detections | triggers while building, early ends | one build per route, and none left in flight |
| ALPR pipeline (`worker/alpr_extractor.go`, `alpr_detector.go`) | bounded channels, marks, in-flight set, emitted set | extract, detect, complete | backfill, aggregator | drops on a full channel, marks before effects, once-only emission | no segment in two hands, a mark hides only frames lost on the way, an announced route is done |
| Encounters (`worker/alpr_aggregator.go`, `api/alpr_corrections.go`) | detections, encounters per route | aggregate a route; edit a detection; merge two plates | turns, heuristic | events dropped on full channels, corrections between two reads | the encounters are what the detections give, cut at the gap |
| Heuristic and watchlist (`alpr/heuristic`, `api/alpr_watchlist.go`, `api/alpr_reevaluate.go`) | watchlist rows | evaluate, acknowledge, whitelist, re-evaluate | encounters, notifications | three statements per evaluation, operator in between | no plate under-alerted; no unknown alert acknowledged; the whitelist holds |
| Notifications (`alpr/notify`, `cmd/server/alpr_notify.go`) | ledger of what was sent | threshold, deduplicate, send, record | heuristic, senders | crash or failure between send and record | one notice per window |
| Derivation (`route_metadata.go`, `trip_aggregator.go`, `event_detector.go`, `turn_detector.go`) | columns of routes, trips, events, turns | list, read, write | uploads, cleanup, each other | values listed early and written late, stamps before the input is complete | derived rows say what their sources say |
| Thumbnails (`worker/thumbnail.go`) | queue, in-flight set, a picture or a failure marker beside the video | scan the newest routes, enqueue, take a frame, mark or clear | uploads, cleanup | full queue, a failure that cools down, an earlier segment arriving late, a directory that goes | a route is queued once and given back once; every route gets its preview |
| Plate retention (`worker/alpr_cleanup.go`) | the flagged plates read by a pass | list, delete unflagged detections, delete old ones, delete orphaned encounters | watchlist, aggregator, corrections | the list is old when the deletes run; one delete fails and the next runs; the aggregator writes back what it read | no encounter without a detection |
| Pairing, sessions, share links, signed URLs | none beyond rows | one request each | middleware | none over several steps | not modelled |
| Query endpoints, exports, settings, sidecar, web | rows | one request each | database | none over several steps | not modelled |

`PROJECT.json` lists every part with its status, and every hazard at its line.

## Modules

| Module | Models |
|---|---|
| `AlprBackfill` | the backfill: table, handlers, worker, restarts |
| `BackfillProgress` | what the backfill promises about progress, without worker or handlers |
| `MCAlprBackfill` | its instances |
| `AlprBackfill_proofs` | its theorems |
| `WsHub` | the hub and the pumps of each connection |
| `MCWsHub` | its instance; its theorems are in `WsRpc_proofs` |
| `WsRpc` | calls over the hub's connections; extends `WsHub` |
| `MCWsRpc`, `WsRpc_proofs` | its instance; theorems of both |
| `RouteDataRequest` | asking a device for files: POST, GET, dispatcher |
| `MCRouteDataRequest`, `RouteDataRequest_proofs` | its instances and theorems |
| `SingleFlight` | what a pool with an in-flight set promises; the extractor, the transcoder, the redaction builder and the thumbnailer implement it |
| `AlprPipeline` | one route's video from upload to completion event |
| `MCAlprPipeline`, `AlprPipeline_proofs` | its instances and theorems |
| `PlateEncounters` | from detections to encounters: aggregator, turns, corrections |
| `PlateScore` | the scoring rules, as functions of a set of encounters |
| `PlateAlerts` | heuristic, watchlist, merge and notifications; extends both |
| `PlateRetention` | the nightly deletes of plate data beside all of that; extends `PlateAlerts` |
| `MCPlateAlerts`, `PlateAlerts_proofs` | instance and theorems of the four together |
| `RouteStore` | uploads, rows, flags, preserve switch, retention cleanup |
| `RouteMedia` | transcoder and redaction builder, over the files of `RouteStore` |
| `RouteThumbs` | the thumbnailer, over the files of `RouteStore` |
| `RouteDerived` | metadata, trips, events and turns, over its files and rows |
| `RouteUpkeep` | the four together, with restart, fairness and liveness |
| `MCRouteUpkeep` | its instance |
| `RouteStore_proofs`, `RouteMedia_proofs`, `RouteDerived_proofs` | theorems about `RouteUpkeep`'s specification |

A definition called `XMutant` is `X` with one plausible bug. No specification
uses it: it records that the property named beside it in `PROJECT.json` fails
when the code has that bug.

### AlprBackfill

`jobs` is the table, by id; `inserted` the highest id, so the row
`GetLatestBackfillJob` returns is `jobs[inserted]`. A handler is two or three
statements: `StartCheck` and `StartInsert`; `PauseRead` and `PauseWrite`, and
the like. What a handler remembers between them is `handler[h]`. The worker is
one goroutine with its program counter and locals in `w`. `runOnce`,
`processJob` and `processRoute` become the actions named after their
statements: `RunOnce`, `Gate` (the `alpr_enabled` setting), `Reread` and
`RereadGate`, `FetchRouteBatch`, `MidBatch`, `StartRoute`, `SegmentCheck`,
`ReadProgress`, `ProcessSegment` (ffmpeg and the pushes of its frames),
`MarkExtractorProcessed`, `IncrementProgress`, `WorkerSetState`. With
`DbMayFail` each statement can also fail, and takes the branch the code takes
then. `Crash` restarts the process: only the table and the marks survive.

Routes are numbers in the order of their names, `NameOf` gives the rank of the
name alone, because that is what `last_processed_route` keeps; two devices can
share a name. A filter is the set of routes it selects, the order and the cap:
the date, dongle and id filters of a request only choose that set. Time,
throttling of frames, the ETA and the JSON shapes are left out. `walked` and
`grace` are history and no guard reads them.

### WsHub

`Register` and `Unregister` are the lock sections. `CloseExisting`,
`RegisterGauge` and `UnregisterGauge` are what the code does after unlocking.
`pc` is the goroutine of a connection, from `HandleWebSocket` through
`readPump`, and `writer` its `writePump`; `done` is the closed channel and with
it the closed socket. `ReadFails` covers the peer leaving, the missed pong and
the local close. `HandleSunnylinkWebSocket` has the same steps in the same hub,
under the sunnylink id of the device, which is an entry of its own.

### WsRpc

Adds to the hub the callers of `doCall`, the pending table, the send channel of
capacity `SendCap`, and a device that answers any request it ever received,
late, again, over a later connection, or never. A request is `<<id, position>>`,
where the position identifies the call and the code compares only the id.
`LookUp` is `HandleResponse` under the lock, `Deliver` the non-blocking send
after it. Parameters and results carry no information the properties need.

### RouteDataRequest

`rows` is `route_data_requests` for one route, `known` the segments that have a
row and `uploaded` their flags, as pairs of segment and file name. A row keeps
the set of files it asked for; the code keeps their number, and `Enough` only
uses that. A POST is `PostLookUp` (the idempotency check), `PostDispatch` (list
the segments, call the device) and `PostInsert`; a GET is `PollRead`,
`PollCount` and `PollWrite`; the dispatcher is `Sweep`, then for each row it
listed `DispatchPending` and `RecordDispatched` or `RecordAttempt`. None of the
three writers looks at the status it replaces, so a complete row can become
'dispatched' or 'failed' again when the dispatcher listed it before; `RowLife` says
that this, and a late 'complete', is all that can happen. `Rpc` is
what `WsRpc` specifies, seen from its caller: no connection, an answer, or an
error after the device got the batch or before. `covered` is history: what the device was told to send, and what it
sent. An in-progress upload (`fcamera.hevc~`) sets the same flag as the
finished file, so a flag here means that an upload was recorded.
`WindowEnds` is the hour of `idempotencyWindow` passing.

### AlprPipeline

One route. `file` is `fcamera.hevc` on disk: `StoreBegin` is `os.Create`, from
which moment `Exists` is true, `StoreEnd` the end of the copy, `TrackUpload` the
flag. `scan` is the extractor's scanner: `ScanCheck` is `segmentNeedsExtract` up
to its query, `ScanClaim` its lock section, `ScanSend` the blocking send, and
"check, segment 1" the sleep between two passes. `ext[w]` is a worker:
`ExtTake`, `PushFrame`, then `MarkExtractor` or `FFmpegFails`, then `Release`.
`held` is the frame the detector's loop has received and not yet a slot for,
`task[d]` the goroutine of slot `d`, one action per call it makes. `Upset`
counts whatever goes wrong: a failed upload, query, ffmpeg run, mark or engine
call, a failed read of `alpr_enabled` (in `ExtTake` and `Receive`) or a switch of it,
a restart (`Crash`).

A segment has `FramesPer` frames; from a file that is still being written ffmpeg
reads any number of them and exits cleanly all the same, and `cut` remembers the
segments marked like that. `answered` is the frames the engine has answered, `lost`
those that were dropped while the setting was off or unreadable, whose engine call failed,
or that a restart took. A mark does hide `lost` frames: nothing extracts the segment
again, and `MarkHidesOnlyLost` says that it hides no others. The route's row exists and is
among the recent ones; a whole file is not uploaded again; frame offsets, GPS
and plates are left out, and with them the rows: `Engine` stands for the call
and the inserts that follow it.

### SingleFlight

Four pools of the server are written around a map of what is in flight and a
channel: extractor, transcoder, redaction builder, thumbnailer. `SingleFlight`
says what they have in common, with no queue, capacity or stage of work: `Claim`,
`Start`, `Finish`, and `Lose` when the process ends. The mappings are
`Extracting` (in `AlprPipeline`), `Transcoding` and `Building` (`RouteMedia`) and
`Shooting` (`RouteThumbs`): `claims` is the in-flight set, `hand` the item of a
worker whose state is not idle, `waiting` the queue. For the extractor, `waiting`
also holds the segment the scanner has claimed and is still sending, because its send blocks.
A job that finds the queue full is no step: the code puts it into the set, fails to send and
takes it out again in a second lock section. The modules take the two as one, because all that can
come between is another attempt for the same item, which is refused just as it would be by
the full queue. So the refinement says more than "never two hands": a
claim goes only when the hand that had the item is done, on every path by which it ends.

### PlateEncounters, PlateScore, PlateAlerts

`plate` is the column of `plate_detections` that everything else is computed
from; `enc[r]` are the encounters of a route, which `Persist` deletes and
inserts in one transaction. `held` is the completion event that `Run` has
received and has no slot for, `agg[w]` the goroutine of slot `w`: `ListDetections`,
`CountTurns`, `Persist` (the computation and its transaction) and `EmitUpdate`,
each of which can fail (`GiveUp`). `EncountersOf` is `computeEncounters`: the
detections in order of time (`Latest` is the last of them in the order of the
code's sort), cut where the gap is exceeded. `PlateWalk` is a recursive function on
sets of detections, so that it can be reasoned about. `corr[h]` is a
corrections request: `EditLoad`, `EditTx`, `EditCollect`, `Retrigger`. A merge
reads the routes (`MergeRoutes`) and both watchlist rows (`MergeRows`) before
its transaction (`MergeTx`); `Collides` is the unique key that
makes the transaction fail when both plates have an encounter at the same
place. `UpdateCap` stands for the channel behind the aggregator and the bridge
that copies it in `cmd/server/workers.go`.

`eval[e]` is one `EvaluatePlate`: it scores the encounters (`Begin`), reads the
row (`ReadRow`), writes it (`WriteRow`, by the plain upsert or the one that
preserves the acknowledgement), and emits (`EmitAlert`). `Api` is the
re-evaluation request, which does not go through the semaphore. `disp` is the
one goroutine that takes alerts: `TakeAlert` (threshold, whitelist),
`CheckDedup`, `Send`, `Record`. The scores are exact functions of encounters in
`PlateScore`; points are counted in halves and times in one unit.

`Plans` holds what the operator may ask for, in any order, and how much may
fail: the behaviours of one plan are all interleavings of its requests with the
workers. `stale` and `missed` are routes whose encounters nothing will
recompute, `owed` plates whose evaluation was lost, `lowered` plates whose
severity an older evaluation lowered, `seen` what the operator acknowledged,
`sent` and `twice` what went out. Of these only `sent` is read by a guard, in
`WindowEnds`.

### PlateRetention

`sweep` is the pass: `ListFlagged` (the tick and the one read of the watchlist),
`DeleteUnflagged`, `DeleteFlagged`, `DeleteOrphans`, each a statement that may
fail without stopping the next. A deleted detection has the plate `Pruned`, and
an edit that has loaded it updates no row. `Cutoff` and `Ceiling` are the two
retention windows as times of detections, 0 for "never". The deletes send no
event, so they make a route `stale`; `swept` is history: the routes from which
the pass has removed the orphans, until one of their detections changes. The
fourth delete, of old `plate_alert_events`, is left out with that table.

### RouteStore

`up[u]` is a handler of `PUT /upload`: `UploadStart` is `os.Create`, which
truncates what is there; `Copied` and `CopyFails` the end of the copy, the
latter with its `os.Remove`; then `GetOrCreateRoute`, `CreateSegment` and
`SetFlag`, any of which can fail without the device hearing of it
(`TrackFails`). `mine` says that the path still leads to the file this handler
opened. Two names can set one flag (`FlagOf`): an upload in progress, `fcamera.hevc~`,
sets that of the finished video (`upload.go:56`), so a flag says that one of
its files is stored, and not which. `clean` is the cleanup pass: `ListStale`, `RemoveFiles`, `DeleteRow`.
Ids are given once (`lastRow`), and a statement by an old id changes nothing or
is refused by the foreign key. `resent`, `overtaken` and `untracked` are history:
files sent again, files on their way while their route was deleted, files
whose tracking failed.

### RouteMedia

The scanner (`ScanStart`, `ScanClip`, `Enqueue`), the pool (`TakeJob`,
`StartCamera`, `FirstChunk`, `FfmpegDone`, `FfmpegFails`, `FinishJob`) and the
stages of a camera: stream copy, second try with an encoder, packaging. `hls` is
the playlist on disk, "part" while only some of it is there. The redaction
builder is `View` (a share link that finds no variant triggers the route),
`TakeRoute`, `LoadDetections`, `BuildSegment`, `BuildFails`, `FinishRoute`.
`MediaWatch` is what the removal of a directory does to both. `broken` is
history: playlists of inputs that were cut, of re-encodes that failed, of killed
servers.

### RouteThumbs

`ThumbPass` lists the newest routes, `Consider` is one turn of that loop (choice of
the segment, both markers, `Enqueue`), `TakeShot` to `ClearFailure` the generator:
take a job, look for the video, run ffmpeg, then clear or write the marker
and leave the in-flight set. `cooling` are the segments with a marker younger than
half an hour, `CoolsDown` its end. ffmpeg succeeds on a whole video unless
something is upset, and may do either on one that is cut or gone.
`ThumbWatch` is what the store does meanwhile.

### RouteDerived

`times` and `track` are the columns the metadata worker writes, `trip`,
`events` and `turns` the tables; a value is the set of segments it was computed
from. `job[w]` is the pass of a worker: `List` with its query (`NeedsMetadata`,
`NeedsTrip`, `NeedsEvents`, `NeedsTurns`, `HasTrack`) and limit, `Read`, then
`WriteMetadata`, `WriteTrip`, `WriteEvents` and `MarkEvents`, or `WriteTurns`. An
entry keeps the id and the times of the row as listed; a pass takes its entries in the
order of its query (`Before`). The logs of a route are read as one stream, so a log that
is cut (`CutLogs`) makes the whole read fail, in every pass, or counts as far as it goes;
a directory that is gone cannot be listed (`Unreadable`). A trip has a foreign key
and goes with its route; turns are stored by the route's name and stay. `late` and `reused` are history:
logs that came when their events were being computed or after, and names of
deleted routes with turns.

### RouteUpkeep

Puts the four together: a step of the store is one step with `MediaWatch` and
`DerivedWatch`, the effects it has on the others' state. A scenario says which workers are switched on
(`cmd/server/workers.go` reads a switch for each), what is there at the start,
and what may still be sent or fail, so that the state spaces of unrelated workers
add instead of multiplying.

## Runs

| Run | Instance | Shows |
|---|---|---|
| `backfill_safe` | 2 jobs, 2 routes of one segment, an unlimited and a newest-first cap-1 filter, 2 concurrent requests, 3 requests, 1 restart, failing statements | one running job, the cap, no segment passed over, and the refinement of `BackfillProgress`: count and token only advance |
| `backfill_live` | fair; second route of two segments, batches of 1, one request at a time, 4 requests, a toggle, a restart | the worker starts at most one more segment after a job left 'running'; it comes to rest |
| `backfill_pause_skips` (violation) | one job, start, pause | a pause in mid-route stamps the route as done |
| `backfill_cancel_lost` (violation) | start and cancel | the worker overwrites a cancel |
| `hub` | one device connecting three times, fair | map, replaced connections, both pumps end |
| `rpc` | fair; 2 callers, 2 calls, 1 connection, channel of 1, 2 answers | answers reach their own call, the table is exact, every call returns, no answer holds up the reader |
| `request` | fair; one kind of one file, 2 segments, 1 POST and 1 GET at a time, 2 rows, 2 attempts, batches of 1, 1 failing statement or restart | dispatched rows were asked for, complete rows have their count, requests of one window are bounded, every pending row leaves 'pending', no row returns to it and only the dispatcher undoes a complete one |
| `request_early` (violation) | one segment, a kind of two files | a row is complete while a file it asked for is missing |
| `pipeline` | 2 segments of 1 frame, channel of 1, 1 worker, 2 detector goroutines, 1 upset | no segment in two hands; a mark hides only frames that were lost, and none is lost without an upset; the probe's counts speak for the sets; nothing locks up |
| `pipeline_silent` (violation) | 2 segments of 2 frames, no upset | a complete route is never announced |
| `alerts` | 2 drives, 6 detections of which one is still to come, 2 plates, one slot each, channels of 1 and 2; 8 plans of up to 3 operator requests, a pass of the retention or one upset | encounters follow the detections and go with them, alerts the encounters; acknowledgements, whitelist and notification window hold |
| `upkeep` | fair; 2 routes of 2 segments, 2 handlers, 2 transcoder workers and a thumbnail generator with queues of 1, one builder, batches of 1; 13 scenarios with up to 3 upsets | flags and rows agree with files, the three pools implement `SingleFlight`, whole playlists, derived rows agree with their sources, videos, tracks and previews are picked up |

Why these bounds are enough: the backfill hazards need one request between two
statements of the worker, at most two concurrent requests, two jobs (the second
to compete with the first for 'running'), two routes (a batch that ends or goes
on) and two segments (a stop between them). The hub's hazards need a connection, the
one that replaces it and one that replaces that. A foreign answer needs
two calls under way and an answer that comes late or twice; the reconnect under
calls is covered by the theorem that `WsRpc` implements `WsHub`, and the theorems
hold for any number of calls. A request needs a POST, a GET and the dispatcher over the same row, a second row that
waits behind it in a batch of one, and a file that arrives between two of their
steps; the safety properties were also checked with two POSTs at once. The
pipeline needs a segment that waits while another is worked on, channels that
are full with one element, two goroutines that probe at the same time, and one
failure; a segment of one frame can still fail before and after its push. The
run does not check for deadlock, because with the setting off and no upset left
the model, like the code, has nothing to do; `ClaimMovesOn` says instead that
whoever holds a claim can go on.

`backfill_live` does not let statements fail: `processRoute` ignores a read of
the job row that fails and goes on with the next segment, so a pause is then
not honoured until a read succeeds (the comment in the code accepts this). It
serves one request at a time because a Start between the read and the write of
a Resume leaves a running job that is not the latest, which no handler can
reach. `TokenMeansWalked` counts a segment the worker left because it saw the
job stopped; that such a route is stamped all the same is the first violation.
`NameOf` gives the two routes different ranks: with one rank, `DoneMeansWalked`
fails, because the resume token is the bare `route_name`
(`sql/queries/alpr_backfill_jobs.sql`) and a second device's route of that name
is behind it. `Pause`, `Resume` and `Cancel` also write over states they did not read
(a pause can turn 'done' into 'paused'); the safety properties hold despite it.

`alerts` needs two routes (one threshold counts them), a plate read in both, a
detection still to come (its route changes while corrections are under way), and
two plates to merge. One evaluation slot and the re-evaluation request make two
evaluations of one plate; the aggregator has one slot, its default
(`cmd/server/workers.go:317`), and with more the encounters of a route can come
from the older of two reads. The properties of `alerts` except what the code
gives up on purpose or by omission, and the exceptions are the history variables:
a route whose event was dropped (`stale`) is never aggregated again until another
event names it, a plate whose evaluation was lost (`owed`) has no alert until
then, and an evaluation with older encounters can lower a severity (`lowered`),
although the comment at `heuristic/worker.go:436` says a lower score never
demotes. The pass of the retention meets one failure or one correction; two detections
of the first drive are older than its cutoff, one of them beyond the ceiling, and the
third can, once corrected, keep the encounter they began. The run does not check for deadlock: when the plan is done, the server waits.

`upkeep` needs a file sent twice by two handlers around a cleanup, a route
deleted and made again under the same name, two clips for a queue of one, a
removal under ffmpeg, and logs that come before, between and after the passes of
the four workers; for previews, two routes for a queue of one, a first segment that
arrives after a later one was queued, a failure, and a directory that goes under
ffmpeg. Its liveness properties are stated as `[]<>(\A ...)`: again and
again there is a moment at which every video that should be packaged is. They
have side conditions that the code needs: fewer incomplete videos than the queue is deep, fewer
routes without a fix than a batch takes; with as many, later clips or routes
starve. A track also needs that no log of its route is left cut: the parser ends the
whole route with an error then, in every pass, and one log that a killed server left behind
keeps the route from its track although another is whole and has a fix. A preview is promised to the newest `ThumbLimit` routes only. The limit of
200 routes of the transcoder's scanner is left out, ids stand for the
order of creation, a directory is removed in one step, and a child ffmpeg that
survives the death of the server is ignored.

The last violation and its opposite: the completion probe runs after each frame
and never otherwise. When the detector is faster than the extractor's mark, the
event is never sent (`pipeline_silent`). When it is slower, the event is sent
with the first frame finished after the last mark, and the aggregator lists the
detections while the frames behind it are still on their way: by the theorem
`PipelineEventMissesOnly` it misses at most the channel's 32, the one in the receive
loop, those of the other goroutines, and what was lost. `CountsMeanSets` assumes that every marked segment is flagged;
a file on disk without its flag (a failed `trackUpload`) breaks the comparison.

## Fairness

The worker is one goroutine whose `select` always has the `IdlePoll` timer, and
Go's scheduler is fair, so `Worker` is weakly fair; a handler that has begun
runs on. No request, toggle of a setting or restart is ever owed, and restarts
are bounded. For the hub, goroutines are scheduled (`Serve`, `Write`) and a read
from a closed socket fails (`ReadFails` once `done`); a device never has to
connect, and an open socket never has to fail. For RPC, `doCall` has
`time.After` in its select, so it always goes on; the device owes no answer.
The request dispatcher has a ticker, and its call ends by that timeout, so
`Dispatcher` is weakly fair; no POST, GET or upload is. In `RouteUpkeep` the
scanners, the transcoder workers, the thumbnail generator and the derivation workers that are
switched on go round on tickers, an ffmpeg whose input was removed ends, a failed
preview is half an hour old at some time, and a route settles when
five minutes have passed; no upload, cleanup, failure or restart is owed.

## Proofs

All are for every number of jobs, routes, devices, connections, calls,
segments, frames, workers and failures, and
from the assumptions `BackfillAssumption`, `HubAssumption`, `RpcAssumption`,
`RequestAssumption`, `PipelineAssumption`, `EncountersAssumption`, `AlertsAssumption`,
`RetentionAssumption`, `StoreConstants`, `DerivedConstants` and
`UpkeepConstants`, with `MediaConstants` and `ThumbConstants`. The type invariants are theorems
(`BackfillType`, `HubType`, `RpcType`, `RequestType`, `PipelineType`, `AlertsType`, `UpkeepType`),
so the runs do not repeat them. Some theorems have a hypothesis beyond these;
each is named below with its reason.

`AlprBackfill_proofs`: `IInv` is inductive (`BackfillInductive`). `OneRunning` alone follows from
the unique index (`UniqueViolation`) and the check in `StartInsert`, whatever the
handlers read. `CapRespected` is not inductive: the count is compared before a
route and incremented after it, so `RouteAhead` keeps "below the cap" true from
one to the other, which needs that no one else writes the count. That
needs `RowsMatch` (the worker's job is an inserted row, so `StartInsert` cannot replace it).
The refinement (`BackfillImplements`) uses the same facts: `RouteAhead` is the
guard of `Advance`, and each other step is `Open`, `Rest`, `Rouse` or a
stutter.

`PauseHonoured` (`BackfillPause`) is proved for `DbMayFail = FALSE`: `processRoute` ignores a
read of the job row that fails and begins the next segment, so with failing
reads it is false. `PauseInv` adds that a running job has no segment begun after
its stop (a Resume may not inherit one), and that the worker turns to a segment only
after it has seen its job running. The theorem holds for any number of requests
at once; the run needs fewer only for `Settles`.

`TokenMeansWalked` and `DoneMeansWalked` are proved for `DistinctNames`: the resume
token is a bare `route_name`, and a route of another device with that name is
behind it. Neither is inductive. `WalkInv` adds what the worker holds while it
walks: an eligible route ahead of the token is in the batch, seen, or comes after all
of the batch (`BatchComplete`), of the route under way only the segments still held are
unseen, and none when it is about to be stamped (`RouteSeen`), and the worker is about
to write 'done' only at the cap or with nothing left ahead (`DoneGrounds`).

`WsRpc_proofs` begins with the hub: `HubInv` adds to the two safety properties that what `Register`
holds as `existing` belongs to the same device. `RpcImplementsHub` shows that every step of the larger
specification is a step of `WsHub` or leaves it alone, so the hub's theorems hold
of it. `AnswerIsOwn` is not inductive: `IdsAreOwn` says that a request carries its own
id wherever it is (table, send channel, device, inbox, lookup result) and that ids
stay below the counter.

`RouteDataRequest_proofs`: `RequestInv` adds what each goroutine holds between
its statements: a POST whose call succeeded has asked for its items
(`PostCovered`), a GET about to write has counted enough files (`PollCounted`),
the dispatcher's last success covers its row (`DispatcherCovered`), and a row's
files lie in segments that exist (`RowsNumbered`). `CompleteMeansEnough` then
needs that nothing is ever taken away: every step is `Growing`, and `Frame` says
what such a step cannot disturb.

`InFlightBounded` speaks of POSTs served one at a time (`OneAtATime`), which is part
of the property: two at once may each look up the other's failed row. The statuses alone
do not give it, because GET and dispatcher write a row without looking and can
bring an ended one back. `WindowInv` says when they cannot: of the rows of a kind
all but the newest are `Settled`, which means out of the window, or ended and not in
the dispatcher's hands (`OthersSettled`); what the dispatcher holds is pending or
complete (`HeldOpen`); and a POST past its lookup found all rows settled (`PostSettled`).

`RowLife` (`RequestRowLife`) needs `HeldOpen` for any number of POSTs at once, so
without the rest of `WindowInv`: `StatusStep` follows the one write of a step to the row it
goes to, and `DispatcherStatus` takes the dispatcher's two writes, which go to a row that was
pending when listed and can only have become complete since.

`AlprPipeline_proofs`: the types (`Typed`) add to `TypeOK` that a busy worker or
goroutine has a segment or frame. `ExclusiveExtraction` needs that whatever is in a
hand is claimed (`HeldClaimed`); the run has one worker, the theorem any number.
`MarkHidesOnlyLost` needs that a running worker's pushed frames are still in the pipeline,
answered or lost (`PushedKept`), which holds because no step forgets one (`KeptStays`); for
that a goroutine without a slot must hold no frame (`IdleEmpty`), or the next one would
overwrite it. That nothing is lost before the first upset follows from the steps that add
to `lost` (`QuietNext`). `PipelineEventMissesOnly` says the same of the moment at
which the route is announced. `CountsMeanSets` follows from the type invariant: a subset with as many
elements is the whole set (`SegCounts`), and only `Probe` leads to the event
(`EmitOnlyComplete`). `PipelineMoves` is the part of `ClaimMovesOn` within the
prover's reach: while a segment is claimed, the guard of some step of the scanner,
a worker, the receive loop or a slot holds (`SomebodyReady`), with the guards written
out where the run's property says ENABLED. It needs that every claim has a hand
(`ClaimHeld`) and that a full channel has somebody to empty it. `PipelineSingleFlight`
proves `ExtractorSingleFlight`: the scanner's claim and blocking send (`ScannerFlight`) and the
worker's take and release (`WorkerFlight`) are steps of `SingleFlight`, every other step leaves
its state alone (`SameFlight`). It rests on the claims of everything in hand, which is why a claim
that a worker releases is in nobody else's hand and not waiting.

`PlateAlerts_proofs` is about the whole of `RetentionSpec`. `Typed` is the type
invariant with the domains of everything that is handed on; for each group of
steps a lemma says what it leaves alone, so that a proof speaks only of the steps
that matter to it.

- `NoDuplicateNotice`: `LedgerExact` ties the ledger to what was sent. It rests on the
  dispatcher being one goroutine: between its lookup and its record nobody else
  sends.
- `WhitelistHolds`: an evaluation past its read of a row that was
  whitelisted since is marked `late` (`LateMarked`); everybody else writes with the row
  in view, and a merge leaves the row it merges into its kind.
- `AckedWasKnown`: not inductive, because a merge carries rows it has read to its
  transaction. `AckKnown` says the same of those copies, and of an evaluation about to
  preserve an acknowledgement that it writes no more than is there or was known.
- `GroupsByGap`: an induction over data, in a form that needs no operator parameter.
  If the walk were wrong about some finite set of detections there would be a
  smallest one (`SmallestSet`, from the well-foundedness of finite subsets);
  taking its latest detection away gives one about which the walk is right, and
  `DividedStep` shows that the step of the walk then is. `RunsAreClasses` translates the
  walk's runs into the property's classes.
- `EncountersTrue`: the proof is for one aggregator slot (`AggSlots = {w}`), the default of
  `ALPR_AGGREGATOR_CONCURRENCY`; with two, the older of two passes over a route may
  write last, and the property is false. `Clean` says of a route that nothing is
  on its way to it: no event in the channel or in the receive loop, no request or
  pass between its write and its event. `Right` says what is then true of its stored
  encounters, and of the encounters a pass is about to store. Both halves of a correction count as
  being on its way, so a route leaves `Clean` before a detection changes. The second half, that the
  retention leaves no encounter without a detection to show, holds for any number
  of slots (`AlertsSwept`): `Evident` follows an encounter from the detections a pass has read to the delete of
  the orphans. `InPlace` (passes and requests hold detections of their own route) serves both.

- `NoneUnderAlerted`: an evaluation reads all encounters of a plate, while those of some
  routes may be about to change; so the invariant compares severities with what stays as
  it is. A route is `Calm` while no pass, request or event will touch it, and
  `Standing(p)` are the encounters of a plate on calm routes. `CoverInv`: a plate is either
  on its way to an evaluation (`Coming`: in an event, in the worker's hand, or in a pass about
  to emit), or the score of its standing encounters is `Covered`, by the row or by an
  evaluation that will write it. Four things keep it so. Standing encounters can
  only be lost while the plate is not coming (`StandingSteps`), because a pass that adds
  some names their plates; a part of the encounters never scores more than all of them
  (`ScoreGrows`); a row loses severity only where that is excepted, or with all encounters of
  the plate, by a merge into another one (`RowsStay`); and an evaluation writes at least
  what it has computed (`EvaluatorsStay`). A merge can make a plate meet new routes
  without being named; these it also sends to the aggregator, or they are `missed`. The
  retention deletes orphans of calm routes, which is why `AttestedInv` is needed:
  on a calm route every encounter has a detection to show, so there are none.
  That is the only use of the single slot. So the proof has two parts: `AlertsNoneUnderSlots` is
  for any number of slots, under the hypothesis that the retention takes no encounter from
  a calm route (`SparesCalm`), and `AlertsSpared` says that with one slot it never does.
  The hypothesis is needed: with two slots `NoneUnderAlerted` is false, see the last section.
  All of it is for thresholds under which more encounters
  never score less (`PointsRise`): the defaults are such, and so are those of the run
  (`ThresholdsRise`); the tuning page keeps them such, except that it accepts a severity
  bucket of 0 (`api/settings_alpr_tuning.go:118`), under which a plate without encounters scores.

`RouteStore_proofs`: `StoreInv` says of every place a file can be in what is known
of it. While a handler has a file, it is the only one whose copy counts or the
file is in `resent` (`CopyInv`); a handler past its copy has a stored file, or one of the
exceptions (`NoteInv`), which is how the flag it sets is true, and stays so when more
is stored under the same flag (`FlagsKeep`); two copies of one file make it `resent` (`PairInv`); what
the cleanup has listed was out of its retention, and between its two halves
new files of the route are `overtaken` (`PassInv`, `GoneInv`). Each is stated for any number of
handlers, so one lemma per action (`StartEffect`, `RemoveEffect`, ...) says what it
does to files and handlers, and a second one (`StartKeeps`, ...) that the invariant
stands.

`RouteMedia_proofs`: `OneWriter` and `OneBuild` are inductive: the in-flight set is
the queue together with the clips in hand, each once, and the proofs follow a
clip from the set into the queue, out of its head and out of the set. They need
facts about `Append`, `Head` and `Tail` of a queue without repetitions, which are
lemmas of their own. `PlaylistWhole` needs that whoever runs ffmpeg on a clip is
alone with it, which is `OneWriter`. `OneShot` is the same for the thumbnailer, and
inductive with the types of its generator: five kinds of step can touch queue,
in-flight set and generator together (`GenMoves`), and each keeps it. The run does not repeat these three: it checks `PoolsSingleFlight`, the
refinement that they are the invariants of (`UpkeepSingleFlight`). For each pool one lemma says which
steps leave its state alone (`TcSame`, `RbSame`), and one that the others are steps of
`SingleFlight` (`TcFlight`, `RbFlight`, `GenFlight`); a removal of a directory by the store is none,
because whoever works on its files keeps its claim (`WatchHands`). `UpkeepType` collects the types that the invariants above
carry with them and adds the columns nothing else depends on (`MediaRest`,
`ThumbRest`, `Columns`).

`RouteDerived_proofs`: all three theorems rest on two facts. Ids are never given
twice (`IdsInv`), so an entry whose id is still that of its row was
there all along (`AliveBefore`), and a track that is there stays as it is
until its row is deleted (`TrackMoves`), because only routes that lack a track are
listed (`MetaInv`) and a route is in one pass once. `TripInv`, `TurnInv` and
`EventInv` then say that what a worker holds between its read and its write is
either empty or still true. They hold in whatever order a pass takes its routes, and
for any part of a cut log that a read may count.

Model-checked only: liveness (`Settles`, `SupersededCloses`, `ClosedDrains`,
`ReaderNotHeldUp`, `CallReturns`, `PendingLeaves`, `Packaged`, `MetadataArrives`,
`Thumbnailed`) and `ClaimMovesOn` as it is stated, with ENABLED: both are out of the
prover's reach. Every other invariant and action property a run checks is a theorem, with
the hypotheses named above.

## Plan

In order:

1. A statement about two aggregator slots that holds without a hypothesis: what the heuristic
   still owes when the older of two passes has written last.
2. `DetectTurns` as an operator checked against a reference definition.

## Abstractions

Places where the model takes more at once, or allows more, than the code does, and
why the properties do not notice:

- `WsRpc.InsertPending`: the request counter and the insert are two steps in the code; an
  id that is counted and not yet in the table can be answered by nobody.
- `RouteMedia.ScanClip`, `RouteThumbs.Consider`: the checks of a scanner are one step. A check
  that is out of date only repeats work, because the worker looks again before it begins.
- `RouteDerived`: the backfill of turns runs once per start in the code and again and again here;
  which of two routes has the earlier start time is left open; the part of a cut log
  counts like the whole or not at all; a directory without files counts as readable or not.
- `PlateScore.AreaPoints`: the area is a constant of a route; the code takes the position of the
  first detection of each encounter, which a correction or the retention can change.
- `PlateAlerts.Send`: the walk of the enricher over the encounters of a plate and their
  detections is one read; a row that moves during it makes the code send or skip as an
  earlier or later `Send` would.

## Not modelled

Token and signature formats, the Cap'n Proto readers, generated database code,
JSON shapes, the web interface and the detector sidecar: none of them keeps
state over several steps. The detection of turns, the fit of tracks and the
contents of detections are data that the modules abstract to what the
properties tell apart. `PROJECT.json` gives the reason for each part.

Hazards the code has that no property speaks about, most of them because the
code offers nothing that would hold:

- `worker/alpr_backfill.go:572`: a segment whose ffmpeg fails is left for "the next
  pass", which the job does not make.
- `worker/alpr_backfill.go:554`, `worker/alpr_extractor.go:426`: backfill and live
  extractor share no in-flight set, and the live one reads the mark before its claim.
- `ws/hub.go:48`: the gauge of connected devices is set outside the lock, so two
  connections can leave it wrong.
- `ws/methods.go:50`: request ids start at 1 again after a restart, and a device may
  still answer an old one.
- `worker/alpr_aggregator.go:320`: with a concurrency above 1, the older of two
  passes over a route can write last. An encounter it puts back has no detection
  to show, so the nightly delete of orphans takes it away, and nothing evaluates
  the plate again. That can raise its score: when the encounter was the first of its
  route, the first sighting moves nearer to that on another route, and the plate
  earns the points for two close sightings (`computeCrossRouteTiming`) while its row
  keeps the old severity. TLC finds this with two slots, two routes, three detections, one correction
  and one pass that deletes nothing else, and not with one slot.
- `alpr/notify/dispatcher.go:191`: the window suppresses an alert of rising severity.
- `api/alpr_watchlist.go:799`: a whitelist entry is removed by plate after a read, whatever the row has become.
- `api/alpr_corrections.go:486`: a merged plate's row can come back from an evaluation under way.
- `api/share.go:469`: a variant rendered before the plates were stored is served as redacted.
- `worker/redaction_builder.go:287`: a failed build removes the older variant.
- `worker/event_detector.go:163`: events found before the start time is known are never dated.
- `worker/route_metadata.go:143`: times and track are frozen at the first read that had a fix.
- `db/route_turns_custom.go:45`: routes without any turn are listed for ever and can starve the others.
- `worker/thumbnail.go:447`: the marker of a failure makes the directory it belongs in,
  so that of a deleted route comes back with nothing else in it.
- `worker/alpr_cleanup.go:210`: the list of flagged plates is read once per pass; a plate
  alerted or merged before the delete loses detections that the next pass cannot
  bring back, although the comment counts on it.
- `api/upload.go:344`: nothing reconciles a file whose tracking failed.
