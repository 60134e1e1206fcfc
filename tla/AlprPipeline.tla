---------------------------- MODULE AlprPipeline ----------------------------
(***************************************************************************)
(* The ALPR pipeline of one route, up to its announcement: an upload puts  *)
(* fcamera.hevc on disk and flags the segment; the extractor's scanner     *)
(* claims it and hands it to a worker, which pushes ffmpeg's frames into a *)
(* bounded channel and marks the segment; the detector takes the frames,   *)
(* marks the segment on its side and announces a complete route.           *)
(*                                                                         *)
(* The file, the flag and the two marks survive a crash; the channels, the *)
(* claims and the once-per-route guard do not.  A definition named XMutant *)
(* is X with a plausible bug, used only to show that a property can fail.  *)
(***************************************************************************)
EXTENDS Integers, Sequences, FiniteSets

CONSTANTS
  NSegs,       \* segments of the route
  FramesPer,   \* frames ffmpeg samples from a whole segment
  Buffer,      \* capacity of the frame channel (ALPR_EXTRACTOR_BUFFER)
  ExtWorkers,  \* the extractor's worker goroutines
  DetSlots,    \* the detector's semaphore slots
  MaxUpsets    \* bound: failed calls, crashes and switches of alpr_enabled

ASSUME PipelineAssumption ==
  /\ NSegs \in Nat \ {0} /\ FramesPer \in Nat \ {0} /\ Buffer \in Nat \ {0}
  /\ IsFiniteSet(ExtWorkers) /\ ExtWorkers # {}
  /\ IsFiniteSet(DetSlots) /\ DetSlots # {}
  /\ MaxUpsets \in Nat

VARIABLES
  file,      \* fcamera.hevc on disk, per segment
  flagged,   \* segments.fcamera_uploaded
  extMark,   \* alpr_segment_progress.processed_at_extractor IS NOT NULL
  detMark,   \* alpr_segment_progress.processed_at_detector IS NOT NULL
  inflight,  \* ALPRExtractor.inflight
  scan,      \* the scanner: where in scanOnce, and at which segment
  jobs,      \* the extractor's inner job channel
  ext,       \* the extractor's workers
  frames,    \* the channel of ExtractedFrames
  held,      \* the frame the detector's loop received and has no slot for
  task,      \* the detector's processFrame goroutines, by slot
  emitted,   \* ALPRDetector.emitOnce has the route's key
  enabled,   \* the alpr_enabled setting
  upsets,    \* how often something went wrong so far
  answered,  \* history: frames for which the engine has answered
  lost,      \* history: frames whose last push came to nothing
  cut        \* history: segments marked although frames were missing

disk      == <<file, flagged, extMark, detMark>>
extractor == <<inflight, scan, jobs, ext>>
detector  == <<frames, held, task, emitted>>
history   == <<answered, lost, cut>>
vars      == <<disk, extractor, detector, enabled, upsets, history>>

Segs   == 1..NSegs
Frames == Segs \X (1..FramesPer)

(* A slot that holds no frame; 0 is no segment. *)
NoFrame  == <<0, 0>>
ScanIdle == [pc |-> "check", seg |-> 1]
ExtIdle  == [pc |-> "idle", seg |-> 0, sent |-> 0, len |-> 0]
TaskIdle == [pc |-> "idle", frame |-> NoFrame]

OnDisk(s) == file[s] # "absent"

(* The frames between the extractor's push and the end of their processing. *)
InPipeline == ({frames[i] : i \in DOMAIN frames} \cup {held}
                 \cup {task[d].frame : d \in DetSlots}) \ {NoFrame}

(* Something goes wrong, as often as the bound allows; or it goes well. *)
Upset == upsets < MaxUpsets /\ upsets' = upsets + 1
Fine  == UNCHANGED upsets

Init ==
  /\ file = [s \in Segs |-> "absent"]
  /\ flagged = {} /\ extMark = {} /\ detMark = {}
  /\ inflight = {} /\ scan = ScanIdle /\ jobs = <<>>
  /\ ext = [w \in ExtWorkers |-> ExtIdle]
  /\ frames = <<>> /\ held = NoFrame
  /\ task = [d \in DetSlots |-> TaskIdle] /\ emitted = FALSE
  /\ enabled = TRUE /\ upsets = 0
  /\ answered = {} /\ lost = {} /\ cut = {}

-----------------------------------------------------------------------------
(* The upload of a segment's fcamera.hevc.  The route row exists: the      *)
(* route's first upload, of any file, made it.                             *)

(* os.Create: the file exists from here on. *)
StoreBegin(s) ==
  /\ file[s] = "absent"
  /\ file' = [file EXCEPT ![s] = "writing"]
  /\ UNCHANGED <<flagged, extMark, detMark, extractor, detector, enabled,
                 upsets, history>>

(* The copy ends, or fails and the file is removed.  After a crash this is *)
(* the device's second try over the stub the first one left.               *)
StoreEnd(s) ==
  /\ file[s] = "writing"
  /\ \/ Fine /\ file' = [file EXCEPT ![s] = "whole"]
     \/ Upset /\ file' = [file EXCEPT ![s] = "absent"]
  /\ UNCHANGED <<flagged, extMark, detMark, extractor, detector, enabled, history>>

(* trackUpload; its failure is only logged, so this may never happen. *)
TrackUpload(s) ==
  /\ file[s] = "whole" /\ s \notin flagged
  /\ flagged' = flagged \cup {s}
  /\ UNCHANGED <<file, extMark, detMark, extractor, detector, enabled,
                 upsets, history>>

-----------------------------------------------------------------------------
(* The extractor's scanner. *)

(* The scanner at the segment after s, or asleep before the next pass. *)
NextSeg(s) == [pc |-> "check", seg |-> (s % NSegs) + 1]

(* segmentNeedsExtract up to its query: the file, then the mark; a failed  *)
(* query skips the segment.  A pass begins only with the setting on.       *)
ScanCheck ==
  /\ scan.pc = "check" /\ (scan.seg = 1 => enabled)
  /\ LET needs == OnDisk(scan.seg) /\ scan.seg \notin extMark IN
       \/ needs /\ Fine /\ scan' = [scan EXCEPT !.pc = "claim"]
       \/ ~needs /\ Fine /\ scan' = NextSeg(scan.seg)
       \/ needs /\ Upset /\ scan' = NextSeg(scan.seg)
  /\ UNCHANGED <<disk, inflight, jobs, ext, detector, enabled, history>>

ScanClaimMutant ==                \* whoever has claimed it already
  /\ scan.pc = "claim"
  /\ scan' = [scan EXCEPT !.pc = "send"]
  /\ inflight' = inflight \cup {scan.seg}
  /\ UNCHANGED <<disk, jobs, ext, detector, enabled, upsets, history>>

(* segmentNeedsExtract under inflightMu; the mark is not read again. *)
ScanClaim ==
  /\ scan.pc = "claim"
  /\ IF scan.seg \in inflight
     THEN scan' = NextSeg(scan.seg) /\ UNCHANGED inflight
     ELSE /\ scan' = [scan EXCEPT !.pc = "send"]
          /\ inflight' = inflight \cup {scan.seg}
  /\ UNCHANGED <<disk, jobs, ext, detector, enabled, upsets, history>>

(* The send blocks while the job channel, one place per worker, is full. *)
ScanSend ==
  /\ scan.pc = "send" /\ Len(jobs) < Cardinality(ExtWorkers)
  /\ jobs' = Append(jobs, scan.seg)
  /\ scan' = NextSeg(scan.seg)
  /\ UNCHANGED <<disk, inflight, ext, detector, enabled, upsets, history>>

-----------------------------------------------------------------------------
(* An extractor worker. *)

SkipMutant(s) == ExtIdle          \* the claim stays

(* processSegment returns at once; the claim on s is still to be dropped. *)
Skip(s) == [pc |-> "release", seg |-> s, sent |-> 0, len |-> 0]

(* processSegment's early returns (an unreadable setting counts as off),   *)
(* or ffmpeg starts.  From a file that is still being written it reads the *)
(* frames that have reached the disk.                                      *)
ExtTake(w) ==
  /\ ext[w].pc = "idle" /\ jobs # <<>>
  /\ jobs' = Tail(jobs)
  /\ LET s == Head(jobs) IN
       \/ /\ enabled /\ OnDisk(s) /\ Fine
          /\ \E n \in (IF file[s] = "whole" THEN {FramesPer} ELSE 0..FramesPer) :
               ext' = [ext EXCEPT ![w] =
                         [pc |-> "run", seg |-> s, sent |-> 0, len |-> n]]
       \/ /\ IF enabled /\ OnDisk(s) THEN Upset ELSE Fine
          /\ ext' = [ext EXCEPT ![w] = Skip(s)]
  /\ UNCHANGED <<disk, inflight, scan, detector, enabled, history>>

(* pushFrame blocks while the frame channel is full. *)
FrameRoom == Len(frames) < Buffer

PushFrame(w) ==
  /\ ext[w].pc = "run" /\ ext[w].sent < ext[w].len
  /\ FrameRoom
  /\ LET f == <<ext[w].seg, ext[w].sent + 1>> IN
       frames' = Append(frames, f) /\ lost' = lost \ {f}
  /\ ext' = [ext EXCEPT ![w].sent = @ + 1]
  /\ UNCHANGED <<disk, inflight, scan, jobs, held, task, emitted, enabled,
                 upsets, answered, cut>>

(* ffmpeg, or the parse of its output, fails: the segment is not marked. *)
FFmpegFails(w) ==
  /\ ext[w].pc = "run" /\ Upset
  /\ ext' = [ext EXCEPT ![w].pc = "release"]
  /\ UNCHANGED <<disk, inflight, scan, jobs, detector, enabled, history>>

ExitedMutant(w) == TRUE           \* ffmpeg's exit is not looked at

(* ffmpeg has exited cleanly: all its frames are in the channel. *)
Exited(w) == ext[w].sent = ext[w].len

(* MarkExtractorProcessed after a clean exit; its error is only logged. *)
MarkExtractor(w) ==
  /\ ext[w].pc = "run" /\ Exited(w)
  /\ \/ /\ Fine /\ extMark' = extMark \cup {ext[w].seg}
        /\ cut' = IF ext[w].len < FramesPer THEN cut \cup {ext[w].seg} ELSE cut
     \/ Upset /\ UNCHANGED <<extMark, cut>>
  /\ ext' = [ext EXCEPT ![w].pc = "release"]
  /\ UNCHANGED <<file, flagged, detMark, inflight, scan, jobs, detector,
                 enabled, answered, lost>>

(* workerLoop drops the claim once processSegment has returned. *)
Release(w) ==
  /\ ext[w].pc = "release"
  /\ inflight' = inflight \ {ext[w].seg}
  /\ ext' = [ext EXCEPT ![w] = ExtIdle]
  /\ UNCHANGED <<disk, scan, jobs, detector, enabled, upsets, history>>

-----------------------------------------------------------------------------
(* The detector. *)

(* The receive loop drops a frame that arrives while the setting is off or *)
(* cannot be read.                                                         *)
Receive ==
  /\ held = NoFrame /\ frames # <<>>
  /\ frames' = Tail(frames)
  /\ \/ enabled /\ Fine /\ held' = Head(frames) /\ UNCHANGED lost
     \/ /\ IF enabled THEN Upset ELSE Fine
        /\ lost' = lost \cup {Head(frames)} /\ UNCHANGED held
  /\ UNCHANGED <<disk, extractor, task, emitted, enabled, answered, cut>>

(* The loop keeps the frame until the semaphore has a slot. *)
Spawn(d) ==
  /\ held # NoFrame /\ task[d].pc = "idle"
  /\ task' = [task EXCEPT ![d] = [pc |-> "engine", frame |-> held]]
  /\ held' = NoFrame
  /\ UNCHANGED <<disk, extractor, frames, emitted, enabled, upsets, history>>

(* Goroutine d goes on to pc, or returns and gives its slot back. *)
Goto(d, pc) == task' = [task EXCEPT ![d].pc = pc]
Return(d)   == task' = [task EXCEPT ![d] = TaskIdle]

(* The engine call and, if it answers, the rows of the detections that     *)
(* pass the filters; each row is a transaction of its own and a failed one *)
(* is only logged.  A failed call, by its timeout at the latest, ends the  *)
(* frame without a trace.                                                  *)
Engine(d) ==
  /\ task[d].pc = "engine"
  /\ LET f == {task[d].frame} IN
       \/ Fine /\ Goto(d, "mark") /\ answered' = answered \cup f /\ UNCHANGED lost
       \/ Upset /\ Return(d) /\ lost' = lost \cup f /\ UNCHANGED answered
  /\ UNCHANGED <<disk, extractor, frames, held, emitted, enabled, cut>>

(* MarkDetectorProcessed: the first frame of a segment to get here marks   *)
(* the whole segment.                                                      *)
MarkDetector(d) ==
  /\ task[d].pc = "mark"
  /\ \/ Fine /\ detMark' = detMark \cup {task[d].frame[1]} /\ Goto(d, "probe")
     \/ Upset /\ Return(d) /\ UNCHANGED detMark
  /\ UNCHANGED <<file, flagged, extMark, extractor, frames, held, emitted,
                 enabled, history>>

CompleteMutant ==                 \* not every flagged segment is awaited
  /\ Cardinality(extMark) > 0
  /\ Cardinality(detMark) >= Cardinality(extMark)

(* CountRouteDetectorProgress and the comparisons on its counts. *)
Complete ==
  /\ Cardinality(extMark) > 0
  /\ Cardinality(detMark) >= Cardinality(extMark)
  /\ Cardinality(extMark) >= Cardinality(flagged)

Probe(d) ==
  /\ task[d].pc = "probe"
  /\ \/ Fine /\ Complete /\ Goto(d, "emit")
     \/ Fine /\ ~Complete /\ Return(d)
     \/ Upset /\ Return(d)
  /\ UNCHANGED <<disk, extractor, frames, held, emitted, enabled, history>>

(* emitOnce.LoadOrStore: the first goroutine here sends the event. *)
Emit(d) ==
  /\ task[d].pc = "emit"
  /\ emitted' = TRUE
  /\ Return(d)
  /\ UNCHANGED <<disk, extractor, frames, held, enabled, upsets, history>>

-----------------------------------------------------------------------------
(* The operator and the process. *)

Toggle ==
  /\ Upset
  /\ enabled' = ~enabled
  /\ UNCHANGED <<disk, extractor, detector, history>>

(* The process dies and starts again: memory starts over, an open upload   *)
(* leaves its stub.                                                        *)
Crash ==
  /\ Upset
  /\ inflight' = {} /\ scan' = ScanIdle /\ jobs' = <<>>
  /\ ext' = [w \in ExtWorkers |-> ExtIdle]
  /\ frames' = <<>> /\ held' = NoFrame
  /\ task' = [d \in DetSlots |-> TaskIdle] /\ emitted' = FALSE
  /\ lost' = lost \cup (InPipeline \ answered)
  /\ UNCHANGED <<disk, enabled, answered, cut>>

Upload(s) == StoreBegin(s) \/ StoreEnd(s) \/ TrackUpload(s)
Scanner   == ScanCheck \/ ScanClaim \/ ScanSend
Worker(w) == ExtTake(w) \/ PushFrame(w) \/ MarkExtractor(w) \/ Release(w)
Task(d)   == Engine(d) \/ MarkDetector(d) \/ Probe(d) \/ Emit(d)

Next ==
  \/ \E s \in Segs : Upload(s)
  \/ Scanner
  \/ \E w \in ExtWorkers : Worker(w) \/ FFmpegFails(w)
  \/ Receive
  \/ \E d \in DetSlots : Spawn(d) \/ Task(d)
  \/ Toggle \/ Crash

Spec == Init /\ [][Next]_vars

-----------------------------------------------------------------------------
(* The values every variable takes; the channels keep to their capacity. *)
TypeOK ==
  /\ file \in [Segs -> {"absent", "writing", "whole"}]
  /\ flagged \subseteq Segs /\ extMark \subseteq Segs /\ detMark \subseteq Segs
  /\ inflight \subseteq Segs
  /\ scan \in [pc : {"check", "claim", "send"}, seg : Segs]
  /\ jobs \in Seq(Segs) /\ Len(jobs) <= Cardinality(ExtWorkers)
  /\ ext \in [ExtWorkers -> [pc : {"idle", "run", "release"}, seg : 0..NSegs,
                             sent : 0..FramesPer, len : 0..FramesPer]]
  /\ frames \in Seq(Frames) /\ Len(frames) <= Buffer
  /\ held \in Frames \cup {NoFrame}
  /\ task \in [DetSlots -> [pc : {"idle", "engine", "mark", "probe", "emit"},
                            frame : Frames \cup {NoFrame}]]
  /\ emitted \in BOOLEAN /\ enabled \in BOOLEAN
  /\ upsets \in 0..MaxUpsets
  /\ answered \subseteq Frames /\ lost \subseteq Frames /\ cut \subseteq Segs

(* A segment is extracted by one hand at a time: it is never twice among   *)
(* the scanner's pending send, the job channel and the busy workers.       *)
(* Otherwise two ffmpegs push the same frames, and every plate counts      *)
(* twice.                                                                  *)
ExclusiveExtraction ==
  /\ \A i, j \in DOMAIN jobs : i # j => jobs[i] # jobs[j]
  /\ \A w \in ExtWorkers : ext[w].pc # "idle" =>
       /\ \A i \in DOMAIN jobs : jobs[i] # ext[w].seg
       /\ \A v \in ExtWorkers \ {w} : ext[v].pc # "idle" => ext[v].seg # ext[w].seg
  /\ scan.pc = "send" =>
       /\ \A i \in DOMAIN jobs : jobs[i] # scan.seg
       /\ \A w \in ExtWorkers : ext[w].pc # "idle" => ext[w].seg # scan.seg

(* No pass looks at a marked segment again, so what a mark hides is lost   *)
(* for good.  Of a segment whose file gave all its frames the mark hides   *)
(* only this: frames dropped with the setting off, frames whose engine     *)
(* call failed, and what a crash took from the pipeline, each of them      *)
(* after the frame's last push; a try that ended without the mark has cost *)
(* nothing.  Every other frame has had the engine's answer or is on its    *)
(* way to it, and where nothing failed there are no such losses.           *)
MarkHidesOnlyLost ==
  /\ \A f \in Frames : f[1] \in extMark \ cut =>
       f \in InPipeline \cup answered \cup lost
  /\ upsets = 0 => lost = {}

(* The completion probe compares three counts.  Where every marked segment *)
(* is a flagged one, the counts speak for the sets: a route is announced   *)
(* only when each flagged segment was extracted and has a detector mark.   *)
CountsMeanSets ==
  [][\A d \in DetSlots :
       task[d].pc = "probe" /\ task'[d].pc = "emit"
         /\ extMark \cup detMark \subseteq flagged
       => flagged \subseteq extMark \cap detMark]_vars

(* As long as a segment is claimed, somebody on the way from its claim to  *)
(* the engine can go on: the bounded job channel, frame channel and slots  *)
(* never block each other, and no early return keeps a claim that nobody   *)
(* will give back (the segment would never be tried again).                *)
ClaimMovesOn ==
  inflight # {} =>
    \/ ENABLED ScanSend
    \/ \E w \in ExtWorkers : ENABLED Worker(w)
    \/ ENABLED Receive
    \/ \E d \in DetSlots : ENABLED (Spawn(d) \/ Task(d))

-----------------------------------------------------------------------------
(* The detector's comment says of the completion event that it is emitted  *)
(* "exactly once per route after the last segment's detector pass commits":*)
(* when all that was uploaded is flagged, extracted and detected, and      *)
(* nothing is under way, the event has gone out.                           *)
CompleteRouteAnnounced ==
  flagged # {} /\ (\A s \in Segs : OnDisk(s) <=> s \in flagged)
    /\ flagged \subseteq extMark \cap detMark
    /\ inflight = {} /\ InPipeline = {} /\ scan = ScanIdle
  => emitted

-----------------------------------------------------------------------------
(* The extractor as SingleFlight sees it.  From its claim on a segment     *)
(* waits, first for a place in the job channel, then for a worker.         *)
Extracting == INSTANCE SingleFlight WITH
  Items <- Segs, Hands <- ExtWorkers, claims <- inflight,
  waiting <- {jobs[i] : i \in DOMAIN jobs} \cup {s \in {scan.seg} : scan.pc = "send"},
  hand <- [w \in ExtWorkers |-> IF ext[w].pc = "idle" THEN {} ELSE {ext[w].seg}]

ExtractorSingleFlight == Extracting!SFSpec
=============================================================================
