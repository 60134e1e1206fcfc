----------------------------- MODULE RouteMedia -----------------------------
(***************************************************************************)
(* What is made of the videos: the transcoder (scanner, job queue, pool of *)
(* workers) that writes an HLS playlist per camera, and the redaction      *)
(* builder that writes the variant with blurred plates a share link shows. *)
(* Both look at the files only, not at the upload flags, and take an       *)
(* existing playlist for a finished one.                                   *)
(***************************************************************************)
EXTENDS RouteStore, Sequences

CONSTANTS
  Workers,      \* the transcoder's pool
  Depth,        \* capacity of its job queue
  Builders,     \* the redaction builder's pool
  BuildDepth    \* capacity of its queue

ASSUME MediaConstants == Depth \in Nat \ {0} /\ BuildDepth \in Nat \ {0}

Cameras == {"fcamera", "qcamera"}
Videos  == {f \in Files : KindOf(f) \in Cameras}
Qcam(c) == <<c[1], c[2], "qcamera">>

VARIABLES
  hls,          \* [Videos -> {"none", "part", "whole"}], the playlist
  tc,           \* the transcoder's workers
  jobs,         \* its queue of clips
  inflight,     \* the clips queued or in work
  scan,         \* what is left of the scanner's pass
  broken,       \* history: playlists of a failed re-encode or a killed server
  found,        \* the clips with stored detections
  red,          \* [Clips -> {"none", "plain", "blurred"}], the redacted variant
  rb,           \* the builders
  rjobs,        \* their queue of routes
  rinflight     \* the routes queued or in work

tcVars    == <<hls, tc, jobs, inflight, scan, broken>>
redVars   == <<found, red, rb, rjobs, rinflight>>
mediaVars == <<tcVars, redVars>>

(* A worker has a clip and the cameras left to look at; ffmpeg runs on f.  *)
(* read says what it makes of its input: all of it, less than all, or      *)
(* nothing because the directory was removed.                              *)
Free      == [at |-> "free"]
Stages    == {"copy", "encode", "package"}
TcStates  == {Free} \cup [at : {"look"}, clip : Clips, left : SUBSET Cameras]
               \cup [at : Stages, clip : Clips, left : SUBSET Cameras, f : Videos,
                     read : {"whole", "cut", "gone"}]
RbStates  == {Free} \cup [at : {"load"}, of : Routes]
               \cup [at : {"build"}, of : Routes, dets : SUBSET Clips, todo : SUBSET Segs]

MediaTypeOK ==
  /\ hls \in [Videos -> {"none", "part", "whole"}]
  /\ tc \in [Workers -> TcStates]
  /\ jobs \in Seq(Clips) /\ Len(jobs) <= Depth
  /\ inflight \subseteq Clips /\ scan \subseteq Clips /\ broken \subseteq Videos
  /\ found \subseteq Clips /\ red \in [Clips -> {"none", "plain", "blurred"}]
  /\ rb \in [Builders -> RbStates]
  /\ rjobs \in Seq(Routes) /\ Len(rjobs) <= BuildDepth
  /\ rinflight \subseteq Routes

MediaInit ==
  /\ hls = [f \in Videos |-> "none"] /\ tc = [w \in Workers |-> Free]
  /\ jobs = <<>> /\ inflight = {} /\ scan = {} /\ broken = {}
  /\ found = {} /\ red = [c \in Clips |-> "none"] /\ rb = [b \in Builders |-> Free]
  /\ rjobs = <<>> /\ rinflight = {}

----------------------------------------------------------------------------
(* Transcoder: the scanner                                                 *)

Pending(f) == file[f] # "none" /\ hls[f] = "none"

SegmentNeedsTranscode(c) == \E f \in Videos : ClipOf(f) = c /\ Pending(f)

ScanStart ==
  /\ scan = {} /\ scan' = {c \in Clips : row[c[1]] # 0} /\ scan' # {}
  /\ UNCHANGED <<hls, tc, jobs, inflight, broken, redVars>>

Enqueue(c) ==
  IF c \in inflight \/ Len(jobs) = Depth THEN UNCHANGED <<jobs, inflight>>
  ELSE jobs' = Append(jobs, c) /\ inflight' = inflight \cup {c}

ScanClip(c) ==
  /\ c \in scan
  /\ scan' = scan \ {c}
  /\ IF SegmentNeedsTranscode(c) THEN Enqueue(c) ELSE UNCHANGED <<jobs, inflight>>
  /\ UNCHANGED <<hls, tc, broken, redVars>>

(* The workers: ProcessSegment                                             *)

TakeJob(w) ==
  /\ tc[w] = Free /\ jobs # <<>>
  /\ tc' = [tc EXCEPT ![w] = [at |-> "look", clip |-> Head(jobs), left |-> Cameras]]
  /\ jobs' = Tail(jobs)
  /\ UNCHANGED <<hls, inflight, scan, broken, redVars>>

Input(f) == CASE file[f] = "whole" -> "whole" [] file[f] = "cut" -> "cut" [] OTHER -> "gone"

(* The HEVC camera first; qcamera.ts is only rewrapped.                    *)
StartCamera(w) ==
  /\ tc[w].at = "look"
  /\ \E k \in tc[w].left :
       LET f == <<tc[w].clip[1], tc[w].clip[2], k>> IN
       /\ Pending(f)
       /\ k = "qcamera" => "fcamera" \notin tc[w].left
                             \/ ~Pending(<<tc[w].clip[1], tc[w].clip[2], "fcamera">>)
       /\ tc' = [tc EXCEPT ![w] =
            [at |-> IF k = "fcamera" THEN "copy" ELSE "package", clip |-> tc[w].clip,
             left |-> IF k = "fcamera" THEN {"qcamera"} ELSE {}, f |-> f, read |-> Input(f)]]
  /\ UNCHANGED <<hls, jobs, inflight, scan, broken, redVars>>

(* Mutant: the clip stays in the in-flight set.                            *)
FinishJobMutant(w) ==
  /\ tc[w].at = "look"
  /\ \A k \in tc[w].left : ~Pending(<<tc[w].clip[1], tc[w].clip[2], k>>)
  /\ tc' = [tc EXCEPT ![w] = Free]
  /\ UNCHANGED <<hls, jobs, inflight, scan, broken, redVars>>

(* No camera left: the worker takes the clip out of the in-flight set.     *)
FinishJob(w) ==
  /\ tc[w].at = "look"
  /\ \A k \in tc[w].left : ~Pending(<<tc[w].clip[1], tc[w].clip[2], k>>)
  /\ tc' = [tc EXCEPT ![w] = Free]
  /\ inflight' = inflight \ {tc[w].clip}
  /\ UNCHANGED <<hls, jobs, scan, broken, redVars>>

Looking(w) == [at |-> "look", clip |-> tc[w].clip, left |-> tc[w].left]

(* Mutant: qcamera is packaged without -hls_playlist_type vod, too.        *)
FirstChunkMutant(w) ==
  /\ tc[w].at \in Stages /\ tc[w].read # "gone"
  /\ hls[tc[w].f] = "none"
  /\ hls' = [hls EXCEPT ![tc[w].f] = "part"]
  /\ UNCHANGED <<tc, jobs, inflight, scan, broken, redVars>>

(* The HEVC playlist is a live one: it is there from the first chunk on.   *)
FirstChunk(w) ==
  /\ tc[w].at \in {"copy", "encode"} /\ tc[w].read # "gone"
  /\ hls[tc[w].f] = "none"
  /\ hls' = [hls EXCEPT ![tc[w].f] = "part"]
  /\ UNCHANGED <<tc, jobs, inflight, scan, broken, redVars>>

(* ffmpeg ends well.  It takes the end of a file that is still growing for *)
(* its end, unless the upload was faster than ffmpeg.                      *)
FfmpegDone(w) ==
  /\ tc[w].at \in Stages /\ tc[w].read # "gone"
  /\ \E out \in IF tc[w].read = "whole" THEN {"whole"}
                ELSE {"part"} \cup (IF file[tc[w].f] = "whole" THEN {"whole"} ELSE {}) :
       /\ hls' = [hls EXCEPT ![tc[w].f] = out]
       /\ broken' = IF out = "part" THEN broken \cup {tc[w].f} ELSE broken
  /\ tc' = [tc EXCEPT ![w] = Looking(w)]
  /\ UNCHANGED <<jobs, inflight, scan, redVars>>

(* ffmpeg can fail on any input, and must on one that is gone; an input    *)
(* that is not whole costs none of the budget.                             *)
MayFail(w) == IF tc[w].read = "whole" THEN Upset ELSE UNCHANGED upsets

(* cleanDir, then the second try with libx264 on what is at the path now.  *)
CopyFfmpegFails(w) ==
  /\ tc[w].at = "copy"
  /\ hls' = [hls EXCEPT ![tc[w].f] = "none"]
  /\ tc' = [tc EXCEPT ![w].at = "encode",
                      ![w].read = IF @ = "gone" THEN @ ELSE Input(tc[w].f)]
  /\ UNCHANGED <<jobs, inflight, scan, broken, redVars>>

(* The second try fails: whatever it wrote stays.                          *)
EncodeFails(w) ==
  /\ tc[w].at = "encode"
  /\ broken' = IF hls[tc[w].f] = "part" THEN broken \cup {tc[w].f} ELSE broken
  /\ tc' = [tc EXCEPT ![w] = Looking(w)]
  /\ UNCHANGED <<hls, jobs, inflight, scan, redVars>>

PackageFails(w) ==
  /\ tc[w].at = "package"
  /\ hls' = [hls EXCEPT ![tc[w].f] = "none"]
  /\ tc' = [tc EXCEPT ![w] = Looking(w)]
  /\ UNCHANGED <<jobs, inflight, scan, broken, redVars>>

FfmpegFails(w) ==
  /\ CopyFfmpegFails(w) \/ EncodeFails(w) \/ PackageFails(w)
  /\ MayFail(w)

----------------------------------------------------------------------------
(* Redaction: GetShareCameraMedia and the builder                          *)

(* The detector stores plates of a clip, at any time after its upload.     *)
Detect(c) ==
  /\ c \notin found /\ file[<<c[1], c[2], "fcamera">>] # "none"
  /\ found' = found \cup {c}
  /\ UNCHANGED <<tcVars, red, rb, rjobs, rinflight>>

(* A viewer of a redacted link asks for a clip.  What is there is served;  *)
(* otherwise the route is queued once and the viewer told to come back.    *)
View(c) ==
  /\ row[c[1]] # 0 /\ red[c] = "none"
  /\ c[1] \notin rinflight /\ Len(rjobs) < BuildDepth
  /\ rinflight' = rinflight \cup {c[1]} /\ rjobs' = Append(rjobs, c[1])
  /\ UNCHANGED <<tcVars, found, red, rb>>

TakeRoute(b) ==
  /\ rb[b] = Free /\ rjobs # <<>>
  /\ rb' = [rb EXCEPT ![b] = [at |-> "load", of |-> Head(rjobs)]]
  /\ rjobs' = Tail(rjobs)
  /\ UNCHANGED <<tcVars, found, red, rinflight>>

(* The detections are read once, for all segments of the route.            *)
LoadDetections(b) ==
  /\ rb[b].at = "load"
  /\ rb' = [rb EXCEPT ![b] = [at |-> "build", of |-> @.of, dets |-> found,
                              todo |-> {s \in Segs : file[Qcam(<<@.of, s>>)] # "none"}]]
  /\ UNCHANGED <<tcVars, found, red, rjobs, rinflight>>

(* Every segment is rendered, also one that has a variant already: blurred *)
(* where the detections loaded say so, a copy otherwise.                   *)
BuildSegment(b) ==
  /\ rb[b].at = "build"
  /\ \E s \in rb[b].todo :
       LET c == <<rb[b].of, s>> IN
       /\ \A t \in rb[b].todo : s <= t
       /\ rb' = [rb EXCEPT ![b].todo = @ \ {s}]
       /\ IF file[Qcam(c)] = "none" THEN red' = red
          ELSE red' = [red EXCEPT ![c] = IF c \in rb[b].dets THEN "blurred" ELSE "plain"]
  /\ UNCHANGED <<tcVars, found, rjobs, rinflight>>

(* Mutant: the early return keeps the route in the in-flight set.          *)
BuildFailsMutant(b) ==
  /\ rb[b].at = "build" /\ Upset /\ rb[b].todo # {}
  /\ rb' = [rb EXCEPT ![b] = Free]
  /\ UNCHANGED <<tcVars, found, red, rjobs, rinflight>>

(* The detections cannot be read, or ffmpeg fails on a segment: then its   *)
(* variant goes, an earlier one too, and the segments after it are not     *)
(* built.                                                                  *)
BuildFails(b) ==
  /\ Upset
  /\ \/ rb[b].at = "load" /\ UNCHANGED red
     \/ /\ rb[b].at = "build"
        /\ \E s \in rb[b].todo :
             /\ \A t \in rb[b].todo : s <= t
             /\ red' = [red EXCEPT ![<<rb[b].of, s>>] = "none"]
  /\ rb' = [rb EXCEPT ![b] = Free]
  /\ rinflight' = rinflight \ {rb[b].of}
  /\ UNCHANGED <<tcVars, found, rjobs>>

FinishRoute(b) ==
  /\ rb[b].at = "build" /\ rb[b].todo = {}
  /\ rb' = [rb EXCEPT ![b] = Free]
  /\ rinflight' = rinflight \ {rb[b].of}
  /\ UNCHANGED <<tcVars, found, red, rjobs>>

----------------------------------------------------------------------------
(* What the store does to the media: a removed directory takes playlists   *)
(* and variants with it, and ffmpeg reads what is at the path.             *)
Removed(r) == clean'.at = "row" /\ clean'.of[1] = r /\ clean.at = "next"

MediaWatch ==
  /\ hls' = [f \in Videos |-> IF Removed(RouteOf(f)) THEN "none" ELSE hls[f]]
  /\ red' = [c \in Clips |-> IF Removed(c[1]) THEN "none" ELSE red[c]]
  /\ tc' = [w \in Workers |->
              IF tc[w].at \notin Stages THEN tc[w]
              ELSE IF Removed(RouteOf(tc[w].f)) THEN [tc[w] EXCEPT !.read = "gone"]
              ELSE IF file'[tc[w].f] = "cut" /\ tc[w].read = "whole"
              THEN [tc[w] EXCEPT !.read = "cut"] ELSE tc[w]]
  /\ UNCHANGED <<jobs, inflight, scan, broken, found, rb, rjobs, rinflight>>

(* The server is killed: queues and in-flight sets are lost, playlists     *)
(* that were begun stay as they are.                                       *)
MediaRestart ==
  /\ tc' = [w \in Workers |-> Free] /\ jobs' = <<>> /\ inflight' = {} /\ scan' = {}
  /\ broken' = broken \cup {tc[w].f : w \in {v \in Workers : tc[v].at \in {"copy", "encode"}}}
  /\ rb' = [b \in Builders |-> Free] /\ rjobs' = <<>> /\ rinflight' = {}
  /\ UNCHANGED <<hls, found, red>>

Scanner == ScanStart \/ \E c \in Clips : ScanClip(c)
Transcode(w) ==
  \/ TakeJob(w) \/ StartCamera(w) \/ FinishJob(w)
  \/ FirstChunk(w) \/ FfmpegDone(w)
Build(b) == TakeRoute(b) \/ LoadDetections(b) \/ BuildSegment(b) \/ FinishRoute(b)

----------------------------------------------------------------------------
InHand == {c \in Clips : \E w \in Workers : tc[w].at # "free" /\ tc[w].clip = c}

(* No clip is in two hands, and the in-flight set is the queue and the     *)
(* workers' clips: an early release would let two ffmpegs write into one   *)
(* directory, a late one would keep the clip from ever being picked up.    *)
OneWriter ==
  /\ inflight = InHand \cup {jobs[i] : i \in DOMAIN jobs}
  /\ \A i, j \in DOMAIN jobs : jobs[i] = jobs[j] => i = j
  /\ \A w \in Workers : tc[w].at # "free" =>
       /\ \A v \in Workers : tc[v].at # "free" /\ tc[v].clip = tc[w].clip => v = w
       /\ \A i \in DOMAIN jobs : jobs[i] # tc[w].clip

(* A playlist nobody is writing is complete, apart from those that the     *)
(* code leaves behind: of an input that was cut, of a re-encode that       *)
(* failed, of a server that was killed.                                    *)
PlaylistWhole ==
  \A f \in Videos :
    hls[f] = "part" =>
      f \in broken \/ (\E w \in Workers : tc[w].at \in {"copy", "encode"} /\ tc[w].f = f)

(* The redaction in-flight set is the queue and the builders' routes, each *)
(* once: a route left in it is answered 503 for good, one that left early  *)
(* is rendered twice into one directory.                                   *)
OneBuild ==
  /\ rinflight = {rjobs[i] : i \in DOMAIN rjobs}
                   \cup {rb[b].of : b \in {d \in Builders : rb[d].at # "free"}}
  /\ \A i, j \in DOMAIN rjobs : rjobs[i] = rjobs[j] => i = j
  /\ \A b \in Builders : rb[b].at # "free" =>
       /\ \A d \in Builders : rb[d].at # "free" /\ rb[d].of = rb[b].of => d = b
       /\ \A i \in DOMAIN rjobs : rjobs[i] # rb[b].of

(* Both pools as SingleFlight sees them. *)
Transcoding == INSTANCE SingleFlight WITH
  Items <- Clips, Hands <- Workers, claims <- inflight,
  waiting <- {jobs[i] : i \in DOMAIN jobs},
  hand <- [w \in Workers |-> IF tc[w].at = "free" THEN {} ELSE {tc[w].clip}]

Building == INSTANCE SingleFlight WITH
  Items <- Routes, Hands <- Builders, claims <- rinflight,
  waiting <- {rjobs[i] : i \in DOMAIN rjobs},
  hand <- [b \in Builders |-> IF rb[b].at = "free" THEN {} ELSE {rb[b].of}]
=============================================================================
