---------------------------- MODULE RouteUpkeep ----------------------------
(***************************************************************************)
(* The upkeep of the routes put together: uploads and cleanup change the   *)
(* files and rows, and the transcoder, the redaction builder, the          *)
(* thumbnailer and the four derivation workers read them at moments of     *)
(* their own.                                                              *)
(***************************************************************************)
EXTENDS RouteThumbs, RouteDerived

CONSTANT Scenarios
  \* what is started (cmd/server/workers.go reads a switch for each worker),
  \* what is there at the start and what may still happen: records with
  \* on, rows, old, ended, sends, upsets

ASSUME UpkeepConstants ==
  \A sc \in Scenarios :
    /\ sc.old \subseteq Files /\ sc.rows \in [Routes -> 0..MaxRows]
    /\ Cardinality({r \in Routes : sc.rows[r] # 0}) <= MaxRows
    /\ \A r \in Routes : sc.rows[r] <= Cardinality({q \in Routes : sc.rows[q] # 0})
    /\ \A f \in sc.old : sc.rows[RouteOf(f)] # 0
    /\ sc.ended \subseteq Routes /\ sc.sends \in [Files -> 0..MaxSends]
    /\ sc.upsets \in 0..MaxUpsets

VARIABLE on     \* the workers that were started

vars == <<storeVars, mediaVars, derivedVars, thumbVars, on>>

StoreInit(sc) ==
  /\ file = [f \in Files |-> IF f \in sc.old THEN "whole" ELSE "none"]
  /\ row = sc.rows /\ lastRow = Cardinality({r \in Routes : sc.rows[r] # 0})
  /\ segs = {ClipOf(f) : f \in sc.old} /\ flags = {FlagOf(f) : f \in sc.old}
  /\ preserved = {} /\ ended = sc.ended /\ expired = {}
  /\ up = [u \in Handlers |-> Idle] /\ clean = Resting
  /\ sends = sc.sends /\ upsets = sc.upsets
  /\ resent = {} /\ overtaken = {} /\ untracked = {}

DerivedInit(sc) ==
  /\ times = [r \in Routes |-> IF r \in sc.ended THEN Logs(r) ELSE {}]
  /\ track = [r \in Routes |-> {s \in times[r] : <<r, s>> \in Gps}]
  /\ recent = {} /\ trip = [r \in Routes |-> NoTrip]
  /\ events = [c \in Clips |-> "none"] /\ turns = [r \in Routes |-> {}]
  /\ job = [w \in DerivedWorkers |-> Rest] /\ late = {} /\ reused = {}

Init == \E sc \in Scenarios : StoreInit(sc) /\ MediaInit /\ DerivedInit(sc) /\ ThumbInit /\ on = sc.on

(* The turn detector has no switch.                                        *)
Running(w) == w \in on \cup {"turns", "backfill"}

StoreStep ==
  /\ \/ \E u \in Handlers : Upload(u)
     \/ \E r \in Routes : SetPreserved(r) \/ Expire(r)
     \/ Running("cleanup") /\ (ListStale \/ RemoveFiles \/ DeleteRow \/ CleanFails)
  /\ MediaWatch /\ DerivedWatch /\ ThumbWatch /\ UNCHANGED on

ButUpsets == <<file, rowVars, up, clean, sends, histVars>>
ButEnded  == <<file, row, lastRow, segs, flags, preserved, expired, up, clean, sends, upsets, histVars>>

ScannerStep     == Running("transcoder") /\ Scanner /\ UNCHANGED <<storeVars, derivedVars, thumbVars, on>>
TranscodeStep(w) == Transcode(w) /\ UNCHANGED <<storeVars, derivedVars, thumbVars, on>>
FfmpegFailsStep(w) == FfmpegFails(w) /\ UNCHANGED <<ButUpsets, derivedVars, thumbVars, on>>
FfmpegGone(w)   == tc[w].at \in Stages /\ tc[w].read = "gone" /\ FfmpegFailsStep(w)

MediaStep ==
  \/ ScannerStep
  \/ \E w \in Workers : TranscodeStep(w) \/ FfmpegFailsStep(w)
  \/ /\ Running("alpr")
     /\ \/ (\E c \in Clips : Detect(c) \/ View(c)) /\ UNCHANGED storeVars
        \/ \E b \in Builders : \/ Build(b) /\ UNCHANGED storeVars
                               \/ BuildFails(b) /\ UNCHANGED ButUpsets
     /\ UNCHANGED <<derivedVars, thumbVars, on>>

DeriveStep(w) ==
  /\ Running(w)
  /\ \/ Derive(w) /\ UNCHANGED storeVars
     \/ w = "metadata" /\ WriteMetadata /\ UNCHANGED ButEnded
  /\ UNCHANGED <<mediaVars, thumbVars, on>>

SettleStep(r) == Settle(r) /\ UNCHANGED <<storeVars, mediaVars, thumbVars, on>>

DerivedStep ==
  \/ \E w \in DerivedWorkers : DeriveStep(w)
  \/ \E r \in Routes : SettleStep(r)
  \/ /\ WriteEventsFails \/ \E w \in DerivedWorkers : PassFails(w)
     /\ UNCHANGED <<ButUpsets, mediaVars, thumbVars, on>>

ThumbScanStep == Running("thumbs") /\ (ThumbPass \/ \E r \in Routes : Consider(r))
                   /\ UNCHANGED <<storeVars, mediaVars, derivedVars, on>>
GenerateStep == Generate /\ UNCHANGED <<storeVars, mediaVars, derivedVars, on>>
CoolStep(c)  == CoolsDown(c) /\ UNCHANGED <<storeVars, mediaVars, derivedVars, on>>
ShotFailsStep == ShotFails /\ UNCHANGED <<ButUpsets, mediaVars, derivedVars, on>>
ShotGone     == gen.at = "shoot" /\ gen.read = "gone" /\ ShotFailsStep

ThumbStep ==
  ThumbScanStep \/ GenerateStep \/ ShotFailsStep \/ \E c \in Clips : CoolStep(c)

Restart == StoreRestart /\ MediaRestart /\ DerivedRestart /\ ThumbRestart /\ UNCHANGED on

Next == StoreStep \/ MediaStep \/ DerivedStep \/ ThumbStep \/ Restart

(* The loops of the workers go round, an ffmpeg ends, and time passes.     *)
(* Nothing is assumed of requests, failures and restarts.                  *)
Fairness ==
  /\ WF_vars(ScannerStep)
  /\ \A w \in Workers : WF_vars(TranscodeStep(w)) /\ WF_vars(FfmpegGone(w))
  /\ \A w \in DerivedWorkers : WF_vars(DeriveStep(w))
  /\ WF_vars(ThumbScanStep) /\ WF_vars(GenerateStep) /\ WF_vars(ShotGone)
  /\ \A c \in Clips : WF_vars(CoolStep(c))
  /\ \A r \in Routes : WF_vars(SettleStep(r))

Spec == Init /\ [][Next]_vars
FairSpec == Spec /\ Fairness

----------------------------------------------------------------------------
TypeOK == StoreTypeOK /\ MediaTypeOK /\ DerivedTypeOK /\ ThumbTypeOK

(* Each of the three pools keeps what SingleFlight promises, whatever the  *)
(* store, the other pools and the failures do meanwhile: a clip or route   *)
(* is claimed before it is queued, taken from the queue by one hand, and   *)
(* given back by that hand at every end its work can have.                 *)
PoolsSingleFlight == Transcoding!SFSpec /\ Building!SFSpec /\ Shooting!SFSpec

(* A video that stays, of a route with a row, gets a playlist, whatever    *)
(* the queue and the in-flight set held when it came; as long as fewer     *)
(* than Depth clips have a video that nobody completes any more, on which  *)
(* ffmpeg may fail in every pass.                                          *)
Packaged ==
  []<>(\A f \in Videos :
         /\ "transcoder" \in on
         /\ file[f] = "whole" /\ row[RouteOf(f)] # 0
         /\ Cardinality({ClipOf(g) : g \in {h \in Videos : file[h] = "cut"}}) < Depth
         => hls[f] # "none")

(* A route whose log has a GPS fix gets its track, when fewer than         *)
(* BatchLimit routes before it wait for a fix that never comes, and none   *)
(* of its own logs stays cut: one that does fails every read of them all.  *)
MetadataArrives ==
  []<>(\A c \in Gps :
         /\ "metadata" \in on
         /\ file[Log(c)] = "whole" /\ c \in segs /\ CutLogs(c[1]) = {}
         /\ Cardinality({r \in Routes : row[r] # 0 /\ row[r] < row[c[1]] /\ track[r] = {}}) < BatchLimit
         => track[c[1]] # {})

(* A route among the newest ThumbLimit whose first video is whole gets its *)
(* preview, however many passes found the queue full, the job in flight or *)
(* an earlier failure cooling down, and although an earlier segment may    *)
(* arrive in between; as long as fewer than ThumbDepth routes have a first *)
(* video that nobody completes any more.                                   *)
Thumbnailed ==
  []<>(\A r \in Recent : \A c \in Selected(r) :
         /\ "thumbs" \in on
         /\ file[Qcam(c)] = "whole"
         /\ Cardinality({q \in Routes : \E d \in Selected(q) : file[Qcam(d)] = "cut"}) < ThumbDepth
         => c \in thumb)
=============================================================================
