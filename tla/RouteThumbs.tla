----------------------------- MODULE RouteThumbs -----------------------------
(***************************************************************************)
(* The preview of a route: the thumbnailer scans the newest routes, queues *)
(* each of them once and has one generator take a frame of the first       *)
(* segment with a qcamera.  What it did is only recorded next to the       *)
(* video: thumbnail.jpg, or thumbnail.failed, which keeps the segment from *)
(* being tried again for half an hour.                                     *)
(***************************************************************************)
EXTENDS RouteMedia

CONSTANTS
  ThumbLimit,   \* scanLimit: how many routes a pass looks at
  ThumbDepth    \* capacity of the job queue

ASSUME ThumbConstants == ThumbLimit \in Nat \ {0} /\ ThumbDepth \in Nat \ {0}

VARIABLES
  thumb,        \* the clips with a thumbnail.jpg
  cooling,      \* the clips with a thumbnail.failed younger than retryAfter
  gen,          \* the generator
  shots,        \* the job queue, of clips
  claimed,      \* the in-flight set, of routes
  toScan        \* what is left of the scanner's pass

thumbVars == <<thumb, cooling, gen, shots, claimed, toScan>>

GenStates ==
  {Free} \cup [at : {"stat", "mark", "clear"}, clip : Clips]
    \cup [at : {"shoot"}, clip : Clips, read : {"whole", "cut", "gone"}]

ThumbTypeOK ==
  /\ thumb \subseteq Clips /\ cooling \subseteq Clips /\ gen \in GenStates
  /\ shots \in Seq(Clips) /\ Len(shots) <= ThumbDepth
  /\ claimed \subseteq Routes /\ toScan \subseteq Routes

ThumbInit ==
  /\ thumb = {} /\ cooling = {} /\ gen = Free
  /\ shots = <<>> /\ claimed = {} /\ toScan = {}

----------------------------------------------------------------------------
(* ListRecentRoutes: ids are given in the order of created_at.             *)
Recent == {r \in Routes : row[r] # 0 /\ Cardinality({q \in Routes : row[q] > row[r]}) < ThumbLimit}

(* SelectSegment: segment 0, or the lowest one that has a qcamera.         *)
Selected(r) ==
  {c \in Clips : c[1] = r /\ file[Qcam(c)] # "none"
                 /\ \A s \in Segs : s < c[2] => file[Qcam(<<r, s>>)] = "none"}

ThumbPass ==
  /\ toScan = {} /\ Recent # {} /\ toScan' = Recent
  /\ UNCHANGED <<thumb, cooling, gen, shots, claimed>>

(* A route is queued once, and not at all while the queue is full.         *)
Consider(r) ==
  /\ r \in toScan /\ toScan' = toScan \ {r}
  /\ LET wanted == Selected(r) \ (thumb \cup cooling) IN
       IF wanted = {} \/ r \in claimed \/ Len(shots) = ThumbDepth
       THEN UNCHANGED <<shots, claimed>>
       ELSE \E c \in wanted : shots' = Append(shots, c) /\ claimed' = claimed \cup {r}
  /\ UNCHANGED <<thumb, cooling, gen>>

TakeShot ==
  /\ gen = Free /\ shots # <<>>
  /\ gen' = [at |-> "stat", clip |-> Head(shots)] /\ shots' = Tail(shots)
  /\ UNCHANGED <<thumb, cooling, claimed, toScan>>

(* generate looks for the video again, the scan may be long ago.           *)
StatInput ==
  /\ gen.at = "stat"
  /\ gen' = IF file[Qcam(gen.clip)] = "none" THEN [gen EXCEPT !.at = "mark"]
            ELSE [at |-> "shoot", clip |-> gen.clip, read |-> file[Qcam(gen.clip)]]
  /\ UNCHANGED <<thumb, cooling, shots, claimed, toScan>>

(* ffmpeg has written a sibling file, which is renamed; not in a directory *)
(* that was removed, unless an upload made it again.                       *)
ShotTaken ==
  /\ gen.at = "shoot" /\ (gen.read # "gone" \/ file[Qcam(gen.clip)] # "none")
  /\ thumb' = thumb \cup {gen.clip}
  /\ gen' = [at |-> "clear", clip |-> gen.clip]
  /\ UNCHANGED <<cooling, shots, claimed, toScan>>

(* ffmpeg or the rename fails, as it may on a video that is not whole.     *)
ShotFails ==
  /\ gen.at = "shoot" /\ gen' = [at |-> "mark", clip |-> gen.clip]
  /\ IF gen.read = "whole" THEN Upset ELSE UNCHANGED upsets
  /\ UNCHANGED <<thumb, cooling, shots, claimed, toScan>>

(* Mutant: a failure leaves the generator before the in-flight set.        *)
MarkFailedMutant ==
  /\ gen.at = "mark" /\ gen' = Free
  /\ cooling' = cooling \cup {gen.clip}
  /\ UNCHANGED <<thumb, shots, claimed, toScan>>

(* markFailed makes the directory if it must, even that of a deleted       *)
(* route; then the route leaves the in-flight set.                         *)
MarkFailed ==
  /\ gen.at = "mark" /\ gen' = Free
  /\ cooling' = cooling \cup {gen.clip} /\ claimed' = claimed \ {gen.clip[1]}
  /\ UNCHANGED <<thumb, shots, toScan>>

ClearFailure ==
  /\ gen.at = "clear" /\ gen' = Free
  /\ cooling' = cooling \ {gen.clip} /\ claimed' = claimed \ {gen.clip[1]}
  /\ UNCHANGED <<thumb, shots, toScan>>

CoolsDown(c) ==
  /\ c \in cooling /\ cooling' = cooling \ {c}
  /\ UNCHANGED <<thumb, gen, shots, claimed, toScan>>

Generate == TakeShot \/ StatInput \/ ShotTaken \/ MarkFailed \/ ClearFailure

(* What the store does: a removed directory takes both markers with it.    *)
ThumbWatch ==
  /\ thumb' = {c \in thumb : ~Removed(c[1])} /\ cooling' = {c \in cooling : ~Removed(c[1])}
  /\ gen' = IF gen.at # "shoot" THEN gen
            ELSE IF Removed(gen.clip[1]) THEN [gen EXCEPT !.read = "gone"]
            ELSE IF file'[Qcam(gen.clip)] = "cut" /\ gen.read = "whole"
            THEN [gen EXCEPT !.read = "cut"] ELSE gen
  /\ UNCHANGED <<shots, claimed, toScan>>

ThumbRestart ==
  /\ gen' = Free /\ shots' = <<>> /\ claimed' = {} /\ toScan' = {}
  /\ UNCHANGED <<thumb, cooling>>

----------------------------------------------------------------------------
(* The in-flight set is the queue and the generator's route, each once: a  *)
(* route left in it never gets a preview, one that left early is queued    *)
(* again while it is still being worked on.                                *)
OneShot ==
  /\ claimed = {shots[i][1] : i \in DOMAIN shots}
                 \cup (IF gen.at = "free" THEN {} ELSE {gen.clip[1]})
  /\ \A i, j \in DOMAIN shots : shots[i][1] = shots[j][1] => i = j
  /\ gen.at # "free" => \A i \in DOMAIN shots : shots[i][1] # gen.clip[1]

(* The queue holds clips, the in-flight set their routes; one generator.   *)
Shooting == INSTANCE SingleFlight WITH
  Items <- Routes, Hands <- {"generator"}, claims <- claimed,
  waiting <- {shots[i][1] : i \in DOMAIN shots},
  hand <- [h \in {"generator"} |-> IF gen.at = "free" THEN {} ELSE {gen.clip[1]}]
=============================================================================
