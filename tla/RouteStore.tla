----------------------------- MODULE RouteStore -----------------------------
(***************************************************************************)
(* The files and the rows of the routes: the handler of PUT /upload, the   *)
(* tracking of what it stored, the preserve switch and the retention       *)
(* cleanup.  The directory tree and the tables are written one after the   *)
(* other and by different hands, with no lock and no transaction around    *)
(* both.                                                                   *)
(*                                                                         *)
(* A clip is one segment of a route, a file one upload of a clip.  A file  *)
(* is absent, cut (being written, or what a crash left of it) or whole;    *)
(* its bytes are not modelled, and every upload of it carries the same.    *)
(***************************************************************************)
EXTENDS Naturals, FiniteSets

CONSTANTS
  Routes,       \* route names, of one device
  Segs,         \* segment numbers
  Handlers,     \* requests the server can serve at the same time
  Limit,        \* MaxDeletionsPerRun of the cleanup
  MaxSends,     \* bound: uploads of a file
  MaxUpsets,    \* bound: failures and restarts
  MaxRows       \* bound: rows ever made in routes

ASSUME StoreConstants ==
  /\ MaxSends \in Nat /\ MaxUpsets \in Nat /\ MaxRows \in Nat /\ Limit \in Nat \ {0}
  /\ IsFiniteSet(Routes) /\ IsFiniteSet(Segs) /\ IsFiniteSet(Handlers)

(* The names of the files of a clip.  fcamera~ is fcamera.hevc~, which     *)
(* says that the recording of the video is under way; the other cameras    *)
(* and the full logs are like these, and a device sends a log under one    *)
(* of its names (raw, .bz2, .zst).                                         *)
Kinds == {"fcamera", "fcamera~", "qcamera", "qlog"}
Clips == Routes \X Segs
Files == Routes \X Segs \X Kinds

RouteOf(f) == f[1]
ClipOf(f)  == <<f[1], f[2]>>
KindOf(f)  == f[3]

(* filenameToFlag: the marker sets the same flag as the video.             *)
FlagOf(f) == IF KindOf(f) = "fcamera~" THEN <<f[1], f[2], "fcamera">> ELSE f

VARIABLES
  file,         \* [Files -> {"none", "cut", "whole"}]
  row,          \* the id of a route's row in routes, 0 without one
  lastRow,      \* the highest id given
  segs,         \* the clips that have a row in segments
  flags,        \* the *_uploaded columns that are set, each as FlagOf a file
  preserved,    \* routes.preserved
  ended,        \* the routes whose end_time is known
  expired,      \* of these, the ones whose end_time is before the cutoff
  up,           \* the upload handlers
  clean,        \* the cleanup pass: the routes it listed and the one it deletes
  sends,        \* budget: how often a file may still be sent
  upsets,       \* budget: failures and restarts
  resent,       \* history: files sent again while there was something of them
  overtaken,    \* history: files on their way while their route was deleted
  untracked     \* history: files stored without their tracking going through

rowVars   == <<row, lastRow, segs, flags, preserved, ended, expired>>
histVars  == <<resent, overtaken, untracked>>
storeVars == <<file, rowVars, up, clean, sends, upsets, histVars>>

(* A request of the upload handler.  mine says that the path still leads   *)
(* to the file it opened and that nobody truncated it since.               *)
Idle       == [at |-> "idle"]
Copying(f) == [at |-> "copy", f |-> f, mine |-> TRUE]
Noting(f)  == [at |-> "row", f |-> f]
Uploads    == {Idle} \cup [at : {"copy"}, f : Files, mine : BOOLEAN]
                \cup [at : {"row"}, f : Files]
                \cup [at : {"seg", "flag"}, f : Files, id : 1..MaxRows]

Busy(f) == \E u \in Handlers : up[u].at # "idle" /\ up[u].f = f

Listed  == Routes \X (1..MaxRows)
Resting == [at |-> "rest", todo |-> {}]
Passes  == {Resting} \cup [at : {"next"}, todo : SUBSET Listed]
             \cup [at : {"row"}, todo : SUBSET Listed, of : Listed]

StoreTypeOK ==
  /\ file \in [Files -> {"none", "cut", "whole"}]
  /\ row \in [Routes -> 0..MaxRows] /\ lastRow \in 0..MaxRows
  /\ segs \subseteq Clips /\ flags \subseteq Files
  /\ preserved \subseteq Routes /\ ended \subseteq Routes /\ expired \subseteq ended
  /\ up \in [Handlers -> Uploads] /\ clean \in Passes
  /\ sends \in [Files -> 0..MaxSends] /\ upsets \in 0..MaxUpsets
  /\ resent \subseteq Files /\ overtaken \subseteq Files /\ untracked \subseteq Files

Upset == upsets > 0 /\ upsets' = upsets - 1

----------------------------------------------------------------------------
(* PUT /upload/<dongle>/<route>/<segment>/<file>                           *)

(* os.Create truncates what is at the path.  A slower copy of the same     *)
(* file goes on writing into it, behind the new one's back.                *)
UploadStart(u, f) ==
  /\ up[u] = Idle /\ sends[f] > 0
  /\ sends' = [sends EXCEPT ![f] = @ - 1]
  /\ file' = [file EXCEPT ![f] = "cut"]
  /\ up' = [v \in Handlers |->
              IF v = u THEN Copying(f)
              ELSE IF up[v].at = "copy" /\ up[v].f = f THEN [up[v] EXCEPT !.mine = FALSE]
              ELSE up[v]]
  /\ resent' = IF file[f] # "none" \/ Busy(f) THEN resent \cup {f} ELSE resent
  /\ overtaken' = IF clean.at = "row" /\ clean.of[1] = RouteOf(f)
                  THEN overtaken \cup {f} ELSE overtaken
  /\ UNCHANGED <<rowVars, clean, upsets, untracked>>

(* The copy is complete.  One whose file was truncated or removed under it *)
(* answers 200 like any other.                                             *)
Copied(u) ==
  /\ up[u].at = "copy"
  /\ file' = IF up[u].mine THEN [file EXCEPT ![up[u].f] = "whole"] ELSE file
  /\ up' = [up EXCEPT ![u] = Noting(up[u].f)]
  /\ UNCHANGED <<rowVars, clean, sends, upsets, histVars>>

(* Mutant: the handler drops the error of Store and goes on to track.      *)
CopyFailsMutant(u) ==
  /\ up[u].at = "copy" /\ Upset
  /\ file' = [file EXCEPT ![up[u].f] = "none"]
  /\ up' = [up EXCEPT ![u] = Noting(up[u].f)]
  /\ UNCHANGED <<rowVars, clean, sends, histVars>>

(* The copy fails: os.Remove takes whatever is at the path by now.         *)
CopyFails(u) ==
  /\ up[u].at = "copy" /\ Upset
  /\ file' = [file EXCEPT ![up[u].f] = "none"]
  /\ up' = [v \in Handlers |->
              IF v = u THEN Idle
              ELSE IF up[v].at = "copy" /\ up[v].f = up[u].f THEN [up[v] EXCEPT !.mine = FALSE]
              ELSE up[v]]
  /\ UNCHANGED <<rowVars, clean, sends, histVars>>

(* trackUpload: GetRoute, or CreateRoute and, when another request was     *)
(* faster, GetRoute again.                                                 *)
GetOrCreateRoute(u) ==
  /\ up[u].at = "row"
  /\ LET r == RouteOf(up[u].f) IN
     /\ \/ row[r] # 0 /\ UNCHANGED <<row, lastRow>>
        \/ /\ row[r] = 0 /\ lastRow < MaxRows
           /\ lastRow' = lastRow + 1
           /\ row' = [row EXCEPT ![r] = lastRow + 1]
     /\ up' = [up EXCEPT ![u] = [at |-> "seg", f |-> up[u].f, id |-> row'[r]]]
  /\ UNCHANGED <<file, segs, flags, preserved, ended, expired, clean, sends, upsets, histVars>>

(* The id is only good while the row is there: the foreign key refuses the *)
(* segment of a deleted route, and the handler answers 200 all the same.   *)
CreateSegment(u) ==
  /\ up[u].at = "seg"
  /\ LET f == up[u].f IN
     \/ /\ row[RouteOf(f)] = up[u].id
        /\ segs' = segs \cup {ClipOf(f)}
        /\ up' = [up EXCEPT ![u] = [@ EXCEPT !.at = "flag"]]
        /\ UNCHANGED untracked
     \/ /\ row[RouteOf(f)] # up[u].id
        /\ untracked' = untracked \cup {f}
        /\ up' = [up EXCEPT ![u] = Idle]
        /\ UNCHANGED segs
  /\ UNCHANGED <<file, row, lastRow, flags, preserved, ended, expired, clean, sends, upsets,
                 resent, overtaken>>

(* An UPDATE by route id and segment number; without the row it changes    *)
(* nothing and reports no error.                                           *)
SetFlag(u) ==
  /\ up[u].at = "flag"
  /\ flags' = IF row[RouteOf(up[u].f)] = up[u].id THEN flags \cup {FlagOf(up[u].f)} ELSE flags
  /\ up' = [up EXCEPT ![u] = Idle]
  /\ UNCHANGED <<file, row, lastRow, segs, preserved, ended, expired, clean, sends, upsets,
                 histVars>>

(* A query of trackUpload fails; it is logged and the answer is 200.       *)
TrackFails(u) ==
  /\ up[u].at \in {"row", "seg", "flag"} /\ Upset
  /\ untracked' = untracked \cup {up[u].f}
  /\ up' = [up EXCEPT ![u] = Idle]
  /\ UNCHANGED <<file, rowVars, clean, sends, resent, overtaken>>

(* PUT /v1/routes/<dongle>/<route>/preserved; 404 without a row.           *)
SetPreserved(r) ==
  /\ row[r] # 0
  /\ preserved' = IF r \in preserved THEN preserved \ {r} ELSE preserved \cup {r}
  /\ Upset
  /\ UNCHANGED <<file, row, lastRow, segs, flags, ended, expired, up, clean, sends, histVars>>

Expire(r) ==
  /\ r \in ended \ expired
  /\ expired' = expired \cup {r}
  /\ UNCHANGED <<file, row, lastRow, segs, flags, preserved, ended, up, clean, sends, upsets,
                 histVars>>

----------------------------------------------------------------------------
(* CleanupWorker.RunOnce                                                   *)

Stale == {r \in Routes : row[r] # 0 /\ r \notin preserved /\ r \in expired}

(* ListStaleRoutes: at most Limit of them, whichever ended first.          *)
ListStale ==
  /\ clean = Resting /\ Stale # {}
  /\ \E S \in SUBSET Stale :
       /\ Cardinality(S) = (IF Cardinality(Stale) < Limit THEN Cardinality(Stale) ELSE Limit)
       /\ clean' = [at |-> "next", todo |-> {<<r, row[r]>> : r \in S}]
  /\ UNCHANGED <<file, rowVars, up, sends, upsets, histVars>>

(* deleteRoute, first half: the directory goes, with all that is in it.    *)
(* Neither the row nor the preserve flag is looked at again.               *)
RemoveFiles ==
  /\ clean.at = "next"
  /\ \E e \in clean.todo :
       LET r == e[1] IN
       /\ file' = [f \in Files |-> IF RouteOf(f) = r THEN "none" ELSE file[f]]
       /\ up' = [u \in Handlers |->
                   IF up[u].at = "copy" /\ RouteOf(up[u].f) = r
                   THEN [up[u] EXCEPT !.mine = FALSE] ELSE up[u]]
       /\ overtaken' = overtaken \cup {f \in Files : RouteOf(f) = r /\ Busy(f)}
       /\ clean' = [at |-> "row", todo |-> clean.todo \ {e}, of |-> e]
  /\ UNCHANGED <<rowVars, sends, upsets, resent, untracked>>

(* What DELETE FROM routes WHERE id takes along: segments cascade.         *)
DropRow(r, id) ==
  /\ row' = [row EXCEPT ![r] = IF @ = id THEN 0 ELSE @]
  /\ LET gone == IF row[r] = id THEN {r} ELSE {} IN
     /\ segs' = {c \in segs : c[1] \notin gone}
     /\ flags' = {f \in flags : RouteOf(f) \notin gone}
     /\ preserved' = preserved \ gone
     /\ ended' = ended \ gone /\ expired' = expired \ gone

AfterRoute == IF clean.todo = {} THEN Resting ELSE [at |-> "next", todo |-> clean.todo]

DeleteRow ==
  /\ clean.at = "row"
  /\ DropRow(clean.of[1], clean.of[2])
  /\ clean' = AfterRoute
  /\ UNCHANGED <<file, lastRow, up, sends, upsets, histVars>>

(* Mutant: a failed removal is logged and the row deleted all the same.    *)
CleanFailsMutant ==
  /\ Upset
  /\ \/ clean.at = "row" /\ clean' = AfterRoute
     \/ /\ clean.at = "next"
        /\ \E e \in clean.todo : clean' = [at |-> "row", todo |-> clean.todo \ {e}, of |-> e]
  /\ UNCHANGED <<file, rowVars, up, sends, histVars>>

(* Either half fails, the first one before it removed anything: the route  *)
(* is skipped and the next pass finds it.                                  *)
CleanFails ==
  /\ Upset
  /\ \/ clean.at = "row" /\ clean' = AfterRoute
     \/ /\ clean.at = "next"
        /\ \E e \in clean.todo :
             clean' = IF clean.todo = {e} THEN Resting ELSE [clean EXCEPT !.todo = @ \ {e}]
  /\ UNCHANGED <<file, rowVars, up, sends, histVars>>

(* The server is killed and started again: a request takes its copy with   *)
(* it and leaves the part it wrote, without a row if there was none.       *)
StoreRestart ==
  /\ Upset
  /\ up' = [u \in Handlers |-> Idle] /\ clean' = Resting
  /\ untracked' = untracked \cup {f \in Files : Busy(f)}
  /\ UNCHANGED <<file, rowVars, sends, resent, overtaken>>

Upload(u) ==
  \/ \E f \in Files : UploadStart(u, f)
  \/ Copied(u) \/ CopyFails(u)
  \/ GetOrCreateRoute(u) \/ CreateSegment(u) \/ SetFlag(u) \/ TrackFails(u)

----------------------------------------------------------------------------
(* What has been stored stays whole while the route is within its          *)
(* retention.  The exceptions are the files sent again (a second copy      *)
(* truncates the first one, or removes it when it fails) and those on      *)
(* their way while the cleanup took their route.                           *)
Stored(f) == file[f] = "whole" \/ f \in resent \cup overtaken \/ RouteOf(f) \in expired

(* A flag says that a file which sets it was stored: it is set after the   *)
(* copy and falls with the row.  It does not say which: the flag of a      *)
(* camera may stand with nothing but the marker of an unfinished video.    *)
FlagMeansStored == \A k \in flags : \E f \in Files : FlagOf(f) = k /\ Stored(f)

(* cleanup.go:162: files first, so that a failure in between leaves rows    *)
(* without files, which the next pass finds, and never files without a     *)
(* row, which nothing finds.  The exceptions are the uploads whose         *)
(* tracking failed and those that met the deletion.                        *)
NoOrphans ==
  \A f \in Files :
    file[f] # "none" /\ ~Busy(f) /\ f \notin untracked \cup overtaken => row[RouteOf(f)] # 0
=============================================================================
