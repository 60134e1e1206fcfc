-------------------------- MODULE RouteStore_proofs -------------------------
(***************************************************************************)
(* For any number of routes, segments, handlers, uploads, rows and         *)
(* failures: a flag means a stored file, and a file that nobody is sending *)
(* has a row, up to the exceptions that the two invariants name.           *)
(***************************************************************************)
EXTENDS RouteUpkeep, FiniteSetTheorems, TLAPS

----------------------------------------------------------------------------
(* The records: requests of the upload handler and passes of the cleanup.  *)

LEMMA UploadRows ==
  /\ Idle \in Uploads /\ Idle.at = "idle"
  /\ \A f \in Files :
       /\ Copying(f) \in Uploads /\ Copying(f).at = "copy"
       /\ Copying(f).f = f /\ Copying(f).mine = TRUE
       /\ Noting(f) \in Uploads /\ Noting(f).at = "row" /\ Noting(f).f = f
       /\ \A i \in 1..MaxRows : [at |-> "seg", f |-> f, id |-> i] \in Uploads
  /\ \A x \in Uploads :
       /\ x.at \in {"idle", "copy", "row", "seg", "flag"}
       /\ x.at = "idle" => x = Idle
       /\ x.at # "idle" => x.f \in Files
       /\ x.at = "copy" =>
            /\ [x EXCEPT !.mine = FALSE] \in Uploads
            /\ [x EXCEPT !.mine = FALSE].at = "copy"
            /\ [x EXCEPT !.mine = FALSE].f = x.f
            /\ [x EXCEPT !.mine = FALSE].mine = FALSE
       /\ x.at \in {"seg", "flag"} => x.id \in 1..MaxRows
       /\ x.at = "seg" =>
            /\ [x EXCEPT !.at = "flag"] \in Uploads
            /\ [x EXCEPT !.at = "flag"].at = "flag"
            /\ [x EXCEPT !.at = "flag"].f = x.f
            /\ [x EXCEPT !.at = "flag"].id = x.id
<1>1. \A x \in Uploads :
        \/ x = Idle
        \/ x \in [at : {"copy"}, f : Files, mine : BOOLEAN]
        \/ x \in [at : {"row"}, f : Files]
        \/ x \in [at : {"seg", "flag"}, f : Files, id : 1..MaxRows]
  BY DEF Uploads
<1>2. \A x \in Uploads :
        /\ x.at \in {"idle", "copy", "row", "seg", "flag"}
        /\ x.at = "idle" => x = Idle
        /\ x.at # "idle" => x.f \in Files
        /\ x.at \in {"seg", "flag"} => x.id \in 1..MaxRows
        /\ x.at = "copy" => x \in [at : {"copy"}, f : Files, mine : BOOLEAN]
        /\ x.at = "seg" => x \in [at : {"seg", "flag"}, f : Files, id : 1..MaxRows]
  BY <1>1 DEF Idle
<1>3. Idle \in Uploads /\ Idle.at = "idle"
  BY DEF Idle, Uploads
<1>4. ASSUME NEW f \in Files
      PROVE  /\ Copying(f) \in Uploads /\ Copying(f).at = "copy"
             /\ Copying(f).f = f /\ Copying(f).mine = TRUE
             /\ Noting(f) \in Uploads /\ Noting(f).at = "row" /\ Noting(f).f = f
             /\ \A i \in 1..MaxRows : [at |-> "seg", f |-> f, id |-> i] \in Uploads
  BY DEF Copying, Noting, Uploads
<1>5. ASSUME NEW x \in [at : {"copy"}, f : Files, mine : BOOLEAN]
      PROVE  /\ [x EXCEPT !.mine = FALSE] \in [at : {"copy"}, f : Files, mine : BOOLEAN]
             /\ [x EXCEPT !.mine = FALSE].at = "copy"
             /\ [x EXCEPT !.mine = FALSE].f = x.f
             /\ [x EXCEPT !.mine = FALSE].mine = FALSE
  OBVIOUS
<1>6. ASSUME NEW x \in [at : {"seg", "flag"}, f : Files, id : 1..MaxRows]
      PROVE  /\ [x EXCEPT !.at = "flag"] \in [at : {"seg", "flag"}, f : Files, id : 1..MaxRows]
             /\ [x EXCEPT !.at = "flag"].at = "flag"
             /\ [x EXCEPT !.at = "flag"].f = x.f
             /\ [x EXCEPT !.at = "flag"].id = x.id
  OBVIOUS
<1>7. /\ [at : {"copy"}, f : Files, mine : BOOLEAN] \subseteq Uploads
      /\ [at : {"seg", "flag"}, f : Files, id : 1..MaxRows] \subseteq Uploads
  BY DEF Uploads
<1> QED BY <1>2, <1>3, <1>4, <1>5, <1>6, <1>7

LEMMA PassRows ==
  /\ Resting \in Passes /\ Resting.at = "rest" /\ Resting.todo = {}
  /\ \A S \in SUBSET Listed :
       /\ [at |-> "next", todo |-> S] \in Passes
       /\ \A e \in Listed : [at |-> "row", todo |-> S, of |-> e] \in Passes
  /\ \A x \in Passes :
       /\ x.at \in {"rest", "next", "row"} /\ x.todo \in SUBSET Listed
       /\ x.at = "rest" => x = Resting
       /\ x.at = "row" => x.of \in Listed
       /\ x.at = "next" => \A S \in SUBSET Listed : [x EXCEPT !.todo = S] = [at |-> "next", todo |-> S]
<1>1. \A x \in Passes :
        \/ x = Resting
        \/ x \in [at : {"next"}, todo : SUBSET Listed]
        \/ x \in [at : {"row"}, todo : SUBSET Listed, of : Listed]
  BY DEF Passes
<1>2. Resting \in Passes /\ Resting.at = "rest" /\ Resting.todo = {}
  BY DEF Resting, Passes
<1>3. ASSUME NEW S \in SUBSET Listed
      PROVE  /\ [at |-> "next", todo |-> S] \in Passes
             /\ \A e \in Listed : [at |-> "row", todo |-> S, of |-> e] \in Passes
  BY DEF Passes
<1>4. \A x \in Passes :
        /\ x.at \in {"rest", "next", "row"} /\ x.todo \in SUBSET Listed
        /\ x.at = "rest" => x = Resting
        /\ x.at = "row" => x.of \in Listed
        /\ x.at = "next" => x \in [at : {"next"}, todo : SUBSET Listed]
  BY <1>1 DEF Resting
<1>5. ASSUME NEW x \in [at : {"next"}, todo : SUBSET Listed], NEW S \in SUBSET Listed
      PROVE  [x EXCEPT !.todo = S] = [at |-> "next", todo |-> S]
  OBVIOUS
<1> QED BY <1>2, <1>3, <1>4, <1>5

----------------------------------------------------------------------------
(* Types.  routes.end_time is written by the metadata worker and comes     *)
(* with its types.                                                         *)

StoreTyped ==
  /\ file \in [Files -> {"none", "cut", "whole"}]
  /\ row \in [Routes -> 0..MaxRows] /\ lastRow \in 0..MaxRows
  /\ segs \subseteq Clips /\ flags \subseteq Files
  /\ preserved \subseteq Routes /\ expired \subseteq Routes
  /\ up \in [Handlers -> Uploads] /\ clean \in Passes
  /\ sends \in [Files -> 0..MaxSends] /\ upsets \in 0..MaxUpsets
  /\ resent \subseteq Files /\ overtaken \subseteq Files /\ untracked \subseteq Files

\* What the other workers do to the store: times, and a failure spent.
Elsewhere ==
  /\ UNCHANGED <<file, row, lastRow, segs, flags, preserved, expired, up, clean, sends, histVars>>
  /\ upsets' = upsets \/ Upset

Cleanup == ListStale \/ RemoveFiles \/ DeleteRow \/ CleanFails

LEMMA StoreSteps ==
  ASSUME [Next]_vars
  PROVE  \/ \E u \in Handlers : Upload(u)
         \/ \E r \in Routes : SetPreserved(r) \/ Expire(r)
         \/ Cleanup
         \/ StoreRestart
         \/ Elsewhere
<1>1. CASE StoreStep
  BY <1>1 DEF StoreStep, Cleanup, Expire
<1>2. CASE Restart
  BY <1>2 DEF Restart
<1>3. CASE MediaStep
  <2>1. UNCHANGED storeVars \/ (UNCHANGED ButUpsets /\ (upsets' = upsets \/ Upset))
    BY <1>3 DEF MediaStep, ScannerStep, TranscodeStep, FfmpegFailsStep, FfmpegFails, MayFail, BuildFails
  <2> QED BY <2>1 DEF storeVars, rowVars, ButUpsets, Elsewhere
<1>4. CASE DerivedStep
  <2>1. \/ UNCHANGED storeVars \/ UNCHANGED ButEnded
        \/ UNCHANGED ButUpsets /\ Upset
    BY <1>4 DEF DerivedStep, DeriveStep, SettleStep, WriteEventsFails, PassFails
  <2> QED BY <2>1 DEF storeVars, rowVars, ButUpsets, ButEnded, Elsewhere
<1>5. CASE UNCHANGED vars
  BY <1>5 DEF vars, storeVars, rowVars, Elsewhere
<1>6. CASE ThumbStep
  <2>1. UNCHANGED storeVars \/ (UNCHANGED ButUpsets /\ (upsets' = upsets \/ Upset))
    BY <1>6 DEF ThumbStep, ThumbScanStep, GenerateStep, CoolStep, ShotFailsStep, ShotFails
  <2> QED BY <2>1 DEF storeVars, rowVars, ButUpsets, Elsewhere
<1> QED BY <1>1, <1>2, <1>3, <1>4, <1>5, <1>6 DEF Next

LEMMA FileFacts ==
  \A f \in Files :
    /\ RouteOf(f) \in Routes /\ ClipOf(f) \in Clips
    /\ FlagOf(f) \in Files /\ RouteOf(FlagOf(f)) = RouteOf(f)
BY DEF Files, Kinds, RouteOf, ClipOf, Clips, FlagOf

LEMMA StoreTypedInit == Init => StoreTyped
<1> SUFFICES ASSUME NEW sc \in Scenarios, StoreInit(sc) PROVE StoreTyped
  BY DEF Init
<1> USE UpkeepConstants, StoreConstants DEF StoreInit
<1>1. file \in [Files -> {"none", "cut", "whole"}]
  OBVIOUS
<1>2. row \in [Routes -> 0..MaxRows] /\ sends \in [Files -> 0..MaxSends] /\ upsets \in 0..MaxUpsets
  OBVIOUS
<1>3. lastRow \in 0..MaxRows
  <2>1. Cardinality({r \in Routes : sc.rows[r] # 0}) \in Nat
    BY FS_Subset, FS_CardinalityType
  <2> QED BY <2>1
<1>4. segs \subseteq Clips /\ flags \subseteq Files
  BY FileFacts
<1>5. up \in [Handlers -> Uploads] /\ clean \in Passes
  BY UploadRows, PassRows
<1> QED BY <1>1, <1>2, <1>3, <1>4, <1>5 DEF StoreTyped

LEMMA UpsetType == ASSUME StoreTyped, Upset PROVE upsets' \in 0..MaxUpsets
BY StoreConstants DEF StoreTyped, Upset

LEMMA UploadTyped ==
  ASSUME StoreTyped, NEW u \in Handlers, Upload(u)
  PROVE  StoreTyped'
<1> USE FileFacts DEF StoreTyped, rowVars, histVars
<1>1. ASSUME NEW f \in Files, UploadStart(u, f) PROVE StoreTyped'
  <2>1. sends' \in [Files -> 0..MaxSends]
    BY <1>1, StoreConstants DEF UploadStart
  <2>2. up' \in [Handlers -> Uploads]
    <3>1. \A v \in Handlers : up[v].at = "copy" => [up[v] EXCEPT !.mine = FALSE] \in Uploads
      BY UploadRows
    <3> QED BY <3>1, <1>1, UploadRows DEF UploadStart
  <2>3. file' \in [Files -> {"none", "cut", "whole"}] /\ resent' \subseteq Files /\ overtaken' \subseteq Files
    BY <1>1 DEF UploadStart
  <2> QED BY <2>1, <2>2, <2>3, <1>1 DEF UploadStart
<1>2. CASE Copied(u)
  <2>1. up[u].f \in Files
    BY <1>2, UploadRows DEF Copied
  <2>2. up' \in [Handlers -> Uploads] /\ file' \in [Files -> {"none", "cut", "whole"}]
    BY <2>1, <1>2, UploadRows DEF Copied
  <2> QED BY <2>2, <1>2 DEF Copied
<1>3. CASE CopyFails(u)
  <2>1. \A v \in Handlers : up[v].at = "copy" => [up[v] EXCEPT !.mine = FALSE] \in Uploads
    BY UploadRows
  <2>2. up' \in [Handlers -> Uploads] /\ file' \in [Files -> {"none", "cut", "whole"}]
    BY <2>1, <1>3, UploadRows DEF CopyFails
  <2> QED BY <2>2, <1>3, UpsetType DEF CopyFails
<1>4. CASE GetOrCreateRoute(u)
  <2> DEFINE r == RouteOf(up[u].f)
  <2>1. up[u].f \in Files /\ r \in Routes
    BY <1>4, UploadRows DEF GetOrCreateRoute
  <2>2. row' \in [Routes -> 0..MaxRows] /\ lastRow' \in 0..MaxRows /\ row'[r] \in 1..MaxRows
    BY <2>1, <1>4, StoreConstants DEF GetOrCreateRoute
  <2>3. up' \in [Handlers -> Uploads]
    BY <2>1, <2>2, <1>4, UploadRows DEF GetOrCreateRoute
  <2> QED BY <2>2, <2>3, <1>4 DEF GetOrCreateRoute
<1>5. CASE CreateSegment(u)
  <2>1. up[u].f \in Files /\ ClipOf(up[u].f) \in Clips /\ [up[u] EXCEPT !.at = "flag"] \in Uploads
    BY <1>5, UploadRows DEF CreateSegment
  <2>2. up' \in [Handlers -> Uploads] /\ segs' \subseteq Clips /\ untracked' \subseteq Files
    BY <2>1, <1>5, UploadRows DEF CreateSegment
  <2> QED BY <2>2, <1>5 DEF CreateSegment
<1>6. CASE SetFlag(u)
  <2>1. up[u].f \in Files
    BY <1>6, UploadRows DEF SetFlag
  <2> QED BY <2>1, <1>6, UploadRows DEF SetFlag
<1>7. CASE TrackFails(u)
  <2>1. up[u].f \in Files
    BY <1>7, UploadRows DEF TrackFails
  <2> QED BY <2>1, <1>7, UploadRows, UpsetType DEF TrackFails
<1> QED BY <1>1, <1>2, <1>3, <1>4, <1>5, <1>6, <1>7 DEF Upload

LEMMA CleanupTyped ==
  ASSUME StoreTyped, Cleanup
  PROVE  StoreTyped'
<1> USE FileFacts DEF StoreTyped, rowVars, histVars
<1>1. CASE ListStale
  <2>1. PICK S \in SUBSET Stale : clean' = [at |-> "next", todo |-> {<<r, row[r]>> : r \in S}]
    BY <1>1 DEF ListStale
  <2>2. {<<r, row[r]>> : r \in S} \in SUBSET Listed
    <3>1. \A r \in S : r \in Routes /\ row[r] \in 1..MaxRows
      BY StoreConstants DEF Stale
    <3> QED BY <3>1 DEF Listed
  <2>3. clean' \in Passes
    BY <2>1, <2>2, PassRows
  <2> QED BY <2>3, <1>1 DEF ListStale
<1>2. CASE RemoveFiles
  <2>1. PICK e \in clean.todo :
          /\ file' = [f \in Files |-> IF RouteOf(f) = e[1] THEN "none" ELSE file[f]]
          /\ up' = [u \in Handlers |->
                     IF up[u].at = "copy" /\ RouteOf(up[u].f) = e[1]
                     THEN [up[u] EXCEPT !.mine = FALSE] ELSE up[u]]
          /\ overtaken' = overtaken \cup {f \in Files : RouteOf(f) = e[1] /\ Busy(f)}
          /\ clean' = [at |-> "row", todo |-> clean.todo \ {e}, of |-> e]
    BY <1>2 DEF RemoveFiles
  <2>2. clean.todo \ {e} \in SUBSET Listed /\ e \in Listed
    BY PassRows
  <2>3. clean' \in Passes
    BY <2>1, <2>2, PassRows
  <2>4. \A v \in Handlers : up[v].at = "copy" => [up[v] EXCEPT !.mine = FALSE] \in Uploads
    BY UploadRows
  <2>5. up' \in [Handlers -> Uploads] /\ file' \in [Files -> {"none", "cut", "whole"}] /\ overtaken' \subseteq Files
    BY <2>1, <2>4
  <2> QED BY <2>3, <2>5, <1>2 DEF RemoveFiles
<1>3. AfterRoute \in Passes
  BY PassRows DEF AfterRoute
<1>4. CASE DeleteRow
  <2>1. row' \in [Routes -> 0..MaxRows]
    <3>1. 0 \in 0..MaxRows
      BY StoreConstants
    <3>2. row' = [row EXCEPT ![clean.of[1]] = IF @ = clean.of[2] THEN 0 ELSE @]
      BY <1>4 DEF DeleteRow, DropRow
    <3> QED BY <3>1, <3>2
  <2>2. /\ segs' \subseteq segs /\ flags' \subseteq flags
        /\ preserved' \subseteq preserved /\ expired' \subseteq expired
    BY <1>4 DEF DeleteRow, DropRow
  <2> QED BY <2>1, <2>2, <1>3, <1>4 DEF DeleteRow
<1>5. CASE CleanFails
  <2>1. clean' \in Passes
    <3>1. CASE clean.at = "row" /\ clean' = AfterRoute
      BY <3>1, <1>3
    <3>2. ASSUME clean.at = "next", NEW e \in clean.todo,
                 clean' = IF clean.todo = {e} THEN Resting ELSE [clean EXCEPT !.todo = @ \ {e}]
          PROVE  clean' \in Passes
      <4>1. clean.todo \ {e} \in SUBSET Listed
        BY PassRows
      <4> QED BY <4>1, <3>2, PassRows
    <3> QED BY <3>1, <3>2, <1>5 DEF CleanFails
  <2> QED BY <2>1, <1>5, UpsetType DEF CleanFails
<1> QED BY <1>1, <1>2, <1>4, <1>5 DEF Cleanup

LEMMA StoreTypedNext ==
  ASSUME StoreTyped, [Next]_vars
  PROVE  StoreTyped'
<1>1. CASE \E u \in Handlers : Upload(u)
  BY <1>1, UploadTyped
<1>2. CASE Cleanup
  BY <1>2, CleanupTyped
<1>3. CASE \E r \in Routes : SetPreserved(r) \/ Expire(r)
  BY <1>3, UpsetType DEF SetPreserved, Expire, StoreTyped, histVars
<1>4. CASE StoreRestart
  BY <1>4, UpsetType, UploadRows, PassRows DEF StoreRestart, StoreTyped, rowVars
<1>5. CASE Elsewhere
  BY <1>5, UpsetType DEF Elsewhere, StoreTyped, histVars
<1> QED BY <1>1, <1>2, <1>3, <1>4, <1>5, StoreSteps

----------------------------------------------------------------------------
(* A file is spoilt when it was sent again or met a deletion; once it is,  *)
(* it counts as stored whatever becomes of it.                             *)

Spoilt == resent \cup overtaken

\* A copy whose path no longer leads to its file, and one of a file that is
\* whole already, are of a spoilt file.
CopyInv ==
  \A u \in Handlers :
    up[u].at = "copy" =>
      /\ up[u].mine \/ up[u].f \in Spoilt
      /\ file[up[u].f] # "whole" \/ up[u].f \in Spoilt

\* What is being tracked is there.
NoteInv ==
  \A u \in Handlers :
    up[u].at \in {"row", "seg", "flag"} => file[up[u].f] = "whole" \/ up[u].f \in Spoilt

\* Two requests for one file spoil it.
PairInv ==
  \A u, v \in Handlers :
    u # v /\ up[u].at # "idle" /\ up[v].at # "idle" /\ up[u].f = up[v].f => up[u].f \in Spoilt

\* A pass deletes each route once, and each was out of its retention.
PassInv ==
  /\ \A e \in clean.todo : e[1] \in expired
  /\ \A e, d \in clean.todo : e[1] = d[1] => e = d
  /\ clean.at = "row" => /\ clean.of[1] \in expired
                         /\ \A e \in clean.todo : e[1] # clean.of[1]

FlagInv == FlagMeansStored /\ CopyInv /\ NoteInv /\ PairInv /\ PassInv

\* The row a request found is there, or was deleted while it was under way.
RowInv ==
  \A u \in Handlers :
    up[u].at \in {"seg", "flag"} => row[RouteOf(up[u].f)] = up[u].id \/ up[u].f \in overtaken

\* Between the two halves of a deletion there is nothing of the route but
\* what is on its way.
GoneInv ==
  clean.at = "row" =>
    \A f \in Files :
      RouteOf(f) = clean.of[1] /\ (file[f] # "none" \/ Busy(f)) => f \in overtaken

RowsInv == NoOrphans /\ RowInv /\ GoneInv

StoreInv == FlagInv /\ RowsInv

LEMMA StoreInvInit == Init => StoreInv
<1> SUFFICES ASSUME NEW sc \in Scenarios, StoreInit(sc) PROVE StoreInv
  BY DEF Init
<1>1. \A u \in Handlers : up[u].at = "idle"
  BY UploadRows DEF StoreInit
<1>2. clean.at = "rest" /\ clean.todo = {}
  BY PassRows DEF StoreInit
<1>3. FlagMeansStored
  <2> SUFFICES ASSUME NEW f \in sc.old PROVE Stored(f) /\ f \in Files
    BY DEF FlagMeansStored, StoreInit
  <2> QED BY UpkeepConstants DEF Stored, StoreInit
<1>4. NoOrphans
  BY UpkeepConstants DEF NoOrphans, StoreInit
<1> QED BY <1>1, <1>2, <1>3, <1>4
         DEF StoreInv, FlagInv, RowsInv, CopyInv, NoteInv, PairInv, PassInv, RowInv, GoneInv

\* The flags keep their meaning when what is stored stays so and a flag that
\* comes is of a stored file.
LEMMA FlagsKeep ==
  ASSUME StoreInv,
         \A k \in flags' : \/ k \in flags /\ \A f \in Files : FlagOf(f) = k /\ Stored(f) => Stored(f)'
                           \/ \E f \in Files : FlagOf(f) = k /\ Stored(f)'
  PROVE  FlagMeansStored'
BY DEF StoreInv, FlagInv, FlagMeansStored

\* What a step of one request leaves to the others.
LEMMA StartEffect ==
  ASSUME StoreTyped, NEW u \in Handlers, NEW f \in Files, UploadStart(u, f)
  PROVE  /\ up[u].at = "idle" /\ up'[u].at = "copy" /\ up'[u].f = f /\ up'[u].mine
         /\ \A v \in Handlers : v # u =>
              /\ up'[v].at = up[v].at
              /\ up[v].at # "idle" => up'[v].f = up[v].f
              /\ up[v].at \in {"seg", "flag"} => up'[v].id = up[v].id
              /\ up[v].at = "copy" =>
                   (up[v].f # f => up'[v].mine = up[v].mine)
         /\ \A g \in Files : g # f => file'[g] = file[g]
         /\ file'[f] = "cut"
         /\ resent \subseteq resent' /\ overtaken \subseteq overtaken'
         /\ file[f] # "none" \/ Busy(f) => f \in resent'
         /\ clean.at = "row" /\ clean.of[1] = RouteOf(f) => f \in overtaken'
<1> USE DEF StoreTyped, UploadStart
<1>1. up[u].at = "idle" /\ up'[u].at = "copy" /\ up'[u].f = f /\ up'[u].mine
  BY UploadRows
<1>2. ASSUME NEW v \in Handlers, v # u
      PROVE  up'[v] = IF up[v].at = "copy" /\ up[v].f = f
                      THEN [up[v] EXCEPT !.mine = FALSE] ELSE up[v]
  BY <1>2
<1>3. ASSUME NEW v \in Handlers, v # u
      PROVE  /\ up'[v].at = up[v].at
             /\ up[v].at # "idle" => up'[v].f = up[v].f
             /\ up[v].at \in {"seg", "flag"} => up'[v].id = up[v].id
             /\ up[v].at = "copy" => (up[v].f # f => up'[v].mine = up[v].mine)
  <2>1. CASE up[v].at = "copy" /\ up[v].f = f
    BY <2>1, <1>2, <1>3, UploadRows
  <2>2. CASE ~(up[v].at = "copy" /\ up[v].f = f)
    BY <2>2, <1>2, <1>3
  <2> QED BY <2>1, <2>2
<1>4. /\ \A g \in Files : g # f => file'[g] = file[g]
      /\ file'[f] = "cut"
  OBVIOUS
<1>5. /\ resent \subseteq resent' /\ overtaken \subseteq overtaken'
      /\ file[f] # "none" \/ Busy(f) => f \in resent'
      /\ clean.at = "row" /\ clean.of[1] = RouteOf(f) => f \in overtaken'
  OBVIOUS
<1> HIDE DEF StoreTyped, UploadStart
<1> QED BY <1>1, <1>3, <1>4, <1>5

LEMMA StartKeeps ==
  ASSUME StoreTyped, StoreInv, NEW u \in Handlers, NEW f \in Files, UploadStart(u, f)
  PROVE  StoreInv'
<1> USE StartEffect
<1>1. UNCHANGED <<row, flags, expired, clean, untracked>>
  BY DEF UploadStart, rowVars
<1>2. Spoilt \subseteq Spoilt'
  BY DEF Spoilt
<1>3. \A v \in Handlers : v # u /\ up[v].at # "idle" /\ up[v].f = f => f \in Spoilt'
  BY DEF Spoilt, Busy
<1>4. \A v \in Handlers : up[v].at # "idle" => up[v].f \in Files
  BY UploadRows DEF StoreTyped
<1>5. FlagMeansStored'
  <2>1. \A g \in Files : Stored(g) => Stored(g)'
    BY <1>1, <1>2 DEF Stored, Spoilt, StoreTyped
  <2> QED BY <1>1, <2>1, FlagsKeep
<1>6. CopyInv'
  <2> SUFFICES ASSUME NEW v \in Handlers, up'[v].at = "copy"
               PROVE  /\ up'[v].mine \/ up'[v].f \in Spoilt'
                      /\ file'[up'[v].f] # "whole" \/ up'[v].f \in Spoilt'
    BY <1>1 DEF CopyInv
  <2>1. CASE v = u
    BY <2>1, <1>1 DEF StoreInv, FlagInv, FlagMeansStored, Spoilt, StoreTyped
  <2>2. CASE v # u /\ up[v].f = f
    BY <2>2, <1>3
  <2>3. CASE v # u /\ up[v].f # f
    BY <2>3, <1>2, <1>4 DEF StoreInv, FlagInv, CopyInv
  <2> QED BY <2>1, <2>2, <2>3
<1>7. NoteInv'
  BY <1>2, <1>3, <1>4 DEF StoreInv, FlagInv, NoteInv
<1>8. PairInv'
  BY <1>2, <1>3, <1>4 DEF StoreInv, FlagInv, PairInv
<1>9. PassInv'
  BY <1>1 DEF StoreInv, FlagInv, PassInv
<1>10. \A g \in Files : Busy(g)' <=> Busy(g) \/ g = f
  BY DEF Busy
<1>11. NoOrphans'
  BY <1>1, <1>10 DEF StoreInv, RowsInv, NoOrphans
<1>12. RowInv'
  BY <1>1 DEF StoreInv, RowsInv, RowInv
<1>13. GoneInv'
  BY <1>1, <1>10 DEF StoreInv, RowsInv, GoneInv
<1> QED BY <1>5, <1>6, <1>7, <1>8, <1>9, <1>11, <1>12, <1>13 DEF StoreInv, FlagInv, RowsInv

\* A request that goes on with its file, and leaves the others alone.
LEMMA UploadEffect ==
  ASSUME StoreTyped, NEW u \in Handlers,
         Copied(u) \/ GetOrCreateRoute(u) \/ CreateSegment(u) \/ SetFlag(u) \/ TrackFails(u)
  PROVE  /\ \A v \in Handlers : v # u => up'[v] = up[v]
         /\ up[u].at # "idle" /\ up[u].f \in Files /\ RouteOf(up[u].f) \in Routes
         /\ up'[u].at # "idle" => up'[u].f = up[u].f
         /\ up'[u].at # "copy"
         /\ UNCHANGED <<expired, clean, resent, overtaken>>
         /\ untracked \subseteq untracked'
         /\ \A g \in Files : g # up[u].f => file'[g] = file[g]
<1>1. up[u] \in Uploads /\ (\A v \in Handlers : up[v] \in Uploads) /\ up \in [Handlers -> Uploads]
  BY DEF StoreTyped
<1>2. CASE Copied(u)
  <2>1. up[u].at = "copy" /\ up[u].f \in Files /\ RouteOf(up[u].f) \in Routes
    BY <1>1, <1>2, UploadRows, FileFacts DEF Copied
  <2>2. up' = [up EXCEPT ![u] = Noting(up[u].f)]
    BY <1>2 DEF Copied
  <2>3. up'[u].at = "row" /\ up'[u].f = up[u].f /\ (\A v \in Handlers : v # u => up'[v] = up[v])
    BY <1>1, <2>1, <2>2, UploadRows
  <2>4. /\ UNCHANGED <<expired, clean, resent, overtaken, untracked>>
        /\ \A g \in Files : g # up[u].f => file'[g] = file[g]
    BY <1>2, <2>1 DEF Copied, rowVars, histVars, StoreTyped
  <2> QED BY <2>1, <2>3, <2>4
<1>3. CASE GetOrCreateRoute(u)
  <2>1. up[u].at = "row" /\ up[u].f \in Files /\ RouteOf(up[u].f) \in Routes
    BY <1>1, <1>3, UploadRows, FileFacts DEF GetOrCreateRoute
  <2>2. up' = [up EXCEPT ![u] = [at |-> "seg", f |-> up[u].f, id |-> row'[RouteOf(up[u].f)]]]
    BY <1>3 DEF GetOrCreateRoute
  <2>3. up'[u].at = "seg" /\ up'[u].f = up[u].f /\ (\A v \in Handlers : v # u => up'[v] = up[v])
    BY <1>1, <2>2
  <2>4. UNCHANGED <<file, expired, clean, resent, overtaken, untracked>>
    BY <1>3 DEF GetOrCreateRoute, histVars
  <2> QED BY <2>1, <2>3, <2>4
<1>4. CASE CreateSegment(u)
  <2>1. up[u].at = "seg" /\ up[u].f \in Files /\ RouteOf(up[u].f) \in Routes
    BY <1>1, <1>4, UploadRows, FileFacts DEF CreateSegment
  <2>2. up' = [up EXCEPT ![u] = [up[u] EXCEPT !.at = "flag"]] \/ up' = [up EXCEPT ![u] = Idle]
    BY <1>4, <1>1 DEF CreateSegment
  <2>3. /\ up'[u].at # "idle" => up'[u].f = up[u].f
        /\ up'[u].at \in {"flag", "idle"}
        /\ \A v \in Handlers : v # u => up'[v] = up[v]
    <3>1. CASE up' = [up EXCEPT ![u] = [up[u] EXCEPT !.at = "flag"]]
      <4>1. up'[u] = [up[u] EXCEPT !.at = "flag"] /\ (\A v \in Handlers : v # u => up'[v] = up[v])
        BY <1>1, <3>1
      <4> QED BY <1>1, <2>1, <4>1, UploadRows
    <3>2. CASE up' = [up EXCEPT ![u] = Idle]
      BY <1>1, <3>2, UploadRows
    <3> QED BY <2>2, <3>1, <3>2
  <2>4. UNCHANGED <<file, expired, clean, resent, overtaken>> /\ untracked \subseteq untracked'
    BY <1>4 DEF CreateSegment
  <2> QED BY <2>1, <2>3, <2>4
<1>5. CASE SetFlag(u)
  <2>1. up[u].at = "flag" /\ up[u].f \in Files /\ RouteOf(up[u].f) \in Routes
    BY <1>1, <1>5, UploadRows, FileFacts DEF SetFlag
  <2>2. up' = [up EXCEPT ![u] = Idle]
    BY <1>5 DEF SetFlag
  <2>3. up'[u].at = "idle" /\ (\A v \in Handlers : v # u => up'[v] = up[v])
    BY <1>1, <2>2, UploadRows
  <2>4. UNCHANGED <<file, expired, clean, resent, overtaken, untracked>>
    BY <1>5 DEF SetFlag, histVars
  <2> QED BY <2>1, <2>3, <2>4
<1>6. CASE TrackFails(u)
  <2>1. up[u].at # "idle" /\ up[u].f \in Files /\ RouteOf(up[u].f) \in Routes
    BY <1>1, <1>6, UploadRows, FileFacts DEF TrackFails
  <2>2. up' = [up EXCEPT ![u] = Idle]
    BY <1>6 DEF TrackFails
  <2>3. up'[u].at = "idle" /\ (\A v \in Handlers : v # u => up'[v] = up[v])
    BY <1>1, <2>2, UploadRows
  <2>4. UNCHANGED <<file, expired, clean, resent, overtaken>> /\ untracked \subseteq untracked'
    BY <1>6 DEF TrackFails, rowVars
  <2> QED BY <2>1, <2>3, <2>4
<1> QED BY <1>2, <1>3, <1>4, <1>5, <1>6

LEMMA BusyEffect ==
  ASSUME StoreTyped, NEW u \in Handlers,
         \A v \in Handlers : v # u => up'[v] = up[v],
         up'[u].at # "idle" => up[u].at # "idle" /\ up'[u].f = up[u].f
  PROVE  /\ \A g \in Files : Busy(g)' => Busy(g)
         /\ \A g \in Files : Busy(g) /\ (g # up[u].f \/ up'[u].at # "idle") => Busy(g)'
BY DEF Busy

LEMMA CopiedKeeps ==
  ASSUME StoreTyped, StoreInv, NEW u \in Handlers, Copied(u)
  PROVE  StoreInv'
<1> USE UploadEffect
<1>1. /\ UNCHANGED <<row, flags, expired, clean, resent, overtaken, untracked>>
      /\ up[u].at = "copy" /\ up'[u].at = "row" /\ up'[u].f = up[u].f
      /\ up[u].mine => file'[up[u].f] = "whole"
      /\ ~up[u].mine => file' = file
      /\ \A g \in Files : g # up[u].f => file'[g] = file[g]
  <2>1. up \in [Handlers -> Uploads] /\ file \in [Files -> {"none", "cut", "whole"}]
    BY DEF StoreTyped
  <2>6. up[u].f \in Files
    OBVIOUS
  <2>2. up[u].at = "copy" /\ up' = [up EXCEPT ![u] = Noting(up[u].f)]
    BY DEF Copied
  <2>3. up'[u].at = "row" /\ up'[u].f = up[u].f
    BY <2>1, <2>2, <2>6, UploadRows
  <2>4. /\ up[u].mine => file'[up[u].f] = "whole"
        /\ ~up[u].mine => file' = file
        /\ \A g \in Files : g # up[u].f => file'[g] = file[g]
    BY <2>1, <2>6 DEF Copied
  <2>5. UNCHANGED <<row, flags, expired, clean, resent, overtaken, untracked>>
    BY DEF Copied, rowVars, histVars
  <2> QED BY <2>2, <2>3, <2>4, <2>5
<1>2. Spoilt' = Spoilt /\ (\A g \in Files : Busy(g)' <=> Busy(g))
  BY <1>1, BusyEffect DEF Spoilt, histVars
<1>3. \A v \in Handlers : up[v].at # "idle" => up[v].f \in Files
  BY UploadRows DEF StoreTyped
<1>4. \A g \in Files : file[g] = "whole" => file'[g] = "whole"
  BY <1>1
<1>5. FlagMeansStored'
  <2>1. \A g \in Files : Stored(g) => Stored(g)'
    BY <1>1, <1>2, <1>4 DEF Stored, Spoilt
  <2> QED BY <1>1, <2>1, FlagsKeep
<1>6. CopyInv'
  <2> SUFFICES ASSUME NEW v \in Handlers, up'[v].at = "copy"
               PROVE  /\ up'[v].mine \/ up'[v].f \in Spoilt'
                      /\ file'[up'[v].f] # "whole" \/ up'[v].f \in Spoilt'
    BY DEF CopyInv
  <2>1. v # u /\ up'[v] = up[v]
    BY <1>1
  <2>2. CASE up[v].f = up[u].f
    BY <2>1, <2>2, <1>1, <1>2 DEF StoreInv, FlagInv, PairInv
  <2>3. CASE up[v].f # up[u].f
    BY <2>1, <2>3, <1>1, <1>2, <1>3 DEF StoreInv, FlagInv, CopyInv
  <2> QED BY <2>2, <2>3
<1>7. NoteInv'
  <2> SUFFICES ASSUME NEW v \in Handlers, up'[v].at \in {"row", "seg", "flag"}
               PROVE  file'[up'[v].f] = "whole" \/ up'[v].f \in Spoilt'
    BY DEF NoteInv
  <2>1. CASE v = u
    BY <2>1, <1>1, <1>2 DEF StoreInv, FlagInv, CopyInv
  <2>2. CASE v # u
    BY <2>2, <1>2, <1>3, <1>4 DEF StoreInv, FlagInv, NoteInv
  <2> QED BY <2>1, <2>2
<1>8. PairInv'
  BY <1>1, <1>2 DEF StoreInv, FlagInv, PairInv
<1>9. PassInv'
  BY <1>1 DEF StoreInv, FlagInv, PassInv
<1>10. NoOrphans'
  BY <1>1, <1>2 DEF StoreInv, RowsInv, NoOrphans, Busy, histVars
<1>11. RowInv'
  BY <1>1 DEF StoreInv, RowsInv, RowInv, histVars
<1>12. GoneInv'
  BY <1>1, <1>2 DEF StoreInv, RowsInv, GoneInv, Busy, histVars
<1> QED BY <1>5, <1>6, <1>7, <1>8, <1>9, <1>10, <1>11, <1>12 DEF StoreInv, FlagInv, RowsInv

LEMMA TrackingKeeps ==
  ASSUME StoreTyped, StoreInv, NEW u \in Handlers,
         GetOrCreateRoute(u) \/ CreateSegment(u) \/ SetFlag(u) \/ TrackFails(u)
  PROVE  StoreInv'
<1> USE UploadEffect
<1> DEFINE f == up[u].f
<1>1. /\ UNCHANGED <<file, expired, clean, resent, overtaken>> /\ untracked \subseteq untracked'
      /\ up[u].at \in {"row", "seg", "flag"}
      /\ up'[u].at \in {"idle", "seg", "flag"}
      /\ flags \subseteq flags' /\ flags' \subseteq flags \cup {FlagOf(f)}
      /\ \A r \in Routes : row[r] # 0 => row'[r] = row[r]
      /\ up'[u].at # "idle" => row'[RouteOf(f)] = up'[u].id \/ f \in overtaken
      /\ up'[u].at = "idle" => f \in untracked' \/ row'[RouteOf(f)] # 0 \/ f \in overtaken
  <2> USE UploadRows, FileFacts DEF rowVars, StoreTyped
  <2>1. CASE GetOrCreateRoute(u)
    BY <2>1 DEF GetOrCreateRoute, histVars
  <2>2. CASE CreateSegment(u)
    <3>1. /\ UNCHANGED <<file, row, flags, expired, clean, resent, overtaken>>
          /\ up[u].at = "seg"
      BY <2>2 DEF CreateSegment
    <3>2. CASE row[RouteOf(f)] = up[u].id
      <4>1. up' = [up EXCEPT ![u] = [up[u] EXCEPT !.at = "flag"]] /\ untracked' = untracked
        BY <2>2, <3>2 DEF CreateSegment
      <4>2. up'[u] = [up[u] EXCEPT !.at = "flag"] /\ up[u] \in Uploads
        BY <4>1
      <4>3. up'[u].at = "flag" /\ up'[u].id = up[u].id
        BY <3>1, <4>2
      <4> QED BY <3>1, <3>2, <4>1, <4>3
    <3>3. CASE row[RouteOf(f)] # up[u].id
      <4>1. up' = [up EXCEPT ![u] = Idle] /\ untracked' = untracked \cup {f}
        BY <2>2, <3>3 DEF CreateSegment
      <4>2. up'[u].at = "idle"
        BY <4>1
      <4> QED BY <3>1, <4>1, <4>2
    <3> QED BY <3>2, <3>3
  <2>3. CASE SetFlag(u)
    <3>1. row[RouteOf(f)] = up[u].id \/ f \in overtaken
      BY <2>3 DEF SetFlag, StoreInv, RowsInv, RowInv
    <3>2. up[u].at = "flag" /\ up[u].id \in 1..MaxRows
      BY <2>3 DEF SetFlag
    <3>4. up[u].id # 0
      BY <3>2, StoreConstants
    <3> QED BY <2>3, <3>1, <3>4 DEF SetFlag, histVars
  <2>4. CASE TrackFails(u)
    BY <2>4 DEF TrackFails
  <2> QED BY <2>1, <2>2, <2>3, <2>4
<1>2. Spoilt' = Spoilt
  BY DEF Spoilt
<1>3. /\ \A g \in Files : Busy(g)' => Busy(g)
      /\ \A g \in Files : Busy(g) /\ (g # f \/ up'[u].at # "idle") => Busy(g)'
  BY BusyEffect
<1>4. \A v \in Handlers : up[v].at # "idle" => up[v].f \in Files /\ RouteOf(up[v].f) \in Routes
  BY UploadRows, FileFacts DEF StoreTyped
<1>5. file[f] = "whole" \/ f \in Spoilt
  BY <1>1 DEF StoreInv, FlagInv, NoteInv
<1>6. FlagMeansStored'
  <2>1. \A g \in Files : Stored(g) => Stored(g)'
    BY <1>1 DEF Stored
  <2>2. PICK g \in Files : g = f
    BY <1>1, <1>4
  <2>3. Stored(g)'
    BY <1>1, <1>5, <2>2 DEF Stored, Spoilt
  <2> QED BY <1>1, <2>1, <2>2, <2>3, FlagsKeep
<1>7. CopyInv'
  <2> SUFFICES ASSUME NEW v \in Handlers, up'[v].at = "copy"
               PROVE  /\ up'[v].mine \/ up'[v].f \in Spoilt'
                      /\ file'[up'[v].f] # "whole" \/ up'[v].f \in Spoilt'
    BY DEF CopyInv
  <2>1. v # u /\ up'[v] = up[v]
    OBVIOUS
  <2>2. CASE up[v].f = f
    <3>1. up[u].at # "idle" /\ up[v].at # "idle"
      BY <1>1, <2>1
    <3>2. f \in Spoilt
      BY <2>1, <2>2, <3>1 DEF StoreInv, FlagInv, PairInv
    <3> QED BY <1>2, <2>1, <2>2, <3>2
  <2>3. CASE up[v].f # f
    BY <2>1, <2>3, <1>1, <1>2 DEF StoreInv, FlagInv, CopyInv
  <2> QED BY <2>2, <2>3
<1>8. NoteInv'
  <2> SUFFICES ASSUME NEW v \in Handlers, up'[v].at \in {"row", "seg", "flag"}
               PROVE  file'[up'[v].f] = "whole" \/ up'[v].f \in Spoilt'
    BY DEF NoteInv
  <2>1. CASE v = u
    BY <2>1, <1>1, <1>2, <1>5
  <2>2. CASE v # u
    BY <2>2, <1>1, <1>2 DEF StoreInv, FlagInv, NoteInv
  <2> QED BY <2>1, <2>2
<1>9. PairInv'
  BY <1>1, <1>2 DEF StoreInv, FlagInv, PairInv
<1>10. PassInv'
  BY <1>1 DEF StoreInv, FlagInv, PassInv
<1>11. NoOrphans'
  <2> SUFFICES ASSUME NEW g \in Files, file'[g] # "none", ~Busy(g)', g \notin untracked' \cup overtaken'
               PROVE  row'[RouteOf(g)] # 0
    BY DEF NoOrphans
  <2>1. CASE g = f
    BY <2>1, <1>1, <1>3 DEF Busy
  <2>2. CASE g # f
    <3>1. row[RouteOf(g)] # 0
      BY <2>2, <1>1, <1>3 DEF StoreInv, RowsInv, NoOrphans
    <3> QED BY <3>1, <1>1, FileFacts
  <2> QED BY <2>1, <2>2
<1>12. RowInv'
  <2> SUFFICES ASSUME NEW v \in Handlers, up'[v].at \in {"seg", "flag"}
               PROVE  row'[RouteOf(up'[v].f)] = up'[v].id \/ up'[v].f \in overtaken'
    BY DEF RowInv
  <2>1. CASE v = u
    BY <2>1, <1>1
  <2>2. CASE v # u
    <3>1. row[RouteOf(up[v].f)] = up[v].id \/ up[v].f \in overtaken
      BY <2>2 DEF StoreInv, RowsInv, RowInv
    <3>2. up[v].at \in {"seg", "flag"} /\ up[v] \in Uploads
      BY <2>2 DEF StoreTyped
    <3>3. up[v].id \in 1..MaxRows
      BY <3>2, UploadRows
    <3>4. up[v].id # 0
      BY <3>3, StoreConstants
    <3> QED BY <2>2, <3>1, <3>2, <3>4, <1>1, <1>4
  <2> QED BY <2>1, <2>2
<1>13. GoneInv'
  BY <1>1, <1>3 DEF StoreInv, RowsInv, GoneInv
<1> QED BY <1>6, <1>7, <1>8, <1>9, <1>10, <1>11, <1>12, <1>13 DEF StoreInv, FlagInv, RowsInv

LEMMA CopyFailsEffect ==
  ASSUME StoreTyped, NEW u \in Handlers, CopyFails(u)
  PROVE  /\ UNCHANGED <<row, flags, expired, clean, resent, overtaken, untracked>>
         /\ up[u].at = "copy" /\ up[u].f \in Files /\ up'[u].at = "idle"
         /\ file'[up[u].f] = "none" /\ \A g \in Files : g # up[u].f => file'[g] = file[g]
         /\ \A v \in Handlers : v # u =>
              /\ up'[v].at = up[v].at
              /\ up[v].at # "idle" => up'[v].f = up[v].f
              /\ up[v].at \in {"seg", "flag"} => up'[v].id = up[v].id
              /\ up[v].at = "copy" /\ up[v].f # up[u].f => up'[v].mine = up[v].mine
<1>1. up[u].at = "copy" /\ up[u].f \in Files /\ (\A v \in Handlers : up[v] \in Uploads)
  BY UploadRows DEF CopyFails, StoreTyped
<1>2. /\ UNCHANGED <<row, flags, expired, clean, resent, overtaken, untracked>>
      /\ file'[up[u].f] = "none" /\ \A g \in Files : g # up[u].f => file'[g] = file[g]
  BY <1>1 DEF CopyFails, rowVars, histVars, StoreTyped
<1>3. up'[u].at = "idle"
  BY UploadRows DEF CopyFails
<1>4. ASSUME NEW v \in Handlers, v # u
      PROVE  up'[v] = IF up[v].at = "copy" /\ up[v].f = up[u].f
                      THEN [up[v] EXCEPT !.mine = FALSE] ELSE up[v]
  BY <1>4 DEF CopyFails
<1>5. ASSUME NEW v \in Handlers, v # u
      PROVE  /\ up'[v].at = up[v].at
             /\ up[v].at # "idle" => up'[v].f = up[v].f
             /\ up[v].at \in {"seg", "flag"} => up'[v].id = up[v].id
             /\ up[v].at = "copy" /\ up[v].f # up[u].f => up'[v].mine = up[v].mine
  <2>1. CASE up[v].at = "copy" /\ up[v].f = up[u].f
    <3>1. up'[v] = [up[v] EXCEPT !.mine = FALSE]
      BY <2>1, <1>4, <1>5
    <3>2. [up[v] EXCEPT !.mine = FALSE].at = "copy" /\ [up[v] EXCEPT !.mine = FALSE].f = up[v].f
      BY <2>1, <1>1, UploadRows
    <3> QED BY <2>1, <3>1, <3>2
  <2>2. CASE ~(up[v].at = "copy" /\ up[v].f = up[u].f)
    BY <2>2, <1>4, <1>5
  <2> QED BY <2>1, <2>2
<1> QED BY <1>1, <1>2, <1>3, <1>5

LEMMA CopyFailsKeeps ==
  ASSUME StoreTyped, StoreInv, NEW u \in Handlers, CopyFails(u)
  PROVE  StoreInv'
<1> USE CopyFailsEffect
<1> DEFINE f == up[u].f
<1>1. Spoilt' = Spoilt
  BY DEF Spoilt
<1>2. \A v \in Handlers : v # u /\ up[v].at # "idle" /\ up[v].f = f => f \in Spoilt
  BY DEF StoreInv, FlagInv, PairInv
<1>3. \A v \in Handlers : up[v].at # "idle" => up[v].f \in Files
  BY UploadRows DEF StoreTyped
<1>4. /\ \A g \in Files : Busy(g)' => Busy(g)
      /\ \A g \in Files : g # f /\ Busy(g) => Busy(g)'
  BY DEF Busy
<1>5. FlagMeansStored'
  <2>1. \A g \in Files : Stored(g) => Stored(g)'
    BY DEF StoreInv, FlagInv, CopyInv, Stored, Spoilt
  <2> QED BY <2>1, FlagsKeep
<1>6. CopyInv'
  <2> SUFFICES ASSUME NEW v \in Handlers, up'[v].at = "copy"
               PROVE  /\ up'[v].mine \/ up'[v].f \in Spoilt'
                      /\ file'[up'[v].f] # "whole" \/ up'[v].f \in Spoilt'
    BY DEF CopyInv
  <2>1. v # u
    OBVIOUS
  <2>2. CASE up[v].f = f
    BY <2>1, <2>2, <1>1, <1>2
  <2>3. CASE up[v].f # f
    BY <2>1, <2>3, <1>1, <1>3 DEF StoreInv, FlagInv, CopyInv
  <2> QED BY <2>2, <2>3
<1>7. NoteInv'
  BY <1>1, <1>2, <1>3 DEF StoreInv, FlagInv, NoteInv
<1>8. PairInv'
  BY <1>1 DEF StoreInv, FlagInv, PairInv
<1>9. PassInv'
  BY DEF StoreInv, FlagInv, PassInv
<1>10. NoOrphans'
  BY <1>4 DEF StoreInv, RowsInv, NoOrphans
<1>11. RowInv'
  BY DEF StoreInv, RowsInv, RowInv
<1>12. GoneInv'
  BY <1>4 DEF StoreInv, RowsInv, GoneInv
<1> QED BY <1>5, <1>6, <1>7, <1>8, <1>9, <1>10, <1>11, <1>12 DEF StoreInv, FlagInv, RowsInv

LEMMA UploadKeeps ==
  ASSUME StoreTyped, StoreInv, NEW u \in Handlers, Upload(u)
  PROVE  StoreInv'
BY StartKeeps, CopiedKeeps, CopyFailsKeeps, TrackingKeeps DEF Upload

\* Taking the directory cuts off the copies that are under way in it.
LEMMA RemoveEffect ==
  ASSUME StoreTyped, NEW e \in clean.todo, clean.at = "next",
         file' = [f \in Files |-> IF RouteOf(f) = e[1] THEN "none" ELSE file[f]],
         up' = [u \in Handlers |->
                  IF up[u].at = "copy" /\ RouteOf(up[u].f) = e[1]
                  THEN [up[u] EXCEPT !.mine = FALSE] ELSE up[u]],
         overtaken' = overtaken \cup {f \in Files : RouteOf(f) = e[1] /\ Busy(f)}
  PROVE  /\ \A u \in Handlers :
              /\ up'[u].at = up[u].at
              /\ up[u].at # "idle" => /\ up'[u].f = up[u].f /\ up[u].f \in Files
                                      /\ RouteOf(up[u].f) = e[1] => up[u].f \in overtaken'
              /\ up[u].at \in {"seg", "flag"} => up'[u].id = up[u].id
              /\ up[u].at = "copy" /\ RouteOf(up[u].f) # e[1] => up'[u].mine = up[u].mine
         /\ \A g \in Files : /\ RouteOf(g) = e[1] => file'[g] = "none"
                             /\ RouteOf(g) # e[1] => file'[g] = file[g]
         /\ overtaken \subseteq overtaken'
         /\ \A g \in Files : Busy(g)' <=> Busy(g)
         /\ \A g \in Files : RouteOf(g) = e[1] /\ Busy(g) => g \in overtaken'
<1>1. \A u \in Handlers : up[u] \in Uploads
  BY DEF StoreTyped
<1>2. ASSUME NEW u \in Handlers
      PROVE  /\ up'[u].at = up[u].at
             /\ up[u].at # "idle" => up'[u].f = up[u].f /\ up[u].f \in Files
             /\ up[u].at \in {"seg", "flag"} => up'[u].id = up[u].id
             /\ up[u].at = "copy" /\ RouteOf(up[u].f) # e[1] => up'[u].mine = up[u].mine
  <2>1. CASE up[u].at = "copy" /\ RouteOf(up[u].f) = e[1]
    <3>1. up'[u] = [up[u] EXCEPT !.mine = FALSE]
      BY <2>1
    <3>2. [up[u] EXCEPT !.mine = FALSE].at = "copy" /\ [up[u] EXCEPT !.mine = FALSE].f = up[u].f
      BY <2>1, <1>1, UploadRows
    <3>3. up[u].f \in Files
      BY <2>1, <1>1, UploadRows
    <3> QED BY <2>1, <3>1, <3>2, <3>3
  <2>2. CASE ~(up[u].at = "copy" /\ RouteOf(up[u].f) = e[1])
    <3>1. up'[u] = up[u]
      BY <2>2
    <3>2. up[u].at # "idle" => up[u].f \in Files
      BY <1>1, UploadRows
    <3> QED BY <3>1, <3>2
  <2> QED BY <2>1, <2>2
<1>3. \A u \in Handlers : up[u].at # "idle" /\ RouteOf(up[u].f) = e[1] => up[u].f \in overtaken'
  BY <1>2 DEF Busy
<1>4. \A g \in Files : Busy(g)' <=> Busy(g)
  BY <1>2 DEF Busy
<1>5. \A g \in Files : /\ RouteOf(g) = e[1] => file'[g] = "none"
                       /\ RouteOf(g) # e[1] => file'[g] = file[g]
  OBVIOUS
<1>6. overtaken \subseteq overtaken' /\ \A g \in Files : RouteOf(g) = e[1] /\ Busy(g) => g \in overtaken'
  OBVIOUS
<1> QED BY <1>2, <1>3, <1>4, <1>5, <1>6

LEMMA RemoveKeeps ==
  ASSUME StoreTyped, StoreInv, RemoveFiles
  PROVE  StoreInv'
<1>1. PICK e \in clean.todo :
        /\ file' = [f \in Files |-> IF RouteOf(f) = e[1] THEN "none" ELSE file[f]]
        /\ up' = [u \in Handlers |->
                   IF up[u].at = "copy" /\ RouteOf(up[u].f) = e[1]
                   THEN [up[u] EXCEPT !.mine = FALSE] ELSE up[u]]
        /\ overtaken' = overtaken \cup {f \in Files : RouteOf(f) = e[1] /\ Busy(f)}
        /\ clean' = [at |-> "row", todo |-> clean.todo \ {e}, of |-> e]
  BY DEF RemoveFiles
<1>2. clean.at = "next" /\ UNCHANGED <<row, flags, expired, resent, untracked>>
  BY DEF RemoveFiles, rowVars
<1>3. /\ \A u \in Handlers :
           /\ up'[u].at = up[u].at
           /\ up[u].at # "idle" => /\ up'[u].f = up[u].f /\ up[u].f \in Files
                                   /\ RouteOf(up[u].f) = e[1] => up[u].f \in overtaken'
           /\ up[u].at \in {"seg", "flag"} => up'[u].id = up[u].id
           /\ up[u].at = "copy" /\ RouteOf(up[u].f) # e[1] => up'[u].mine = up[u].mine
      /\ \A g \in Files : /\ RouteOf(g) = e[1] => file'[g] = "none"
                          /\ RouteOf(g) # e[1] => file'[g] = file[g]
      /\ overtaken \subseteq overtaken'
      /\ \A g \in Files : Busy(g)' <=> Busy(g)
      /\ \A g \in Files : RouteOf(g) = e[1] /\ Busy(g) => g \in overtaken'
  BY <1>1, <1>2, RemoveEffect
<1>4. Spoilt \subseteq Spoilt' /\ overtaken' \subseteq Spoilt'
  BY <1>2, <1>3 DEF Spoilt
<1>5. e[1] \in expired
  BY DEF StoreInv, FlagInv, PassInv
<1>6. clean'.at = "row" /\ clean'.of = e /\ clean'.todo = clean.todo \ {e}
  BY <1>1
<1>7. FlagMeansStored'
  <2>1. \A g \in Files : Stored(g) => Stored(g)'
    BY <1>2, <1>3, <1>4, <1>5 DEF Stored, Spoilt
  <2> QED BY <1>2, <2>1, FlagsKeep
<1>8. CopyInv'
  BY <1>2, <1>3, <1>4 DEF StoreInv, FlagInv, CopyInv
<1>9. NoteInv'
  BY <1>3, <1>4 DEF StoreInv, FlagInv, NoteInv
<1>10. PairInv'
  BY <1>3, <1>4 DEF StoreInv, FlagInv, PairInv
<1>11. PassInv'
  BY <1>2, <1>5, <1>6 DEF StoreInv, FlagInv, PassInv
<1>12. NoOrphans'
  BY <1>2, <1>3 DEF StoreInv, RowsInv, NoOrphans
<1>13. RowInv'
  BY <1>2, <1>3 DEF StoreInv, RowsInv, RowInv
<1>14. GoneInv'
  BY <1>3, <1>6 DEF GoneInv
<1> QED BY <1>7, <1>8, <1>9, <1>10, <1>11, <1>12, <1>13, <1>14 DEF StoreInv, FlagInv, RowsInv

LEMMA AfterRouteKeeps ==
  ASSUME StoreTyped, clean' = AfterRoute
  PROVE  clean'.at # "row" /\ clean'.todo = clean.todo
BY PassRows DEF AfterRoute

LEMMA DeleteKeeps ==
  ASSUME StoreTyped, StoreInv, DeleteRow
  PROVE  StoreInv'
<1> DEFINE r == clean.of[1]
           gone == IF row[r] = clean.of[2] THEN {r} ELSE {}
<1>1. /\ clean.at = "row" /\ clean' = AfterRoute
      /\ UNCHANGED <<file, up, resent, overtaken, untracked>>
  BY DEF DeleteRow, histVars
<1>2. /\ flags' = {f \in flags : RouteOf(f) \notin gone}
      /\ expired' = expired \ gone
      /\ row' = [row EXCEPT ![r] = IF @ = clean.of[2] THEN 0 ELSE @]
  BY DEF DeleteRow, DropRow
<1>3. \A q \in Routes : q # r => row'[q] = row[q]
  BY <1>2 DEF StoreTyped
<1>4. clean'.at # "row" /\ clean'.todo = clean.todo
  BY <1>1, AfterRouteKeeps
<1>5. Spoilt' = Spoilt /\ \A g \in Files : Busy(g)' <=> Busy(g)
  BY <1>1 DEF Spoilt, Busy
<1>6. FlagMeansStored'
  <2>1. \A k \in flags', g \in Files : FlagOf(g) = k /\ Stored(g) => Stored(g)'
    BY <1>1, <1>2, FileFacts DEF Stored
  <2> QED BY <1>2, <2>1, FlagsKeep
<1>7. CopyInv'
  BY <1>1, <1>2, <1>5 DEF StoreInv, FlagInv, CopyInv
<1>8. NoteInv' /\ PairInv'
  BY <1>1, <1>5 DEF StoreInv, FlagInv, NoteInv, PairInv
<1>9. PassInv'
  BY <1>1, <1>2, <1>4 DEF StoreInv, FlagInv, PassInv
<1>10. NoOrphans'
  <2> SUFFICES ASSUME NEW g \in Files, file[g] # "none", ~Busy(g), g \notin untracked \cup overtaken
               PROVE  row'[RouteOf(g)] # 0
    BY <1>1, <1>5 DEF NoOrphans
  <2>1. RouteOf(g) # r
    BY <1>1 DEF StoreInv, RowsInv, GoneInv
  <2> QED BY <2>1, <1>3, FileFacts DEF StoreInv, RowsInv, NoOrphans
<1>11. RowInv'
  <2> SUFFICES ASSUME NEW u \in Handlers, up[u].at \in {"seg", "flag"}
               PROVE  row'[RouteOf(up[u].f)] = up[u].id \/ up[u].f \in overtaken
    BY <1>1 DEF RowInv
  <2>1. up[u].f \in Files /\ up[u].at # "idle"
    BY UploadRows DEF StoreTyped
  <2>2. Busy(up[u].f)
    BY <2>1 DEF Busy
  <2>3. CASE RouteOf(up[u].f) = r
    BY <2>1, <2>2, <2>3, <1>1 DEF StoreInv, RowsInv, GoneInv
  <2>4. CASE RouteOf(up[u].f) # r
    BY <2>1, <2>4, <1>3, FileFacts DEF StoreInv, RowsInv, RowInv
  <2> QED BY <2>3, <2>4
<1>12. GoneInv'
  BY <1>4 DEF GoneInv
<1> QED BY <1>6, <1>7, <1>8, <1>9, <1>10, <1>11, <1>12 DEF StoreInv, FlagInv, RowsInv

\* A step that leaves files, flags and requests alone keeps the invariant
\* if the routes it lists are out of their retention.
LEMMA QuietKeeps ==
  ASSUME StoreTyped, StoreInv, PassInv', GoneInv',
         UNCHANGED <<file, row, flags, up, resent, overtaken, untracked>>,
         expired \subseteq expired'
  PROVE  StoreInv'
<1>1. Spoilt' = Spoilt /\ \A g \in Files : Busy(g)' <=> Busy(g)
  BY DEF Spoilt, Busy
<1>2. FlagMeansStored'
  <2>1. \A g \in Files : Stored(g) => Stored(g)'
    BY DEF Stored
  <2> QED BY <2>1, FlagsKeep
<1>3. CopyInv' /\ NoteInv' /\ PairInv'
  BY <1>1 DEF StoreInv, FlagInv, CopyInv, NoteInv, PairInv
<1>4. NoOrphans' /\ RowInv'
  BY <1>1 DEF StoreInv, RowsInv, NoOrphans, RowInv
<1> QED BY <1>2, <1>3, <1>4 DEF StoreInv, FlagInv, RowsInv

LEMMA ListKeeps ==
  ASSUME StoreTyped, StoreInv, ListStale
  PROVE  StoreInv'
<1>1. PICK S \in SUBSET Stale : clean' = [at |-> "next", todo |-> {<<r, row[r]>> : r \in S}]
  BY DEF ListStale
<1>2. UNCHANGED <<file, row, flags, expired, up, resent, overtaken, untracked>>
  BY DEF ListStale, rowVars, histVars
<1>3. PassInv'
  BY <1>1, <1>2 DEF PassInv, Stale
<1>4. GoneInv'
  BY <1>1 DEF GoneInv
<1> QED BY <1>2, <1>3, <1>4, QuietKeeps

LEMMA CleanFailsKeeps ==
  ASSUME StoreTyped, StoreInv, CleanFails
  PROVE  StoreInv'
<1>1. UNCHANGED <<file, row, flags, expired, up, resent, overtaken, untracked>>
  BY DEF CleanFails, rowVars, histVars
<1>2. clean'.at # "row" /\ clean'.todo \subseteq clean.todo
  <2>1. CASE clean' = AfterRoute
    BY <2>1, AfterRouteKeeps
  <2>2. ASSUME clean.at = "next", NEW e \in clean.todo,
               clean' = IF clean.todo = {e} THEN Resting ELSE [clean EXCEPT !.todo = @ \ {e}]
        PROVE  clean'.at # "row" /\ clean'.todo \subseteq clean.todo
    <3>1. clean.todo \ {e} \in SUBSET Listed /\ clean \in Passes
      BY PassRows DEF StoreTyped
    <3>2. [clean EXCEPT !.todo = clean.todo \ {e}] = [at |-> "next", todo |-> clean.todo \ {e}]
      BY <2>2, <3>1, PassRows
    <3> QED BY <2>2, <3>2, PassRows
  <2> QED BY <2>1, <2>2 DEF CleanFails
<1>3. PassInv' /\ GoneInv'
  BY <1>1, <1>2 DEF StoreInv, FlagInv, PassInv, GoneInv
<1> QED BY <1>1, <1>3, QuietKeeps

LEMMA RestartKeeps ==
  ASSUME StoreTyped, StoreInv, StoreRestart
  PROVE  StoreInv'
<1>1. /\ UNCHANGED <<file, row, flags, expired, resent, overtaken>>
      /\ clean' = Resting /\ untracked' = untracked \cup {f \in Files : Busy(f)}
  BY DEF StoreRestart, rowVars
<1>2. \A u \in Handlers : up'[u].at = "idle"
  BY UploadRows DEF StoreRestart
<1>3. Spoilt' = Spoilt
  BY <1>1 DEF Spoilt
<1>4. clean'.at # "row" /\ clean'.todo = {}
  BY <1>1, PassRows
<1>5. FlagMeansStored'
  <2>1. \A g \in Files : Stored(g) => Stored(g)'
    BY <1>1 DEF Stored
  <2> QED BY <1>1, <2>1, FlagsKeep
<1>6. CopyInv' /\ NoteInv' /\ PairInv' /\ RowInv'
  BY <1>2 DEF CopyInv, NoteInv, PairInv, RowInv
<1>7. PassInv' /\ GoneInv'
  BY <1>4 DEF PassInv, GoneInv
<1>8. NoOrphans'
  BY <1>1 DEF StoreInv, RowsInv, NoOrphans
<1> QED BY <1>5, <1>6, <1>7, <1>8 DEF StoreInv, FlagInv, RowsInv

LEMMA StoreInvNext ==
  ASSUME StoreTyped, StoreInv, [Next]_vars
  PROVE  StoreInv'
<1>1. CASE \E u \in Handlers : Upload(u)
  BY <1>1, UploadKeeps
<1>2. CASE Cleanup
  BY <1>2, ListKeeps, RemoveKeeps, DeleteKeeps, CleanFailsKeeps DEF Cleanup
<1>3. CASE \E r \in Routes : SetPreserved(r) \/ Expire(r)
  <2>1. /\ UNCHANGED <<file, row, flags, up, clean, resent, overtaken, untracked>>
        /\ expired \subseteq expired'
    BY <1>3 DEF SetPreserved, Expire, histVars
  <2>2. PassInv' /\ GoneInv'
    BY <2>1 DEF StoreInv, FlagInv, RowsInv, PassInv, GoneInv, Busy
  <2> QED BY <2>1, <2>2, QuietKeeps
<1>4. CASE StoreRestart
  BY <1>4, RestartKeeps
<1>5. CASE Elsewhere
  <2>1. UNCHANGED <<file, row, flags, expired, up, clean, resent, overtaken, untracked>>
    BY <1>5 DEF Elsewhere, histVars
  <2>2. PassInv' /\ GoneInv'
    BY <2>1 DEF StoreInv, FlagInv, RowsInv, PassInv, GoneInv, Busy
  <2> QED BY <2>1, <2>2, QuietKeeps
<1> QED BY <1>1, <1>2, <1>3, <1>4, <1>5, StoreSteps

LEMMA StoreInvariant == Spec => [](StoreTyped /\ StoreInv)
<1>1. Init => StoreTyped /\ StoreInv
  BY StoreTypedInit, StoreInvInit
<1>2. StoreTyped /\ StoreInv /\ [Next]_vars => (StoreTyped /\ StoreInv)'
  BY StoreTypedNext, StoreInvNext
<1> QED BY <1>1, <1>2, PTL DEF Spec

(* A *_uploaded flag that is set has a file which sets it and is whole,    *)
(* except for files sent twice, files on their way while the cleanup       *)
(* deleted their route, and routes out of their retention.                 *)
THEOREM UpkeepFlagMeansStored == Spec => []FlagMeansStored
<1>1. StoreTyped /\ StoreInv => FlagMeansStored
  BY DEF StoreInv, FlagInv
<1> QED BY <1>1, StoreInvariant, PTL

(* The cleanup never leaves a file behind without the row it would find it *)
(* by, except for uploads whose tracking failed or that met the deletion.  *)
THEOREM UpkeepNoOrphans == Spec => []NoOrphans
<1>1. StoreTyped /\ StoreInv => NoOrphans
  BY DEF StoreInv, RowsInv
<1> QED BY <1>1, StoreInvariant, PTL
=============================================================================
