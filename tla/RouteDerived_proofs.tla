------------------------- MODULE RouteDerived_proofs ------------------------
(***************************************************************************)
(* For any number of routes, segments, logs and failures: a stamped route  *)
(* has the events of its logs, a trip that no pass comes back to agrees    *)
(* with its route, and turns belong to the track.  The reason is the same  *)
(* in all three: ids are never given twice, and a track that is there      *)
(* stays as it is until its row is deleted.                                *)
(***************************************************************************)
EXTENDS RouteMedia_proofs

----------------------------------------------------------------------------
(* The records: jobs of the workers and trips.                             *)

LEMMA JobRows ==
  /\ Rest \in JobStates /\ Rest.at = "rest"
  /\ \A T \in SUBSET Found :
       /\ [at |-> "read", todo |-> T] \in JobStates
       /\ \A e \in Found :
            /\ [at |-> "stamp", todo |-> T, e |-> e] \in JobStates
            /\ \A L \in SUBSET Segs, b \in BOOLEAN :
                 [at |-> "write", todo |-> T, e |-> e, logs |-> L, behind |-> b] \in JobStates
  /\ \A x \in JobStates :
       /\ x.at \in {"rest", "read", "write", "stamp"}
       /\ x.at = "rest" => x = Rest
       /\ x.at # "rest" => x.todo \in SUBSET Found
       /\ x.at \in {"write", "stamp"} => x.e \in Found
       /\ x.at = "write" =>
            /\ x.logs \in SUBSET Segs /\ x.behind \in BOOLEAN
            /\ [x EXCEPT !.behind = TRUE] \in JobStates
            /\ [x EXCEPT !.behind = TRUE].at = "write"
            /\ [x EXCEPT !.behind = TRUE].todo = x.todo
            /\ [x EXCEPT !.behind = TRUE].e = x.e
            /\ [x EXCEPT !.behind = TRUE].logs = x.logs
<1>1. \A x \in JobStates :
        \/ x = Rest
        \/ x \in [at : {"read"}, todo : SUBSET Found]
        \/ x \in [at : {"write"}, todo : SUBSET Found, e : Found, logs : SUBSET Segs, behind : BOOLEAN]
        \/ x \in [at : {"stamp"}, todo : SUBSET Found, e : Found]
  BY DEF JobStates
<1>2. \A x \in JobStates :
       /\ x.at \in {"rest", "read", "write", "stamp"}
       /\ x.at = "rest" => x = Rest
       /\ x.at # "rest" => x.todo \in SUBSET Found
       /\ x.at \in {"write", "stamp"} => x.e \in Found
       /\ x.at = "write" =>
            x \in [at : {"write"}, todo : SUBSET Found, e : Found, logs : SUBSET Segs, behind : BOOLEAN]
  BY <1>1 DEF Rest
<1>3. Rest \in JobStates /\ Rest.at = "rest"
  BY DEF Rest, JobStates
<1>4. ASSUME NEW T \in SUBSET Found
      PROVE  /\ [at |-> "read", todo |-> T] \in JobStates
             /\ \A e \in Found :
                  /\ [at |-> "stamp", todo |-> T, e |-> e] \in JobStates
                  /\ \A L \in SUBSET Segs, b \in BOOLEAN :
                       [at |-> "write", todo |-> T, e |-> e, logs |-> L, behind |-> b] \in JobStates
  BY DEF JobStates
<1> DEFINE W == [at : {"write"}, todo : SUBSET Found, e : Found, logs : SUBSET Segs, behind : BOOLEAN]
<1>5. \A x \in W :
        /\ x.logs \in SUBSET Segs /\ x.behind \in BOOLEAN
        /\ [x EXCEPT !.behind = TRUE] \in W
        /\ [x EXCEPT !.behind = TRUE].at = "write"
        /\ [x EXCEPT !.behind = TRUE].todo = x.todo
        /\ [x EXCEPT !.behind = TRUE].e = x.e
        /\ [x EXCEPT !.behind = TRUE].logs = x.logs
  OBVIOUS
<1>6. W \subseteq JobStates
  BY DEF JobStates
<1> QED BY <1>2, <1>3, <1>4, <1>5, <1>6

LEMMA FoundRows ==
  \A d \in Found : d.r \in Routes /\ d.id \in 1..MaxRows /\ d.times \in SUBSET Segs
BY DEF Found

Trips == [at : {1}, dur : SUBSET Segs, dist : SUBSET Segs, behind : BOOLEAN, stamped : BOOLEAN]

LEMMA TripFacts ==
  /\ NoTrip \in TripRows
  /\ \A x \in TripRows : x # NoTrip => x \in Trips
  /\ \A x \in Trips :
       /\ x \in TripRows /\ x # NoTrip
       /\ x.dur \in SUBSET Segs /\ x.dist \in SUBSET Segs
       /\ x.behind \in BOOLEAN /\ x.stamped \in BOOLEAN
       /\ [x EXCEPT !.behind = TRUE] \in Trips /\ [x EXCEPT !.behind = TRUE].dur = x.dur
       /\ [x EXCEPT !.behind = TRUE].dist = x.dist
       /\ [x EXCEPT !.behind = TRUE].stamped = x.stamped
       /\ [x EXCEPT !.stamped = TRUE] \in Trips /\ [x EXCEPT !.stamped = TRUE].dur = x.dur
       /\ [x EXCEPT !.stamped = TRUE].dist = x.dist
       /\ [x EXCEPT !.stamped = TRUE].stamped
<1>1. NoTrip \in TripRows /\ \A x \in TripRows : x # NoTrip => x \in Trips
  BY DEF TripRows, Trips
<1>2. \A x \in Trips : x \in TripRows /\ x # NoTrip
  <2>1. \A x \in Trips : x.at = 1
    BY DEF Trips
  <2>2. NoTrip.at = 0
    BY DEF NoTrip
  <2> QED BY <2>1, <2>2 DEF TripRows, Trips
<1>3. ASSUME NEW x \in Trips
      PROVE  /\ x.dur \in SUBSET Segs /\ x.dist \in SUBSET Segs
             /\ x.behind \in BOOLEAN /\ x.stamped \in BOOLEAN
             /\ [x EXCEPT !.behind = TRUE] \in Trips /\ [x EXCEPT !.behind = TRUE].dur = x.dur
             /\ [x EXCEPT !.behind = TRUE].dist = x.dist
             /\ [x EXCEPT !.behind = TRUE].stamped = x.stamped
             /\ [x EXCEPT !.stamped = TRUE] \in Trips /\ [x EXCEPT !.stamped = TRUE].dur = x.dur
             /\ [x EXCEPT !.stamped = TRUE].dist = x.dist
             /\ [x EXCEPT !.stamped = TRUE].stamped
  BY DEF Trips
<1> QED BY <1>1, <1>2, <1>3

----------------------------------------------------------------------------
(* The steps that touch the derived data.  Only the store changes files    *)
(* and rows, and a row it makes has an id higher than all before it.       *)

Calm == UNCHANGED <<file, row, lastRow>>

RowsMove ==
  /\ lastRow' = lastRow \/ lastRow' = lastRow + 1
  /\ \A r \in Routes : row'[r] = row[r] \/ row'[r] = 0 \/ (row'[r] = lastRow' /\ lastRow' = lastRow + 1)

LEMMA RowsMoveInStore ==
  ASSUME StoreTyped, StoreStep
  PROVE  RowsMove
<1>1. CASE UNCHANGED <<row, lastRow>>
  BY <1>1 DEF RowsMove
<1>2. ASSUME NEW u \in Handlers, Upload(u) PROVE RowsMove
  <2>1. CASE GetOrCreateRoute(u)
    BY <2>1 DEF GetOrCreateRoute, RowsMove, StoreTyped
  <2>2. CASE ~GetOrCreateRoute(u)
    <3>1. UNCHANGED <<row, lastRow>>
      BY <1>2, <2>2 DEF Upload, UploadStart, Copied, CopyFails, CreateSegment, SetFlag,
                        TrackFails, rowVars
    <3> QED BY <1>1, <3>1
  <2> QED BY <2>1, <2>2
<1>3. CASE DeleteRow
  BY <1>3 DEF DeleteRow, DropRow, RowsMove, StoreTyped
<1>4. CASE ListStale \/ RemoveFiles \/ CleanFails
  BY <1>1, <1>4 DEF ListStale, RemoveFiles, CleanFails, rowVars
<1>5. ASSUME NEW r \in Routes, SetPreserved(r) \/ Expire(r) PROVE RowsMove
  BY <1>1, <1>5 DEF SetPreserved, Expire
<1> QED BY <1>2, <1>3, <1>4, <1>5 DEF StoreStep

LEMMA DerivedSteps ==
  ASSUME StoreTyped, [Next]_vars
  PROVE  \/ DerivedWatch /\ RowsMove
         \/ /\ Calm
            /\ \/ \E w \in DerivedWorkers : Derive(w) \/ PassFails(w)
               \/ WriteMetadata \/ WriteEventsFails
               \/ \E r \in Routes : Settle(r)
               \/ DerivedRestart
               \/ UNCHANGED derivedVars
<1>1. CASE StoreStep
  BY <1>1, RowsMoveInStore DEF StoreStep
<1>2. CASE MediaStep
  <2>1. UNCHANGED derivedVars /\ (UNCHANGED storeVars \/ UNCHANGED ButUpsets)
    BY <1>2 DEF MediaStep, ScannerStep, TranscodeStep, FfmpegFailsStep
  <2> QED BY <2>1 DEF storeVars, rowVars, ButUpsets, Calm
<1>3. CASE DerivedStep
  <2>1. UNCHANGED storeVars \/ UNCHANGED ButUpsets \/ UNCHANGED ButEnded
    BY <1>3 DEF DerivedStep, DeriveStep, SettleStep
  <2>2. Calm
    BY <2>1 DEF storeVars, rowVars, ButUpsets, ButEnded, Calm
  <2> QED BY <1>3, <2>2 DEF DerivedStep, DeriveStep, SettleStep
<1>4. CASE Restart
  BY <1>4 DEF Restart, StoreRestart, rowVars, Calm
<1>5. CASE UNCHANGED vars
  BY <1>5 DEF vars, storeVars, rowVars, Calm
<1>6. CASE ThumbStep
  <2>1. UNCHANGED derivedVars /\ (UNCHANGED storeVars \/ UNCHANGED ButUpsets)
    BY <1>6 DEF ThumbStep, ThumbScanStep, GenerateStep, CoolStep, ShotFailsStep
  <2> QED BY <2>1 DEF storeVars, rowVars, ButUpsets, Calm
<1> QED BY <1>1, <1>2, <1>3, <1>4, <1>5, <1>6 DEF Next

----------------------------------------------------------------------------
(* Types                                                                   *)

JobsTyped ==
  /\ job \in [DerivedWorkers -> JobStates]
  /\ \A w \in DerivedWorkers :
       /\ job[w].at = "read" => job[w].todo # {}
       /\ job[w].at \in {"write", "stamp"} => job[w].e \notin job[w].todo

DataTyped ==
  /\ times \in [Routes -> SUBSET Segs] /\ track \in [Routes -> SUBSET Segs]
  /\ trip \in [Routes -> TripRows] /\ events \in [Clips -> {"none", "undated", "dated"}]
  /\ turns \in [Routes -> SUBSET Segs]

\* What a step makes of the job of a worker.
Same(w) ==
  /\ job'[w].at = job[w].at
  /\ job[w].at # "rest" => job'[w].todo = job[w].todo
  /\ job[w].at \in {"write", "stamp"} => job'[w].e = job[w].e
  /\ job[w].at = "write" => job'[w].logs = job[w].logs

Lists(w) ==
  \E B \in Batches(w) : B # {} /\ job'[w] = [at |-> "read", todo |-> B]

Opened(w) ==
  /\ job[w].at = "read"
  /\ \E e \in job[w].todo : \E L \in Sources(w, e.r) :
       job'[w] = [at |-> "write", todo |-> job[w].todo \ {e}, e |-> e,
                  logs |-> L, behind |-> FALSE]

Wrote(w) ==
  /\ w = "events" /\ job[w].at = "write" /\ Alive(job[w].e)
  /\ job'[w] = [at |-> "stamp", todo |-> job[w].todo, e |-> job[w].e]
  /\ events' = Inserted(job[w].e, job[w].logs)

Dropped(w) ==
  \/ job'[w] = Rest
  \/ /\ job[w].at # "rest"
     /\ \E T \in SUBSET job[w].todo : T # {} /\ job'[w] = [at |-> "read", todo |-> T]

Quiet == UNCHANGED <<times, track, trip, events, turns>>

LEMMA GoMoves ==
  ASSUME job \in [DerivedWorkers -> JobStates], NEW w \in DerivedWorkers,
         job[w].at # "rest", NEW T \in SUBSET job[w].todo, Go(w, T)
  PROVE  /\ job' \in [DerivedWorkers -> JobStates] /\ Dropped(w)
         /\ \A v \in DerivedWorkers : v # w => job'[v] = job[v]
<1> DEFINE x == IF T = {} THEN Rest ELSE [at |-> "read", todo |-> T]
<1>1. T \in SUBSET Found
  BY JobRows
<1>2. x \in JobStates
  BY <1>1, JobRows
<1>3. job' = [job EXCEPT ![w] = x]
  BY DEF Go
<1>4. x = Rest \/ (T # {} /\ x = [at |-> "read", todo |-> T])
  OBVIOUS
<1> HIDE DEF x
<1>5. /\ job' \in [DerivedWorkers -> JobStates] /\ job'[w] = x
      /\ \A v \in DerivedWorkers : v # w => job'[v] = job[v]
  BY <1>2, <1>3
<1> QED BY <1>4, <1>5 DEF Dropped

\* The routes a list query finds have a row.
LEMMA BatchFacts ==
  ASSUME StoreTyped, DataTyped, NEW w \in DerivedWorkers, NEW B \in Batches(w)
  PROVE  /\ B \in SUBSET Found
         /\ \A d \in B : /\ d.r \in Routes /\ Needs(w, d.r)
                         /\ d = [r |-> d.r, id |-> row[d.r], times |-> times[d.r]]
<1>1. ASSUME NEW r \in Routes, Needs(w, r) PROVE row[r] # 0
  BY <1>1 DEF Needs, DerivedWorkers, NeedsMetadata, NeedsTrip, NeedsEvents, NeedsTurns, HasTrack, Settled
<1>2. ASSUME NEW d \in B
      PROVE  /\ d.r \in Routes /\ Needs(w, d.r)
             /\ d = [r |-> d.r, id |-> row[d.r], times |-> times[d.r]]
  <2>1. d \in Candidates(w)
    BY <1>2 DEF Batches
  <2> QED BY <2>1 DEF Candidates
<1>3. ASSUME NEW d \in B PROVE d \in Found
  <2>1. row[d.r] \in 1..MaxRows /\ times[d.r] \in SUBSET Segs
    BY <1>1, <1>2, StoreConstants DEF StoreTyped, DataTyped
  <2> QED BY <1>2, <2>1 DEF Found
<1> QED BY <1>2, <1>3

\* What is read are segments.
LEMMA SourceFacts ==
  ASSUME DataTyped, NEW w, NEW r \in Routes, NEW L \in Sources(w, r)
  PROVE  L \in SUBSET Segs
<1>1. CASE w \in {"metadata", "events"}
  <2>1. PICK C \in SUBSET CutLogs(r) : L = Logs(r) \cup C
    BY <1>1 DEF Sources
  <2>2. Logs(r) \subseteq Segs /\ CutLogs(r) \subseteq Segs
    BY DEF Logs, CutLogs
  <2> QED BY <2>1, <2>2
<1>2. CASE w \notin {"metadata", "events"}
  <2>1. L = IF row[r] = 0 THEN {} ELSE track[r]
    BY <1>2 DEF Sources
  <2> QED BY <2>1 DEF DataTyped
<1> QED BY <1>1, <1>2

LEMMA JobMoves ==
  ASSUME StoreTyped, JobsTyped, DataTyped, [Next]_vars
  PROVE  /\ job' \in [DerivedWorkers -> JobStates]
         /\ \A w \in DerivedWorkers :
              \/ Same(w) \/ Dropped(w) \/ (Calm /\ Wrote(w))
              \/ Calm /\ Quiet /\ Lists(w)
              \/ Calm /\ Quiet /\ Opened(w)
<1> DEFINE Moves(w) == \/ Same(w) \/ Dropped(w) \/ (Calm /\ Wrote(w))
                       \/ Calm /\ Quiet /\ Lists(w)
                       \/ Calm /\ Quiet /\ Opened(w)
           All == job' \in [DerivedWorkers -> JobStates] /\ \A w \in DerivedWorkers : Moves(w)
<1> SUFFICES All
  OBVIOUS
<1>0. job \in [DerivedWorkers -> JobStates]
  BY DEF JobsTyped
<1>1. \A v \in DerivedWorkers : job'[v] = job[v] => Moves(v)
  BY DEF Same
<1>2. CASE UNCHANGED job
  BY <1>0, <1>1, <1>2
<1>3. ASSUME NEW w \in DerivedWorkers, NEW x \in JobStates, job' = [job EXCEPT ![w] = x],
             job'[w] = x => Moves(w)
      PROVE  All
  <2> HIDE DEF Moves
  <2>1. /\ job' \in [DerivedWorkers -> JobStates] /\ job'[w] = x
        /\ \A v \in DerivedWorkers : v # w => job'[v] = job[v]
    BY <1>0, <1>3
  <2> QED BY <1>1, <1>3, <2>1
<1>4. ASSUME NEW w \in DerivedWorkers, NEW T \in SUBSET job[w].todo, job[w].at # "rest", Go(w, T)
      PROVE  All
  <2>1. /\ job' \in [DerivedWorkers -> JobStates] /\ Dropped(w)
        /\ \A v \in DerivedWorkers : v # w => job'[v] = job[v]
    BY <1>0, <1>4, GoMoves
  <2> QED BY <1>1, <2>1
<1>5. "metadata" \in DerivedWorkers /\ "trips" \in DerivedWorkers /\ "events" \in DerivedWorkers
  BY DEF DerivedWorkers
<1>6. CASE DerivedWatch
  <2> DEFINE new == {c[1] : c \in segs' \ segs}
             w == "trips"
             x == [job[w] EXCEPT !.behind = TRUE]
  <2>1. CASE job[w].at = "write" /\ job[w].e.r \in new
    <3>1. job[w] \in JobStates
      BY <1>0, <1>5
    <3>2. /\ x \in JobStates /\ x.at = "write" /\ x.todo = job[w].todo
          /\ x.e = job[w].e /\ x.logs = job[w].logs
      BY <2>1, <3>1, JobRows
    <3>4. job' = [job EXCEPT ![w] = x]
      BY <1>6, <2>1 DEF DerivedWatch
    <3> HIDE DEF x
    <3>5. job'[w] = x => Same(w)
      BY <2>1, <3>2 DEF Same
    <3> QED BY <1>3, <1>5, <3>2, <3>4, <3>5
  <2>2. CASE ~(job[w].at = "write" /\ job[w].e.r \in new)
    <3>1. job' = job
      BY <1>0, <1>6, <2>2 DEF DerivedWatch
    <3> QED BY <1>2, <3>1
  <2> QED BY <2>1, <2>2
<1>7. ASSUME NEW w \in DerivedWorkers, List(w), Calm PROVE All
  <2>1. PICK B \in Batches(w) : B # {} /\ job' = [job EXCEPT ![w] = [at |-> "read", todo |-> B]]
    BY <1>7 DEF List
  <2> DEFINE x == [at |-> "read", todo |-> B]
  <2>2. x \in JobStates
    BY BatchFacts, JobRows
  <2>3. job'[w] = x => Lists(w)
    BY <2>1 DEF Lists
  <2>4. job' = [job EXCEPT ![w] = x] /\ Quiet
    BY <1>7, <2>1 DEF List, Quiet
  <2> HIDE DEF x
  <2> QED BY <1>3, <1>7, <2>2, <2>3, <2>4
<1>8. ASSUME NEW w \in DerivedWorkers, Read(w), Calm PROVE All
  <2>1. job[w].at = "read" /\ Quiet
    BY <1>8 DEF Read, Quiet
  <2>2. job[w].todo \in SUBSET Found
    BY <1>0, <2>1, JobRows
  <2>3. ASSUME NEW e \in job[w].todo, NEW L \in Sources(w, e.r),
               job' = [job EXCEPT ![w] = [at |-> "write", todo |-> job[w].todo \ {e}, e |-> e,
                                          logs |-> L, behind |-> FALSE]]
        PROVE  All
    <3> DEFINE x == [at |-> "write", todo |-> job[w].todo \ {e}, e |-> e, logs |-> L, behind |-> FALSE]
    <3>1. L \in SUBSET Segs
      BY <2>2, FoundRows, SourceFacts
    <3>2. x \in JobStates
      BY <2>2, <3>1, JobRows
    <3>3. job'[w] = x => Opened(w)
      BY <2>1 DEF Opened
    <3>4. job' = [job EXCEPT ![w] = x]
      BY <2>3
    <3> HIDE DEF x
    <3> QED BY <1>3, <1>8, <2>1, <3>2, <3>3, <3>4
  <2>4. ASSUME NEW e \in job[w].todo, Go(w, job[w].todo \ {e}) PROVE All
    BY <1>4, <2>1, <2>4
  <2> QED BY <1>8, <2>3, <2>4 DEF Read, Firsts
<1>9. CASE Calm /\ WriteEvents
  <2> DEFINE w == "events"
             x == [at |-> "stamp", todo |-> job[w].todo, e |-> job[w].e]
  <2>1. job[w].at = "write"
    BY <1>9 DEF WriteEvents
  <2>2. job[w].todo \in SUBSET Found /\ job[w].e \in Found
    BY <1>0, <1>5, <2>1, JobRows
  <2>3. CASE Alive(job[w].e)
    <3>1. job' = [job EXCEPT ![w] = x]
      BY <1>9, <2>3 DEF WriteEvents
    <3>2. x \in JobStates
      BY <2>2, JobRows
    <3>4. events' = Inserted(job[w].e, job[w].logs)
      BY <1>9, <2>3 DEF WriteEvents
    <3>3. job'[w] = x => Wrote(w)
      BY <2>1, <2>3, <3>4 DEF Wrote
    <3> HIDE DEF x
    <3> QED BY <1>3, <1>5, <1>9, <3>1, <3>2, <3>3
  <2>4. CASE ~Alive(job[w].e)
    <3>1. Go(w, job[w].todo)
      BY <1>9, <2>4 DEF WriteEvents
    <3> QED BY <1>4, <1>5, <2>1, <3>1
  <2> QED BY <2>3, <2>4
<1>10. CASE WriteMetadata
  <2>1. job["metadata"].at # "rest" /\ Go("metadata", job["metadata"].todo)
    BY <1>10 DEF WriteMetadata
  <2> QED BY <1>4, <1>5, <2>1
<1>11. CASE WriteTrip
  <2>1. job["trips"].at # "rest" /\ Go("trips", job["trips"].todo)
    BY <1>11 DEF WriteTrip
  <2> QED BY <1>4, <1>5, <2>1
<1>12. CASE MarkEvents \/ WriteEventsFails
  <2>1. job["events"].at # "rest" /\ Go("events", job["events"].todo)
    BY <1>12 DEF MarkEvents, WriteEventsFails
  <2> QED BY <1>4, <1>5, <2>1
<1>13. ASSUME NEW w \in DerivedWorkers, WriteTurns(w) PROVE All
  <2>1. job[w].at # "rest" /\ Go(w, job[w].todo)
    BY <1>13 DEF WriteTurns
  <2> QED BY <1>4, <2>1
<1>14. ASSUME NEW w \in DerivedWorkers, PassFails(w) PROVE All
  <2>1. PICK T \in SUBSET job[w].todo : Go(w, T)
    BY <1>14 DEF PassFails
  <2>2. job[w].at # "rest"
    BY <1>14 DEF PassFails
  <2> QED BY <1>4, <2>1, <2>2
<1>15. ASSUME NEW r \in Routes, Settle(r) PROVE All
  BY <1>2, <1>15 DEF Settle
<1>16. CASE DerivedRestart
  <2>1. job' = [w \in DerivedWorkers |-> Rest]
    BY <1>16 DEF DerivedRestart
  <2> QED BY <2>1, JobRows DEF Dropped
<1>17. CASE UNCHANGED derivedVars
  BY <1>2, <1>17 DEF derivedVars
<1> HIDE DEF All
<1>18. ASSUME NEW w \in DerivedWorkers, Derive(w), Calm PROVE All
  BY <1>7, <1>8, <1>9, <1>11, <1>12, <1>13, <1>18 DEF Derive
<1> QED BY <1>6, <1>10, <1>12, <1>14, <1>15, <1>16, <1>17, <1>18, DerivedSteps

LEMMA JobsTypedNext ==
  ASSUME StoreTyped, JobsTyped, DataTyped, [Next]_vars
  PROVE  JobsTyped'
<1> SUFFICES ASSUME NEW w \in DerivedWorkers
             PROVE  /\ job'[w].at = "read" => job'[w].todo # {}
                    /\ job'[w].at \in {"write", "stamp"} => job'[w].e \notin job'[w].todo
  BY JobMoves DEF JobsTyped
<1>1. CASE Same(w)
  BY <1>1, JobRows DEF Same, JobsTyped
<1>2. CASE Dropped(w)
  <2>1. CASE job'[w] = Rest
    BY <2>1, JobRows
  <2>2. ASSUME NEW T \in SUBSET job[w].todo, T # {}, job'[w] = [at |-> "read", todo |-> T]
        PROVE  job'[w].at = "read" /\ job'[w].todo # {}
    BY <2>2
  <2> QED BY <1>2, <2>1, <2>2 DEF Dropped
<1>3. CASE Wrote(w)
  BY <1>3 DEF Wrote, JobsTyped
<1>4. CASE Lists(w)
  BY <1>4 DEF Lists
<1>5. CASE Opened(w)
  BY <1>5 DEF Opened
<1> QED BY <1>1, <1>2, <1>3, <1>4, <1>5, JobMoves

LEMMA DerivedTypedInit == Init => JobsTyped /\ DataTyped
<1> SUFFICES ASSUME NEW sc \in Scenarios, StoreInit(sc), DerivedInit(sc)
             PROVE  JobsTyped /\ DataTyped
  BY DEF Init
<1>1. \A w \in DerivedWorkers : job[w] = Rest
  BY DEF DerivedInit
<1>2. JobsTyped
  BY <1>1, JobRows DEF DerivedInit, JobsTyped
<1>3. times \in [Routes -> SUBSET Segs]
  <2>1. \A r \in Routes : (IF r \in sc.ended THEN Logs(r) ELSE {}) \in SUBSET Segs
    BY DEF Logs
  <2> QED BY <2>1 DEF DerivedInit
<1>4. track \in [Routes -> SUBSET Segs]
  <2>1. \A r \in Routes : {s \in times[r] : <<r, s>> \in Gps} \in SUBSET Segs
    BY <1>3
  <2> QED BY <2>1 DEF DerivedInit
<1>5. trip \in [Routes -> TripRows] /\ events \in [Clips -> {"none", "undated", "dated"}]
      /\ turns \in [Routes -> SUBSET Segs]
  BY TripFacts DEF DerivedInit
<1> QED BY <1>2, <1>3, <1>4, <1>5 DEF DataTyped

LEMMA DataTypedNext ==
  ASSUME StoreTyped, JobsTyped, DataTyped, [Next]_vars
  PROVE  DataTyped'
<1>0. /\ times \in [Routes -> SUBSET Segs] /\ track \in [Routes -> SUBSET Segs]
      /\ trip \in [Routes -> TripRows] /\ events \in [Clips -> {"none", "undated", "dated"}]
      /\ turns \in [Routes -> SUBSET Segs] /\ job \in [DerivedWorkers -> JobStates]
  BY DEF DataTyped, JobsTyped
<1>1. CASE Quiet
  BY <1>0, <1>1 DEF Quiet, DataTyped
<1>2. CASE DerivedWatch
  <2> DEFINE new  == {c[1] : c \in segs' \ segs}
             gone == {r \in Routes : row[r] # 0 /\ row'[r] = 0}
             after(r) == IF r \in gone THEN NoTrip
                         ELSE IF r \in new /\ trip[r] # NoTrip THEN [trip[r] EXCEPT !.behind = TRUE]
                         ELSE trip[r]
  <2>1. /\ times' = [r \in Routes |-> IF r \in gone THEN {} ELSE times[r]]
        /\ track' = [r \in Routes |-> IF r \in gone THEN {} ELSE track[r]]
        /\ trip' = [r \in Routes |-> after(r)]
        /\ events' = [c \in Clips |-> IF c[1] \in gone THEN "none" ELSE events[c]]
        /\ turns' = turns
    BY <1>2 DEF DerivedWatch
  <2>2. \A r \in Routes : after(r) \in TripRows
    BY <1>0, TripFacts
  <2> HIDE DEF gone, after
  <2>3. trip' \in [Routes -> TripRows]
    BY <2>1, <2>2
  <2>4. /\ times' \in [Routes -> SUBSET Segs] /\ track' \in [Routes -> SUBSET Segs]
        /\ events' \in [Clips -> {"none", "undated", "dated"}]
    BY <1>0, <2>1
  <2> QED BY <1>0, <2>1, <2>3, <2>4 DEF DataTyped
<1>3. CASE WriteMetadata
  <2> DEFINE e   == job["metadata"].e
             got == job["metadata"].logs
             gps == {s \in got : <<e.r, s>> \in Gps}
  <2>1. got \in SUBSET Segs
    BY <1>0, <1>3, JobRows DEF WriteMetadata, DerivedWorkers
  <2>2. \/ UNCHANGED <<times, track>>
        \/ /\ times' = [times EXCEPT ![e.r] = got]
           /\ track' = [track EXCEPT ![e.r] = IF gps = {} THEN @ ELSE gps]
    BY <1>3 DEF WriteMetadata
  <2>3. gps \in SUBSET Segs
    BY <2>1
  <2> HIDE DEF gps, got
  <2>4. times' \in [Routes -> SUBSET Segs] /\ track' \in [Routes -> SUBSET Segs]
    BY <1>0, <2>1, <2>2, <2>3
  <2> QED BY <1>0, <1>3, <2>4 DEF WriteMetadata, DataTyped
<1>4. CASE WriteTrip
  <2> DEFINE e == job["trips"].e
             x == [at |-> 1, dur |-> e.times, dist |-> job["trips"].logs,
                   behind |-> job["trips"].behind,
                   stamped |-> IF trip[e.r] = NoTrip THEN FALSE ELSE trip[e.r].stamped]
  <2>1. /\ e \in Found /\ job["trips"].logs \in SUBSET Segs /\ job["trips"].behind \in BOOLEAN
    BY <1>0, <1>4, JobRows DEF WriteTrip, DerivedWorkers
  <2>2. e.r \in Routes /\ e.times \in SUBSET Segs
    BY <2>1, FoundRows
  <2>3. (IF trip[e.r] = NoTrip THEN FALSE ELSE trip[e.r].stamped) \in BOOLEAN
    BY <1>0, <2>2, TripFacts
  <2>4. x \in Trips
    BY <2>1, <2>2, <2>3 DEF Trips
  <2>5. trip' = trip \/ trip' = [trip EXCEPT ![e.r] = x]
    BY <1>4 DEF WriteTrip
  <2> HIDE DEF x
  <2>7. x \in TripRows
    BY <2>4, TripFacts
  <2>6. trip' \in [Routes -> TripRows]
    BY <1>0, <2>5, <2>7
  <2> QED BY <1>0, <1>4, <2>6 DEF WriteTrip, DataTyped
<1>5. CASE MarkEvents
  <2> DEFINE e == job["events"].e
  <2>1. \/ trip' = trip
        \/ trip[e.r] # NoTrip /\ trip' = [trip EXCEPT ![e.r] = [trip[e.r] EXCEPT !.stamped = TRUE]]
    BY <1>5 DEF MarkEvents
  <2>2. e.r \in Routes
    BY <1>0, <1>5, JobRows, FoundRows DEF MarkEvents, DerivedWorkers
  <2>4. trip[e.r] # NoTrip => [trip[e.r] EXCEPT !.stamped = TRUE] \in TripRows
    BY <1>0, <2>2, TripFacts
  <2>5. trip' \in [Routes -> TripRows]
    BY <1>0, <2>1, <2>4
  <2> QED BY <1>0, <1>5, <2>5 DEF MarkEvents, DataTyped
<1>6. ASSUME NEW e, NEW L, events' = Inserted(e, L) PROVE events' \in [Clips -> {"none", "undated", "dated"}]
  BY <1>0, <1>6 DEF Inserted
<1>7. CASE WriteEvents \/ WriteEventsFails
  <2>1. events' \in [Clips -> {"none", "undated", "dated"}]
    BY <1>0, <1>6, <1>7 DEF WriteEvents, WriteEventsFails
  <2> QED BY <1>0, <1>7, <2>1 DEF WriteEvents, WriteEventsFails, DataTyped
<1>8. ASSUME NEW w \in DerivedWorkers, WriteTurns(w) PROVE DataTyped'
  <2> DEFINE e == job[w].e
             T == {s \in job[w].logs : <<e.r, s>> \in Turny}
  <2>1. job[w].logs \in SUBSET Segs
    BY <1>0, <1>8, JobRows DEF WriteTurns
  <2>2. T \in SUBSET Segs
    BY <2>1
  <2>3. turns' = turns \/ turns' = [turns EXCEPT ![e.r] = T]
    BY <1>8 DEF WriteTurns
  <2> HIDE DEF T
  <2>4. turns' \in [Routes -> SUBSET Segs]
    BY <1>0, <2>2, <2>3
  <2> QED BY <1>0, <1>8, <2>4 DEF WriteTurns, DataTyped
<1>9. ASSUME NEW w \in DerivedWorkers, List(w) \/ Read(w) \/ PassFails(w) PROVE Quiet
  BY <1>9 DEF List, Read, PassFails, Quiet
<1>10. ASSUME NEW r \in Routes, Settle(r) PROVE Quiet
  BY <1>10 DEF Settle, Quiet
<1>11. CASE DerivedRestart \/ UNCHANGED derivedVars
  BY <1>1, <1>11 DEF DerivedRestart, derivedVars, Quiet
<1>12. ASSUME NEW w \in DerivedWorkers, Derive(w) PROVE DataTyped'
  BY <1>1, <1>4, <1>5, <1>7, <1>8, <1>9, <1>12 DEF Derive
<1> QED BY <1>1, <1>2, <1>3, <1>7, <1>9, <1>10, <1>11, <1>12, DerivedSteps

LEMMA NotAtWrite ==
  ASSUME NEW w \in DerivedWorkers, Dropped(w) \/ Wrote(w) \/ Lists(w)
  PROVE  job'[w].at # "write"
<1>1. CASE Dropped(w)
  <2>1. job'[w] = Rest \/ \E T \in SUBSET job[w].todo : job'[w] = [at |-> "read", todo |-> T]
    BY <1>1 DEF Dropped
  <2>2. CASE job'[w] = Rest
    BY <2>2, JobRows
  <2>3. ASSUME NEW T, job'[w] = [at |-> "read", todo |-> T] PROVE job'[w].at # "write"
    BY <2>3
  <2> QED BY <2>1, <2>2, <2>3
<1>2. CASE Wrote(w)
  BY <1>2 DEF Wrote
<1>3. CASE Lists(w)
  BY <1>3 DEF Lists
<1> QED BY <1>1, <1>2, <1>3

----------------------------------------------------------------------------
(* Ids.  A route that was listed and is alive has been there all along.    *)

\* What a worker still has in hand.
Entries(w) ==
  {d \in Found : \/ job[w].at # "rest" /\ d \in job[w].todo
                 \/ job[w].at \in {"write", "stamp"} /\ d = job[w].e}

IdsInv ==
  /\ \A r \in Routes : row[r] <= lastRow
  /\ \A w \in DerivedWorkers : \A d \in Entries(w) : d.id <= lastRow

Typed == StoreTyped /\ JobsTyped /\ DataTyped

LEMMA EntriesMove ==
  ASSUME Typed, [Next]_vars, NEW w \in DerivedWorkers
  PROVE  \/ Entries(w)' \subseteq Entries(w)
         \/ /\ Calm /\ Quiet
            /\ \A d \in Entries(w)' : Alive(d) /\ d.times = times[d.r] /\ Needs(w, d.r)
            /\ \A d1, d2 \in Entries(w)' : d1.r = d2.r => d1 = d2
<1>1. job[w] \in JobStates
  BY DEF Typed, JobsTyped
<1>2. CASE Same(w)
  BY <1>1, <1>2, JobRows DEF Same, Entries
<1>3. CASE Dropped(w)
  <2>1. CASE job'[w] = Rest
    BY <2>1, JobRows DEF Entries
  <2>2. ASSUME NEW T \in SUBSET job[w].todo, job[w].at # "rest",
               job'[w] = [at |-> "read", todo |-> T]
        PROVE  Entries(w)' \subseteq Entries(w)
    BY <2>2 DEF Entries
  <2> QED BY <1>3, <2>1, <2>2 DEF Dropped
<1>4. CASE Wrote(w)
  BY <1>4 DEF Wrote, Entries
<1>5. CASE Opened(w)
  <2>1. PICK e \in job[w].todo :
          \E L \in Sources(w, e.r) :
            job'[w] = [at |-> "write", todo |-> job[w].todo \ {e}, e |-> e,
                       logs |-> L, behind |-> FALSE]
    BY <1>5 DEF Opened
  <2>2. job[w].at = "read" /\ job'[w].at = "write" /\ job'[w].e = e /\ job'[w].todo = job[w].todo \ {e}
    BY <1>5, <2>1 DEF Opened
  <2> QED BY <2>2 DEF Entries
<1>6. CASE Calm /\ Quiet /\ Lists(w)
  <2>1. PICK B \in Batches(w) : job'[w] = [at |-> "read", todo |-> B]
    BY <1>6 DEF Lists
  <2>2. Entries(w)' \subseteq B
    BY <2>1 DEF Entries
  <2>3. \A d \in B : /\ d.r \in Routes /\ Needs(w, d.r)
                    /\ d = [r |-> d.r, id |-> row[d.r], times |-> times[d.r]]
    BY BatchFacts DEF Typed
  <2>4. \A d1, d2 \in B : d1.r = d2.r => d1 = d2
    BY <2>3
  <2>5. \A d \in B : Alive(d) /\ d.times = times[d.r] /\ Needs(w, d.r)
    BY <2>3 DEF Alive
  <2> QED BY <1>6, <2>2, <2>4, <2>5
<1> QED BY <1>2, <1>3, <1>4, <1>5, <1>6, JobMoves DEF Typed

LEMMA CalmRows == ASSUME StoreTyped, Calm PROVE RowsMove
BY DEF Calm, RowsMove, StoreTyped

LEMMA RowsAlwaysMove == ASSUME StoreTyped, [Next]_vars PROVE RowsMove
BY DerivedSteps, CalmRows

LEMMA IdsInvNext ==
  ASSUME Typed, IdsInv, [Next]_vars
  PROVE  IdsInv'
<1>1. RowsMove
  BY RowsAlwaysMove DEF Typed
<1>2. lastRow \in Nat /\ lastRow' \in Nat /\ lastRow <= lastRow' /\ \A r \in Routes : row[r] \in Nat
  BY <1>1, StoreConstants DEF RowsMove, Typed, StoreTyped
<1>3. \A r \in Routes : row'[r] <= lastRow'
  BY <1>1, <1>2 DEF RowsMove, IdsInv
<1>4. ASSUME NEW w \in DerivedWorkers, NEW d \in Entries(w)' PROVE d.id <= lastRow'
  <2>1. d \in Found
    BY DEF Entries
  <2>2. d.id \in Nat /\ d.r \in Routes
    BY <2>1, FoundRows, StoreConstants
  <2>3. CASE d \in Entries(w)
    BY <1>2, <2>2, <2>3 DEF IdsInv
  <2>4. CASE Alive(d) /\ Calm
    BY <1>2, <2>2, <2>4 DEF IdsInv, Alive, Calm
  <2> QED BY <2>3, <2>4, EntriesMove
<1> QED BY <1>3, <1>4 DEF IdsInv

Gone(r) == row[r] # 0 /\ row'[r] = 0

LEMMA AliveBefore ==
  ASSUME StoreTyped, RowsMove, NEW d \in Found, d.id <= lastRow, Alive(d)'
  PROVE  Alive(d) /\ ~Gone(d.r)
<1>1. d.id \in Nat /\ d.id # 0 /\ d.r \in Routes /\ lastRow \in Nat
  BY FoundRows, StoreConstants DEF StoreTyped
<1>2. row'[d.r] = d.id
  BY DEF Alive
<1> QED BY <1>1, <1>2 DEF RowsMove, Alive, Gone

LEMMA StaysInHand ==
  ASSUME Typed, IdsInv, [Next]_vars, NEW w \in DerivedWorkers, NEW d \in Entries(w), Alive(d)'
  PROVE  Alive(d) /\ ~Gone(d.r) /\ d.r \in Routes
<1>1. d \in Found /\ d.id <= lastRow
  BY DEF Entries, IdsInv
<1> QED BY <1>1, RowsAlwaysMove, AliveBefore, FoundRows DEF Typed

LEMMA StaysWhole ==
  ASSUME Typed, IdsInv, [Next]_vars, NEW w \in DerivedWorkers
  PROVE  \A d \in Entries(w) : row'[d.r] = d.id => Alive(d) /\ ~Gone(d.r) /\ d.r \in Routes
BY StaysInHand DEF Alive

----------------------------------------------------------------------------
(* Times and track                                                         *)

MetaInv ==
  /\ \A r \in Routes : times[r] = {} => track[r] = {}
  /\ \A d \in Entries("metadata") : Alive(d) => track[d.r] = {}
  /\ \A d1, d2 \in Entries("metadata") : d1.r = d2.r => d1 = d2

\* A track that is there stays as it is while the row is there.
LEMMA TrackMoves ==
  ASSUME Typed, IdsInv, MetaInv, [Next]_vars
  PROVE  /\ \A r \in Routes : Gone(r) => times'[r] = {} /\ track'[r] = {}
         /\ \A r \in Routes : ~Gone(r) =>
              /\ track[r] # {} => track'[r] = track[r]
              /\ times[r] # {} => times'[r] # {}
         /\ \A r \in Routes : times'[r] = {} => track'[r] = {}
         /\ \/ \A r \in Routes : track'[r] = track[r] \/ Gone(r)
            \/ \E e \in Entries("metadata") :
                 /\ e \notin Entries("metadata")' /\ Entries("metadata")' \subseteq Entries("metadata")
                 /\ Alive(e)
                 /\ \A r \in Routes : track'[r] = track[r] \/ r = e.r
<1>0. /\ times \in [Routes -> SUBSET Segs] /\ track \in [Routes -> SUBSET Segs]
      /\ job \in [DerivedWorkers -> JobStates] /\ "metadata" \in DerivedWorkers
  BY DEF Typed, DataTyped, JobsTyped, DerivedWorkers
<1>1. CASE DerivedWatch
  <2>1. \A r \in Routes : /\ Gone(r) => times'[r] = {} /\ track'[r] = {}
                          /\ ~Gone(r) => times'[r] = times[r] /\ track'[r] = track[r]
    BY <1>0, <1>1 DEF DerivedWatch, Gone
  <2> QED BY <2>1 DEF MetaInv
<1>2. CASE Calm /\ UNCHANGED <<times, track>>
  <2>1. \A r \in Routes : ~Gone(r)
    BY <1>2 DEF Calm, Gone
  <2> QED BY <1>2, <2>1 DEF MetaInv
<1>3. CASE Calm /\ WriteMetadata
  <2> DEFINE e   == job["metadata"].e
             got == job["metadata"].logs
             gps == {s \in got : <<e.r, s>> \in Gps}
             T   == job["metadata"].todo
  <2>1. job["metadata"].at = "write" /\ Go("metadata", T)
    BY <1>3 DEF WriteMetadata
  <2>2. e \in Found /\ T \in SUBSET Found /\ e \notin T
    BY <1>0, <2>1, JobRows DEF Typed, JobsTyped
  <2>3. e.r \in Routes
    BY <2>2, FoundRows
  <2>4. e \in Entries("metadata")
    BY <2>1, <2>2 DEF Entries
  <2>5. CASE ~(Alive(e) /\ got # {})
    BY <1>2, <1>3, <2>5 DEF WriteMetadata
  <2>6. CASE Alive(e) /\ got # {}
    <3>1. /\ times' = [times EXCEPT ![e.r] = got]
          /\ track' = [track EXCEPT ![e.r] = IF gps = {} THEN @ ELSE gps]
      BY <1>3, <2>6 DEF WriteMetadata
    <3> HIDE DEF gps
    <3>2. /\ times'[e.r] = got /\ got # {}
          /\ \A r \in Routes : r # e.r => times'[r] = times[r] /\ track'[r] = track[r]
      BY <1>0, <2>3, <2>6, <3>1
    <3>3. track[e.r] = {}
      BY <2>4, <2>6 DEF MetaInv
    <3>4. \A r \in Routes : ~Gone(r)
      BY <1>3 DEF Calm, Gone
    <3>5. job'["metadata"] = IF T = {} THEN Rest ELSE [at |-> "read", todo |-> T]
      BY <1>0 , <2>1 DEF Go
    <3>6. \A d \in Entries("metadata")' : d \in T
      <4>1. CASE T = {}
        BY <3>5, <4>1, JobRows DEF Entries
      <4>2. CASE T # {}
        <5>1. job'["metadata"].at = "read" /\ job'["metadata"].todo = T
          BY <3>5, <4>2
        <5> QED BY <5>1 DEF Entries
      <4> QED BY <4>1, <4>2
    <3>7. T \subseteq Entries("metadata")
      BY <2>1, <2>2 DEF Entries
    <3> QED BY <2>2, <2>3, <2>4, <2>6, <3>2, <3>3, <3>4, <3>6, <3>7 DEF MetaInv
  <2> QED BY <2>5, <2>6
<1>4. ASSUME NEW w \in DerivedWorkers, Derive(w) \/ PassFails(w) PROVE UNCHANGED <<times, track>>
  BY <1>4 DEF Derive, List, Read, WriteTrip, WriteEvents, MarkEvents, WriteTurns, PassFails
<1>5. ASSUME NEW r \in Routes, Settle(r) PROVE UNCHANGED <<times, track>>
  BY <1>5 DEF Settle
<1>6. CASE Calm /\ (WriteEventsFails \/ DerivedRestart \/ UNCHANGED derivedVars)
  BY <1>2, <1>6 DEF WriteEventsFails, DerivedRestart, derivedVars
<1> QED BY <1>1, <1>2, <1>3, <1>4, <1>5, <1>6, DerivedSteps DEF Typed

LEMMA MetaInvNext ==
  ASSUME Typed, IdsInv, MetaInv, [Next]_vars
  PROVE  MetaInv'
<1> DEFINE E == Entries("metadata")
<1>0. "metadata" \in DerivedWorkers
  BY DEF DerivedWorkers
<1>1. \A r \in Routes : times'[r] = {} => track'[r] = {}
  BY TrackMoves
<1>2. CASE E' \subseteq E
  <2>1. \A d1, d2 \in E' : d1.r = d2.r => d1 = d2
    BY <1>2 DEF MetaInv
  <2>2. ASSUME NEW d \in E', Alive(d)' PROVE track'[d.r] = {}
    <3>1. d \in E
      BY <1>2
    <3>2. Alive(d) /\ ~Gone(d.r) /\ d.r \in Routes
      BY <1>0, <2>2, <3>1, StaysInHand
    <3>3. track[d.r] = {}
      BY <3>1, <3>2 DEF MetaInv
    <3>4. CASE \A r \in Routes : track'[r] = track[r] \/ Gone(r)
      BY <3>2, <3>3, <3>4
    <3>5. ASSUME NEW e \in E, e \notin E', \A r \in Routes : track'[r] = track[r] \/ r = e.r
          PROVE  track'[d.r] = {}
      <4>1. d.r # e.r
        BY <3>1, <3>5 DEF MetaInv
      <4> QED BY <3>2, <3>3, <3>5, <4>1
    <3> QED BY <3>4, <3>5, TrackMoves
  <2> QED BY <1>1, <2>1, <2>2 DEF MetaInv
<1>3. CASE /\ Calm /\ Quiet
           /\ \A d \in E' : Alive(d) /\ d.times = times[d.r] /\ Needs("metadata", d.r)
           /\ \A d1, d2 \in E' : d1.r = d2.r => d1 = d2
  <2>1. ASSUME NEW d \in E' PROVE track'[d.r] = {}
    <3>1. d.r \in Routes
      BY FoundRows DEF Entries
    <3>2. NeedsMetadata(d.r)
      BY <1>3 DEF Needs
    <3> QED BY <1>3, <3>1, <3>2 DEF MetaInv, NeedsMetadata, Quiet
  <2> QED BY <1>1, <1>3, <2>1 DEF MetaInv
<1> QED BY <1>0, <1>2, <1>3, EntriesMove

----------------------------------------------------------------------------
(* Trips                                                                   *)

TripInv ==
  /\ \A r \in Routes : trip[r] # NoTrip =>
       /\ trip[r].dist = {} \/ trip[r].dist = track[r]
       /\ trip[r].dur = {} \/ times[r] # {}
  /\ \A d \in Entries("trips") : Alive(d) => d.times = {} \/ times[d.r] # {}
  /\ job["trips"].at = "write" /\ Alive(job["trips"].e) =>
       job["trips"].logs = {} \/ job["trips"].logs = track[job["trips"].e.r]

Stamps(r) ==
  /\ Calm /\ job["events"].at = "stamp" /\ UNCHANGED events
  /\ Alive(job["events"].e) /\ job["events"].e.r = r

Writes(r) ==
  /\ Calm /\ job["trips"].at = "write" /\ UNCHANGED <<times, track>>
  /\ Alive(job["trips"].e) /\ job["trips"].e.r = r
  /\ trip'[r].dur = job["trips"].e.times /\ trip'[r].dist = job["trips"].logs

LEMMA TripMoves ==
  ASSUME Typed, [Next]_vars, NEW r \in Routes, trip'[r] # NoTrip
  PROVE  /\ ~Gone(r)
         /\ \/ Writes(r)
            \/ trip[r] # NoTrip /\ trip'[r].dur = trip[r].dur /\ trip'[r].dist = trip[r].dist
         /\ trip'[r].stamped => (trip[r] # NoTrip /\ trip[r].stamped) \/ Stamps(r)
<1>0. /\ trip \in [Routes -> TripRows] /\ job \in [DerivedWorkers -> JobStates]
      /\ {"trips", "events"} \subseteq DerivedWorkers
  BY DEF Typed, DataTyped, JobsTyped, DerivedWorkers
<1>1. CASE Calm /\ trip' = trip
  BY <1>1 DEF Calm, Gone
<1>2. CASE DerivedWatch
  <2> DEFINE new == {c[1] : c \in segs' \ segs}
  <2>1. trip'[r] = IF Gone(r) THEN NoTrip
                   ELSE IF r \in new /\ trip[r] # NoTrip THEN [trip[r] EXCEPT !.behind = TRUE]
                   ELSE trip[r]
    BY <1>2 DEF DerivedWatch, Gone
  <2>2. ~Gone(r)
    BY <2>1
  <2>3. CASE trip'[r] = trip[r]
    BY <2>2, <2>3
  <2>4. CASE trip[r] # NoTrip /\ trip'[r] = [trip[r] EXCEPT !.behind = TRUE]
    <3> DEFINE x == [trip[r] EXCEPT !.behind = TRUE]
    <3>1. trip[r] \in Trips
      BY <1>0, <2>4, TripFacts
    <3>2. x.dur = trip[r].dur /\ x.dist = trip[r].dist /\ x.stamped = trip[r].stamped
      BY <3>1, TripFacts
    <3>3. trip'[r] = x
      BY <2>4
    <3> HIDE DEF x
    <3> QED BY <2>2, <2>4, <3>2, <3>3
  <2> QED BY <2>1, <2>2, <2>3, <2>4
<1>3. CASE Calm /\ WriteTrip
  <2> DEFINE e == job["trips"].e
             b == IF trip[e.r] = NoTrip THEN FALSE ELSE trip[e.r].stamped
             x == [at |-> 1, dur |-> e.times, dist |-> job["trips"].logs,
                   behind |-> job["trips"].behind, stamped |-> b]
  <2>1. job["trips"].at = "write" /\ UNCHANGED <<times, track>>
    BY <1>3 DEF WriteTrip
  <2>2. CASE ~Alive(e)
    BY <1>1, <1>3, <2>2 DEF WriteTrip
  <2>3. CASE Alive(e)
    <3>1. trip' = [trip EXCEPT ![e.r] = x]
      BY <1>3, <2>3 DEF WriteTrip
    <3>2. x.dur = e.times /\ x.dist = job["trips"].logs /\ x.stamped = b
      OBVIOUS
    <3> HIDE DEF x
    <3>3. ~Gone(r)
      BY <1>3 DEF Calm, Gone
    <3>4. CASE r = e.r
      <4>1. trip'[r] = x
        BY <1>0, <3>1, <3>4
      <4>2. Writes(r)
        BY <1>3, <2>1, <2>3, <3>2, <3>4, <4>1 DEF Writes
      <4>3. x.stamped => trip[r] # NoTrip /\ trip[r].stamped
        BY <3>2, <3>4
      <4> QED BY <3>3, <4>1, <4>2, <4>3
    <3>5. CASE r # e.r
      <4>1. trip'[r] = trip[r]
        BY <1>0, <3>1, <3>5
      <4> QED BY <3>3, <4>1
    <3> QED BY <3>4, <3>5
  <2> QED BY <2>2, <2>3
<1>4. CASE Calm /\ MarkEvents
  <2> DEFINE e == job["events"].e
             x == [trip[e.r] EXCEPT !.stamped = TRUE]
  <2>1. job["events"].at = "stamp" /\ UNCHANGED events
    BY <1>4 DEF MarkEvents
  <2>2. CASE trip' = trip
    BY <1>1, <1>4, <2>2
  <2>3. CASE Alive(e) /\ trip[e.r] # NoTrip /\ trip' = [trip EXCEPT ![e.r] = x]
    <3>1. e.r \in Routes
      BY <1>0, <2>1, JobRows, FoundRows
    <3>2. trip[e.r] \in Trips
      BY <1>0, <2>3, <3>1, TripFacts
    <3>3. x.dur = trip[e.r].dur /\ x.dist = trip[e.r].dist
      BY <3>2, TripFacts
    <3>4. ~Gone(r)
      BY <1>4 DEF Calm, Gone
    <3> HIDE DEF x
    <3>5. CASE r = e.r
      <4>1. trip'[r] = x
        BY <1>0, <2>3, <3>5
      <4>2. Stamps(r)
        BY <1>4, <2>1, <2>3, <3>5 DEF Stamps
      <4> QED BY <2>3, <3>3, <3>4, <3>5, <4>1, <4>2
    <3>6. CASE r # e.r
      <4>1. trip'[r] = trip[r]
        BY <1>0, <2>3, <3>6
      <4> QED BY <3>4, <4>1
    <3> QED BY <3>5, <3>6
  <2>4. trip' = trip \/ (Alive(e) /\ trip[e.r] # NoTrip /\ trip' = [trip EXCEPT ![e.r] = x])
    BY <1>4 DEF MarkEvents
  <2> QED BY <2>2, <2>3, <2>4
<1>5. ASSUME NEW w \in DerivedWorkers,
             List(w) \/ Read(w) \/ WriteEvents \/ WriteTurns(w) \/ PassFails(w)
      PROVE  trip' = trip
  BY <1>5 DEF List, Read, WriteEvents, WriteTurns, PassFails
<1>6. ASSUME NEW q \in Routes, Settle(q) PROVE trip' = trip
  BY <1>6 DEF Settle
<1>7. CASE Calm /\ (WriteMetadata \/ WriteEventsFails \/ DerivedRestart \/ UNCHANGED derivedVars)
  BY <1>1, <1>7 DEF WriteMetadata, WriteEventsFails, DerivedRestart, derivedVars
<1>8. ASSUME Calm, NEW w \in DerivedWorkers, Derive(w) PROVE (Calm /\ trip' = trip) \/ WriteTrip \/ MarkEvents
  BY <1>5, <1>8 DEF Derive
<1> QED BY <1>1, <1>2, <1>3, <1>4, <1>5, <1>6, <1>7, <1>8, DerivedSteps DEF Typed

LEMMA TripInvNext ==
  ASSUME Typed, IdsInv, MetaInv, TripInv, [Next]_vars
  PROVE  TripInv'
<1> DEFINE w == "trips"
<1>0. w \in DerivedWorkers /\ job[w] \in JobStates
  BY DEF DerivedWorkers, Typed, JobsTyped
<1>1. ASSUME NEW r \in Routes, trip'[r] # NoTrip
      PROVE  /\ trip'[r].dist = {} \/ trip'[r].dist = track'[r]
             /\ trip'[r].dur = {} \/ times'[r] # {}
  <2>1. ~Gone(r)
    BY <1>1, TripMoves
  <2>2. CASE Writes(r)
    <3>1. job[w].e \in Entries(w)
      BY <1>0, <2>2, JobRows DEF Writes, Entries
    <3> QED BY <2>2, <3>1 DEF Writes, TripInv
  <2>3. CASE trip[r] # NoTrip /\ trip'[r].dur = trip[r].dur /\ trip'[r].dist = trip[r].dist
    BY <2>1, <2>3, TrackMoves DEF TripInv
  <2> QED BY <1>1, <2>2, <2>3, TripMoves
<1>2. ASSUME NEW d \in Entries(w)', Alive(d)' PROVE d.times = {} \/ times'[d.r] # {}
  <2>1. CASE d \in Entries(w)
    <3>1. Alive(d) /\ ~Gone(d.r) /\ d.r \in Routes
      BY <1>0, <1>2, <2>1, StaysInHand
    <3> QED BY <2>1, <3>1, TrackMoves DEF TripInv
  <2>2. CASE Quiet /\ d.times = times[d.r]
    BY <2>2 DEF Quiet
  <2> QED BY <1>0, <2>1, <2>2, EntriesMove
<1>3. ASSUME job'[w].at = "write", row'[job'[w].e.r] = job'[w].e.id
      PROVE  job'[w].logs = {} \/ job'[w].logs = track'[job'[w].e.r]
  <2>1. CASE Same(w)
    <3>1. /\ job[w].at = "write" /\ job'[w].e = job[w].e /\ job'[w].logs = job[w].logs
          /\ job[w].e \in Entries(w)
      BY <1>0, <1>3, <2>1, JobRows DEF Same, Entries
    <3>2. row'[job[w].e.r] = job[w].e.id
      BY <1>3, <3>1
    <3>3. Alive(job[w].e) /\ ~Gone(job[w].e.r) /\ job[w].e.r \in Routes
      BY <1>0, <3>1, <3>2, StaysWhole
    <3> QED BY <3>1, <3>3, TrackMoves DEF TripInv
  <2>2. CASE Quiet /\ Opened(w)
    <3>0. PICK e \in job[w].todo :
            \E L \in Sources(w, e.r) :
              job'[w] = [at |-> "write", todo |-> job[w].todo \ {e}, e |-> e,
                         logs |-> L, behind |-> FALSE]
      BY <2>2 DEF Opened
    <3>1. PICK L \in Sources(w, e.r) :
            job'[w] = [at |-> "write", todo |-> job[w].todo \ {e}, e |-> e,
                       logs |-> L, behind |-> FALSE]
      BY <3>0
    <3>2. job'[w].e = e /\ job'[w].logs = L
      BY <3>1
    <3>3. L = {} \/ L = track[e.r]
      BY DEF Sources
    <3> QED BY <2>2, <3>2, <3>3 DEF Quiet
  <2>3. CASE Dropped(w) \/ Wrote(w) \/ Lists(w)
    <3>1. job'[w].at # "write"
      BY <1>0, <2>3, NotAtWrite
    <3> QED BY <1>3, <3>1
  <2> QED BY <1>0, <2>1, <2>2, <2>3, JobMoves DEF Typed
<1> QED BY <1>1, <1>2, <1>3 DEF TripInv, Alive

----------------------------------------------------------------------------
(* Turns                                                                   *)

TurnWorkers == {"turns", "backfill"}
TurnsOf(r, L) == {s \in L : <<r, s>> \in Turny}

TurnInv ==
  /\ \A r \in Routes : r \notin reused /\ turns[r] # {} => row[r] # 0 /\ turns[r] = TurnsOf(r, track[r])
  /\ \A w \in TurnWorkers :
       job[w].at = "write" /\ job[w].logs # {} /\ job[w].e.r \notin reused =>
         row[job[w].e.r] # 0 /\ job[w].logs = track[job[w].e.r]

LEMMA TurnMoves ==
  ASSUME Typed, [Next]_vars
  PROVE  /\ reused \subseteq reused'
         /\ \A r \in Routes : Gone(r) /\ turns[r] # {} => r \in reused'
         /\ \A w \in TurnWorkers :
              job[w].at = "write" /\ job[w].e.r \in Routes /\ Gone(job[w].e.r) => job[w].e.r \in reused'
         /\ \/ turns' = turns
            \/ \E w \in TurnWorkers :
                 /\ Calm /\ track' = track /\ job[w].at = "write" /\ job[w].logs # {}
                 /\ turns' = [turns EXCEPT ![job[w].e.r] = TurnsOf(job[w].e.r, job[w].logs)]
<1>1. CASE DerivedWatch
  BY <1>1 DEF DerivedWatch, Gone, TurnWorkers
<1>2. CASE Calm /\ reused' = reused /\ turns' = turns
  BY <1>2 DEF Calm, Gone
<1>3. ASSUME NEW w \in DerivedWorkers, Calm, WriteTurns(w)
      PROVE  /\ reused' = reused
             /\ \/ turns' = turns
                \/ /\ w \in TurnWorkers /\ track' = track /\ job[w].at = "write" /\ job[w].logs # {}
                   /\ turns' = [turns EXCEPT ![job[w].e.r] = TurnsOf(job[w].e.r, job[w].logs)]
  BY <1>3 DEF WriteTurns, TurnWorkers, TurnsOf
<1>4. \A r \in Routes : Calm => ~Gone(r)
  BY DEF Calm, Gone
<1>5. ASSUME NEW w \in DerivedWorkers, Derive(w) \/ PassFails(w), ~WriteTurns(w)
      PROVE  reused' = reused /\ turns' = turns
  BY <1>5 DEF Derive, List, Read, WriteTrip, WriteEvents, MarkEvents, PassFails
<1>6. ASSUME NEW r \in Routes, Settle(r) PROVE reused' = reused /\ turns' = turns
  BY <1>6 DEF Settle
<1>7. CASE Calm /\ (WriteMetadata \/ WriteEventsFails \/ DerivedRestart \/ UNCHANGED derivedVars)
  BY <1>2, <1>7 DEF WriteMetadata, WriteEventsFails, DerivedRestart, derivedVars
<1>8. ASSUME NEW w \in DerivedWorkers, Calm, WriteTurns(w)
      PROVE  /\ reused \subseteq reused'
             /\ \A r \in Routes : ~Gone(r)
             /\ \/ turns' = turns
                \/ \E v \in TurnWorkers :
                     /\ Calm /\ track' = track /\ job[v].at = "write" /\ job[v].logs # {}
                     /\ turns' = [turns EXCEPT ![job[v].e.r] = TurnsOf(job[v].e.r, job[v].logs)]
  BY <1>3, <1>4, <1>8
<1> QED BY <1>1, <1>2, <1>5, <1>6, <1>7, <1>8, DerivedSteps DEF Typed

LEMMA TurnInvNext ==
  ASSUME Typed, IdsInv, MetaInv, TurnInv, [Next]_vars
  PROVE  TurnInv'
<1>0. /\ turns \in [Routes -> SUBSET Segs]
      /\ \A w \in TurnWorkers : w \in DerivedWorkers /\ job[w] \in JobStates
  BY DEF Typed, DataTyped, JobsTyped, TurnWorkers, DerivedWorkers
<1>1. reused \subseteq reused' /\ \A r \in Routes : ~Gone(r) /\ row[r] # 0 => row'[r] # 0
  BY TurnMoves DEF Gone
<1>2. ASSUME NEW r \in Routes, r \notin reused', turns'[r] # {}
      PROVE  row'[r] # 0 /\ turns'[r] = TurnsOf(r, track'[r])
  <2>1. CASE turns'[r] = turns[r]
    <3>1. row[r] # 0 /\ turns[r] = TurnsOf(r, track[r]) /\ ~Gone(r)
      BY <1>1, <1>2, <2>1, TurnMoves DEF TurnInv
    <3>2. track[r] # {}
      BY <1>2, <2>1, <3>1 DEF TurnsOf
    <3>3. track'[r] = track[r]
      BY <3>1, <3>2, TrackMoves
    <3> QED BY <1>1, <2>1, <3>1, <3>3
  <2>2. ASSUME NEW w \in TurnWorkers, Calm, track' = track, job[w].at = "write", job[w].logs # {},
               turns' = [turns EXCEPT ![job[w].e.r] = TurnsOf(job[w].e.r, job[w].logs)]
        PROVE  row'[r] # 0 /\ turns'[r] = TurnsOf(r, track'[r])
    <3> DEFINE q == job[w].e.r
               T == TurnsOf(q, job[w].logs)
    <3>1. turns' = [turns EXCEPT ![q] = T]
      BY <2>2
    <3>2. CASE r = q
      <4>1. row[q] # 0 /\ job[w].logs = track[q]
        BY <1>1, <1>2, <2>2, <3>2 DEF TurnInv
      <4>2. turns'[r] = T
        <5> HIDE DEF T, q
        <5> QED BY <1>0, <3>1, <3>2
      <4> QED BY <2>2, <3>2, <4>1, <4>2 DEF Calm
    <3>3. CASE r # q
      <4> HIDE DEF T, q
      <4>1. turns'[r] = turns[r]
        BY <1>0, <3>1, <3>3
      <4> QED BY <2>1, <4>1
    <3> QED BY <3>2, <3>3
  <2> QED BY <2>1, <2>2, TurnMoves
<1>3. ASSUME NEW w \in TurnWorkers, job'[w].at = "write", job'[w].logs # {}, job'[w].e.r \notin reused'
      PROVE  row'[job'[w].e.r] # 0 /\ job'[w].logs = track'[job'[w].e.r]
  <2>1. CASE Same(w)
    <3>1. job[w].at = "write" /\ job'[w].e = job[w].e /\ job'[w].logs = job[w].logs
      BY <1>3, <2>1 DEF Same
    <3>2. job[w].e.r \in Routes
      BY <1>0, <3>1, JobRows, FoundRows
    <3>3. row[job[w].e.r] # 0 /\ job[w].logs = track[job[w].e.r]
      BY <1>1, <1>3, <3>1 DEF TurnInv
    <3>4. ~Gone(job[w].e.r)
      BY <1>3, <3>1, <3>2, TurnMoves
    <3>5. track'[job[w].e.r] = track[job[w].e.r]
      BY <1>3, <3>1, <3>2, <3>3, <3>4, TrackMoves
    <3> QED BY <1>1, <3>1, <3>2, <3>3, <3>4, <3>5
  <2>2. CASE Calm /\ Quiet /\ Opened(w)
    <3>0. PICK e \in job[w].todo :
            \E L \in Sources(w, e.r) :
              job'[w] = [at |-> "write", todo |-> job[w].todo \ {e}, e |-> e,
                         logs |-> L, behind |-> FALSE]
      BY <2>2 DEF Opened
    <3>1. PICK L \in Sources(w, e.r) :
            job'[w] = [at |-> "write", todo |-> job[w].todo \ {e}, e |-> e,
                       logs |-> L, behind |-> FALSE]
      BY <3>0
    <3>2. job'[w].e = e /\ job'[w].logs = L
      BY <3>1
    <3>3. L = IF row[e.r] = 0 THEN {} ELSE track[e.r]
      BY DEF Sources, TurnWorkers
    <3>4. row[e.r] # 0 /\ L = track[e.r]
      BY <1>3, <3>2, <3>3
    <3> QED BY <2>2, <3>2, <3>4 DEF Quiet, Calm
  <2>3. CASE Dropped(w) \/ Wrote(w) \/ Lists(w)
    BY <1>0, <1>3, <2>3, NotAtWrite
  <2> QED BY <1>0, <2>1, <2>2, <2>3, JobMoves DEF Typed
<1> QED BY <1>2, <1>3 DEF TurnInv

----------------------------------------------------------------------------
(* Events                                                                  *)

\* The logs that the events of a route must come from.
Due(r) == {c \in Clips : c[1] = r /\ file[Log(c)] = "whole" /\ c \notin late}

EventInv ==
  /\ EventsComplete
  /\ job["events"].at = "write" => \A c \in Due(job["events"].e.r) : c[2] \in job["events"].logs
  /\ job["events"].at = "stamp" /\ Alive(job["events"].e) =>
       \A c \in Due(job["events"].e.r) : events[c] # "none"

LEMMA EventMoves ==
  ASSUME Typed, [Next]_vars, NEW c \in Clips
  PROVE  /\ c \in late => c \in late'
         /\ events[c] # "none" /\ ~Gone(c[1]) => events'[c] # "none"
         /\ file'[Log(c)] = "whole" /\ c \notin late' =>
              \/ file[Log(c)] = "whole"
              \/ /\ ~(job["events"].at \in {"write", "stamp"} /\ job["events"].e.r = c[1])
                 /\ ~(trip[c[1]] # NoTrip /\ trip[c[1]].stamped)
<1>0. c[1] \in Routes
  BY DEF Clips
<1>1. CASE DerivedWatch
  <2> DEFINE came == {d \in Clips : file[Log(d)] # "whole" /\ file'[Log(d)] = "whole"}
             now  == {d \in came : \/ job["events"].at \in {"write", "stamp"} /\ job["events"].e.r = d[1]
                                   \/ trip[d[1]] # NoTrip /\ trip[d[1]].stamped}
  <2>1. late' = late \cup now
    BY <1>1 DEF DerivedWatch
  <2>2. ~Gone(c[1]) => events'[c] = events[c]
    BY <1>0, <1>1 DEF DerivedWatch, Gone
  <2>3. c \in came /\ c \notin now =>
          /\ ~(job["events"].at \in {"write", "stamp"} /\ job["events"].e.r = c[1])
          /\ ~(trip[c[1]] # NoTrip /\ trip[c[1]].stamped)
    OBVIOUS
  <2>4. file'[Log(c)] = "whole" /\ file[Log(c)] # "whole" => c \in came
    OBVIOUS
  <2> HIDE DEF now, came
  <2> QED BY <2>1, <2>2, <2>3, <2>4
<1>2. CASE Calm /\ late' = late /\ events' = events
  BY <1>2 DEF Calm
<1>3. ASSUME NEW e, NEW L, events' = Inserted(e, L), Calm, late' = late
      PROVE  /\ late' = late /\ file' = file
             /\ events[c] # "none" => events'[c] # "none"
  BY <1>3 DEF Inserted, Calm
<1>4. ASSUME Calm, WriteEvents \/ WriteEventsFails
      PROVE  late' = late /\ (events' = events \/ \E e, L : events' = Inserted(e, L))
  BY <1>4 DEF WriteEvents, WriteEventsFails
<1>5. ASSUME NEW w \in DerivedWorkers, Derive(w) \/ PassFails(w)
      PROVE  WriteEvents \/ (late' = late /\ events' = events)
  BY <1>5 DEF Derive, List, Read, WriteTrip, WriteTurns, MarkEvents, PassFails
<1>6. ASSUME NEW r \in Routes, Settle(r) PROVE late' = late /\ events' = events
  BY <1>6 DEF Settle
<1>7. CASE Calm /\ (WriteMetadata \/ DerivedRestart \/ UNCHANGED derivedVars)
  BY <1>2, <1>7 DEF WriteMetadata, DerivedRestart, derivedVars
<1>8. CASE Calm /\ (WriteEvents \/ WriteEventsFails)
  BY <1>2, <1>3, <1>4, <1>8
<1> QED BY <1>1, <1>2, <1>5, <1>6, <1>7, <1>8, DerivedSteps DEF Typed

LEMMA InsertedFacts ==
  ASSUME NEW e, NEW L, events' = Inserted(e, L), NEW c \in Clips, c[1] = e.r, c[2] \in L
  PROVE  events'[c] # "none"
BY DEF Inserted

\* What is due of a route that is being written, stamped or has been
\* stamped only shrinks.
LEMMA DueMoves ==
  ASSUME Typed, [Next]_vars, NEW r \in Routes,
         \/ job["events"].at \in {"write", "stamp"} /\ job["events"].e.r = r
         \/ trip[r] # NoTrip /\ trip[r].stamped,
         NEW c \in Clips, c[1] = r, file'[Log(c)] = "whole", c \notin late'
  PROVE  c \in Due(r)
BY EventMoves DEF Due

LEMMA EventInvNext ==
  ASSUME Typed, IdsInv, MetaInv, EventInv, [Next]_vars
  PROVE  EventInv'
<1> DEFINE w == "events"
<1>0. w \in DerivedWorkers /\ job[w] \in JobStates
  BY DEF DerivedWorkers, Typed, JobsTyped
<1>1. ASSUME NEW c \in Clips, trip'[c[1]] # NoTrip, trip'[c[1]].stamped,
             file'[Log(c)] = "whole", c \notin late'
      PROVE  events'[c] # "none"
  <2>0. c[1] \in Routes
    BY DEF Clips
  <2>1. ~Gone(c[1])
    BY <1>1, <2>0, TripMoves
  <2>2. CASE trip[c[1]] # NoTrip /\ trip[c[1]].stamped
    <3>1. c \in Due(c[1])
      BY <1>1, <2>0, <2>2, DueMoves
    <3>2. events[c] # "none"
      BY <2>2, <3>1 DEF Due, EventInv, EventsComplete
    <3> QED BY <2>1, <3>2, EventMoves
  <2>3. CASE Stamps(c[1])
    <3>1. c \in Due(c[1])
      BY <1>1, <2>0, <2>3, DueMoves DEF Stamps
    <3>2. events[c] # "none"
      BY <2>3, <3>1 DEF Stamps, EventInv
    <3> QED BY <2>1, <3>2, EventMoves
  <2> QED BY <1>1, <2>0, <2>2, <2>3, TripMoves
<1>2. ASSUME job'[w].at = "write", NEW c \in Clips, c[1] = job'[w].e.r,
             file'[Log(c)] = "whole", c \notin late'
      PROVE  c[2] \in job'[w].logs
  <2>1. CASE Same(w)
    <3>1. job[w].at = "write" /\ job'[w].e = job[w].e /\ job'[w].logs = job[w].logs
      BY <1>2, <2>1 DEF Same
    <3>2. job[w].e.r \in Routes
      BY <1>0, <3>1, JobRows, FoundRows
    <3>3. c \in Due(job[w].e.r)
      BY <1>2, <3>1, <3>2, DueMoves
    <3> QED BY <3>1, <3>3 DEF EventInv
  <2>2. CASE Calm /\ Quiet /\ Opened(w)
    <3>0. PICK e \in job[w].todo :
            \E L \in Sources(w, e.r) :
              job'[w] = [at |-> "write", todo |-> job[w].todo \ {e}, e |-> e,
                         logs |-> L, behind |-> FALSE]
      BY <2>2 DEF Opened
    <3>1. PICK L \in Sources(w, e.r) :
            job'[w] = [at |-> "write", todo |-> job[w].todo \ {e}, e |-> e,
                       logs |-> L, behind |-> FALSE]
      BY <3>0
    <3>2. job'[w].e = e /\ job'[w].logs = L
      BY <3>1
    <3>3. Logs(e.r) \subseteq L
      BY DEF Sources
    <3>4. c = <<c[1], c[2]>> /\ c[2] \in Segs /\ file[Log(c)] = "whole"
      BY <1>2, <2>2 DEF Clips, Calm
    <3>5. c[2] \in Logs(e.r)
      BY <1>2, <3>2, <3>4 DEF Logs
    <3> QED BY <3>2, <3>3, <3>5
  <2>3. CASE Dropped(w) \/ Wrote(w) \/ Lists(w)
    BY <1>0, <1>2, <2>3, NotAtWrite
  <2> QED BY <1>0, <2>1, <2>2, <2>3, JobMoves DEF Typed
<1>3. ASSUME job'[w].at = "stamp", row'[job'[w].e.r] = job'[w].e.id,
             NEW c \in Clips, c[1] = job'[w].e.r, file'[Log(c)] = "whole", c \notin late'
      PROVE  events'[c] # "none"
  <2>1. CASE Same(w)
    <3>1. job[w].at = "stamp" /\ job'[w].e = job[w].e
      BY <1>3, <2>1 DEF Same
    <3>2. job[w].e \in Entries(w)
      BY <1>0, <3>1, JobRows DEF Entries
    <3>3. Alive(job[w].e) /\ ~Gone(job[w].e.r) /\ job[w].e.r \in Routes
      BY <1>0, <1>3, <3>1, <3>2, StaysWhole
    <3>4. c \in Due(job[w].e.r)
      BY <1>3, <3>1, <3>3, DueMoves
    <3>5. events[c] # "none"
      BY <3>1, <3>3, <3>4 DEF EventInv
    <3> QED BY <1>3, <3>1, <3>3, <3>5, EventMoves
  <2>2. CASE Calm /\ Wrote(w)
    <3>1. job[w].at = "write" /\ job'[w].e = job[w].e /\ events' = Inserted(job[w].e, job[w].logs)
      BY <2>2 DEF Wrote
    <3>2. job[w].e.r \in Routes
      BY <1>0, <3>1, JobRows, FoundRows
    <3>3. c \in Due(job[w].e.r)
      BY <1>3, <3>1, <3>2, DueMoves
    <3>4. c[2] \in job[w].logs
      BY <3>1, <3>3 DEF EventInv
    <3> QED BY <1>3, <3>1, <3>4, InsertedFacts
  <2>3. CASE Dropped(w) \/ Lists(w) \/ Opened(w)
    <3>1. job'[w].at # "stamp"
      <4>1. CASE job'[w] = Rest
        BY <4>1, JobRows
      <4>2. ASSUME NEW T, job'[w] = [at |-> "read", todo |-> T] PROVE job'[w].at # "stamp"
        BY <4>2
      <4>3. CASE Opened(w)
        BY <4>3 DEF Opened
      <4> QED BY <2>3, <4>1, <4>2, <4>3 DEF Dropped, Lists
    <3> QED BY <1>3, <3>1
  <2> QED BY <1>0, <2>1, <2>2, <2>3, JobMoves DEF Typed
<1> QED BY <1>1, <1>2, <1>3 DEF EventInv, EventsComplete, Due, Alive

----------------------------------------------------------------------------
(* The theorems                                                            *)

DerivedInv == Typed /\ IdsInv /\ MetaInv /\ TripInv /\ TurnInv /\ EventInv

LEMMA DerivedInvInit == Init => DerivedInv
<1> SUFFICES ASSUME NEW sc \in Scenarios, StoreInit(sc), DerivedInit(sc), Init
             PROVE  DerivedInv
  BY DEF Init
<1>1. Typed
  BY StoreTypedInit, DerivedTypedInit DEF Typed
<1>2. \A w \in DerivedWorkers : job[w] = Rest /\ job[w].at = "rest"
  BY JobRows DEF DerivedInit
<1>3. {"metadata", "trips", "events", "turns", "backfill"} \subseteq DerivedWorkers
  BY DEF DerivedWorkers
<1>4. \A w \in DerivedWorkers : Entries(w) = {}
  BY <1>2 DEF Entries
<1>5. \A r \in Routes : row[r] <= lastRow
  BY UpkeepConstants DEF StoreInit
<1>6. IdsInv
  BY <1>4, <1>5 DEF IdsInv
<1>7. MetaInv
  BY <1>3, <1>4 DEF MetaInv, DerivedInit
<1>8. \A r \in Routes : trip[r] = NoTrip /\ turns[r] = {}
  BY DEF DerivedInit
<1>9. TripInv
  BY <1>2, <1>3, <1>4, <1>8 DEF TripInv
<1>10. TurnInv
  BY <1>2, <1>3, <1>8 DEF TurnInv, TurnWorkers
<1>11. EventInv
  BY <1>2, <1>3, <1>8 DEF EventInv, EventsComplete, Clips
<1> QED BY <1>1, <1>6, <1>7, <1>9, <1>10, <1>11 DEF DerivedInv

LEMMA DerivedInvNext ==
  ASSUME DerivedInv, [Next]_vars
  PROVE  DerivedInv'
<1>1. Typed'
  BY StoreTypedNext, JobsTypedNext, DataTypedNext DEF DerivedInv, Typed
<1> QED BY <1>1, IdsInvNext, MetaInvNext, TripInvNext, TurnInvNext, EventInvNext DEF DerivedInv

LEMMA DerivedInvAlways == Spec => []DerivedInv
<1>1. Init => DerivedInv
  BY DerivedInvInit
<1>2. DerivedInv /\ [Next]_vars => DerivedInv'
  BY DerivedInvNext
<1> QED BY <1>1, <1>2, PTL DEF Spec

\* A trip that the aggregator will not compute again has the distance of
\* the route's track, and a duration exactly when the route has times
\* (trip_aggregator.go, with the metadata written in between).
THEOREM UpkeepTripCurrent == Spec => []TripCurrent
<1>1. DerivedInv => TripCurrent
  BY TripFacts DEF DerivedInv, Typed, DataTyped, TripInv, TripCurrent, NeedsTrip
<1> QED BY <1>1, DerivedInvAlways, PTL

\* A route stamped by the event detector has the events of every log that
\* was there when the detector read (event_detector.go).
THEOREM UpkeepEventsComplete == Spec => []EventsComplete
<1>1. DerivedInv => EventsComplete
  BY DEF DerivedInv, EventInv
<1> QED BY <1>1, DerivedInvAlways, PTL

\* The turns stored under the name of a live route are those of its track
\* (turn_detector.go), unless a route of that name was deleted.
THEOREM UpkeepTurnsCurrent == Spec => []TurnsCurrent
<1>1. DerivedInv => TurnsCurrent
  BY DEF DerivedInv, TurnInv, TurnsOf, TurnsCurrent
<1> QED BY <1>1, DerivedInvAlways, PTL

----------------------------------------------------------------------------
(* The rest of the types                                                   *)

Columns ==
  /\ ended \subseteq Routes /\ expired \subseteq ended
  /\ recent \subseteq Routes /\ late \subseteq Clips /\ reused \subseteq Routes

LEMMA EndedMoves ==
  ASSUME Typed, Columns, [Next]_vars
  PROVE  ended' \subseteq Routes /\ expired' \subseteq ended'
<1>1. CASE StoreStep
  <2>1. CASE UNCHANGED <<ended, expired>>
    BY <2>1 DEF Columns
  <2>2. CASE DeleteRow
    BY <2>2 DEF DeleteRow, DropRow, Columns
  <2>3. ASSUME NEW r \in Routes, Expire(r) PROVE ended' \subseteq Routes /\ expired' \subseteq ended'
    BY <2>3 DEF Expire, Columns
  <2>4. ASSUME NEW u \in Handlers, Upload(u) PROVE UNCHANGED <<ended, expired>>
    BY <2>4 DEF Upload, UploadStart, Copied, CopyFails, GetOrCreateRoute, CreateSegment, SetFlag,
                TrackFails, rowVars
  <2>5. ASSUME NEW r \in Routes, SetPreserved(r) PROVE UNCHANGED <<ended, expired>>
    BY <2>5 DEF SetPreserved
  <2>6. CASE ListStale \/ RemoveFiles \/ CleanFails
    BY <2>1, <2>6 DEF ListStale, RemoveFiles, CleanFails, rowVars
  <2> QED BY <1>1, <2>1, <2>2, <2>3, <2>4, <2>5, <2>6 DEF StoreStep
<1>2. CASE UNCHANGED <<ended, expired>>
  BY <1>2 DEF Columns
<1>3. CASE MediaStep \/ ThumbStep
  BY <1>2, <1>3 DEF MediaStep, ScannerStep, TranscodeStep, FfmpegFailsStep, ThumbStep, ThumbScanStep,
     GenerateStep, CoolStep, ShotFailsStep, storeVars, rowVars, ButUpsets
<1>4. CASE Restart \/ UNCHANGED vars
  BY <1>2, <1>4 DEF Restart, StoreRestart, vars, storeVars, rowVars
<1>5. CASE DerivedStep
  <2>1. UNCHANGED storeVars \/ UNCHANGED ButUpsets \/ (WriteMetadata /\ UNCHANGED ButEnded)
    BY <1>5 DEF DerivedStep, DeriveStep, SettleStep
  <2>2. CASE WriteMetadata /\ UNCHANGED ButEnded
    <3>1. "metadata" \in DerivedWorkers
      BY DEF DerivedWorkers
    <3>2. job["metadata"].e.r \in Routes
      BY <2>2, <3>1, JobRows, FoundRows DEF WriteMetadata, Typed, JobsTyped
    <3> QED BY <2>2, <3>2 DEF WriteMetadata, ButEnded, Columns
  <2> QED BY <1>2, <2>1, <2>2 DEF storeVars, rowVars, ButUpsets
<1> QED BY <1>1, <1>3, <1>4, <1>5 DEF Next

LEMMA ColumnsNext ==
  ASSUME Typed, Columns, [Next]_vars
  PROVE  Columns'
<1>1. CASE UNCHANGED <<recent, late, reused>>
  BY <1>1, EndedMoves DEF Columns
<1>2. CASE DerivedWatch
  <2>1. segs' \subseteq Clips
    BY StoreTypedNext DEF Typed, StoreTyped
  <2>2. recent' \subseteq Routes
    BY <1>2, <2>1 DEF DerivedWatch, Columns, Clips
  <2>3. late' \subseteq Clips
    BY <1>2 DEF DerivedWatch, Columns
  <2>4. reused' \subseteq Routes
    BY <1>2 DEF DerivedWatch, Columns
  <2> QED BY <2>2, <2>3, <2>4, EndedMoves DEF Columns
<1>3. ASSUME NEW r \in Routes, Settle(r) PROVE Columns'
  BY <1>3, EndedMoves DEF Settle, Columns
<1>4. ASSUME NEW w \in DerivedWorkers, Derive(w) \/ PassFails(w)
      PROVE  UNCHANGED <<recent, late, reused>>
  BY <1>4 DEF Derive, List, Read, WriteTrip, WriteEvents, MarkEvents, WriteTurns, PassFails
<1>5. CASE WriteMetadata \/ WriteEventsFails \/ DerivedRestart \/ UNCHANGED derivedVars
  BY <1>1, <1>5 DEF WriteMetadata, WriteEventsFails, DerivedRestart, derivedVars
<1> QED BY <1>1, <1>2, <1>3, <1>4, <1>5, DerivedSteps DEF Typed

LEMMA ColumnsAlways == Spec => []Columns
<1>1. Init => Columns
  <2> SUFFICES ASSUME NEW sc \in Scenarios, StoreInit(sc), DerivedInit(sc) PROVE Columns
    BY DEF Init
  <2> QED BY UpkeepConstants DEF StoreInit, DerivedInit, Columns
<1>2. DerivedInv /\ Columns /\ [Next]_vars => Columns'
  BY ColumnsNext DEF DerivedInv
<1> QED BY <1>1, <1>2, DerivedInvAlways, PTL DEF Spec

(* Every variable of the upkeep has its type; a route out of its retention *)
(* has an end, and no queue is longer than its channel.                    *)
THEOREM UpkeepType == Spec => []TypeOK
<1>1. DerivedInv /\ Columns => StoreTypeOK /\ DerivedTypeOK
  BY DEF DerivedInv, Typed, StoreTyped, JobsTyped, DataTyped, Columns, StoreTypeOK, DerivedTypeOK
<1>2. StoreTypeOK /\ DerivedTypeOK /\ MediaTypeOK /\ ThumbTypeOK => TypeOK
  BY DEF TypeOK
<1> QED BY <1>1, <1>2, DerivedInvAlways, ColumnsAlways, MediaTypesAlways, PTL
=============================================================================
