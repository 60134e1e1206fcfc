---------------------------- MODULE RouteDerived ----------------------------
(***************************************************************************)
(* What is derived from the logs: the route's times and track (metadata    *)
(* worker), the trip (trip aggregator), the events (event detector) and    *)
(* the turns (turn detector).  Each worker polls on its own: it lists the  *)
(* routes that lack its result, reads what it needs and writes, with no    *)
(* transaction over the three.                                             *)
(*                                                                         *)
(* A value is the set of segments whose logs it was computed from, and {}  *)
(* is NULL.  A log gives times; the logs of Gps give a track as well, the  *)
(* ones of Turny turns.  The logs of a route are read as one stream: one   *)
(* that is cut may fail the whole of it.                                   *)
(***************************************************************************)
EXTENDS RouteStore

CONSTANTS
  Gps, Turny,   \* the clips whose log has a GPS fix, and those with a turn
  BatchLimit    \* routes a worker takes in one pass

ASSUME DerivedConstants == Turny \subseteq Gps /\ Gps \subseteq Clips /\ BatchLimit \in Nat \ {0}

VARIABLES
  times,        \* start_time and end_time of routes
  track,        \* geometry and geometry_times of routes
  recent,       \* routes with a segment row younger than FinalizedAfter
  trip,         \* the trip rows
  events,       \* [Clips -> {"none", "undated", "dated"}], the events of a log
  turns,        \* route_turns, by the name of the route
  job,          \* the workers
  late,         \* history: logs that came when their events were being computed, or after
  reused        \* history: routes deleted while turns were stored under their name

derivedVars == <<times, track, recent, trip, events, turns, job, late, reused>>

NoTrip == [at |-> 0]
TripRows == {NoTrip} \cup [at : {1}, dur : SUBSET Segs, dist : SUBSET Segs,
                           behind : BOOLEAN, stamped : BOOLEAN]

(* A worker's pass: the routes it listed, with the id and the times they   *)
(* had then, and what it has read of the first one.                        *)
DerivedWorkers == {"metadata", "trips", "events", "turns", "backfill"}
Rest     == [at |-> "rest"]
Found    == [r : Routes, id : 1..MaxRows, times : SUBSET Segs]
JobStates ==
  {Rest} \cup [at : {"read"}, todo : SUBSET Found]
         \cup [at : {"write"}, todo : SUBSET Found, e : Found, logs : SUBSET Segs, behind : BOOLEAN]
         \cup [at : {"stamp"}, todo : SUBSET Found, e : Found]

DerivedTypeOK ==
  /\ times \in [Routes -> SUBSET Segs] /\ track \in [Routes -> SUBSET Segs]
  /\ recent \subseteq Routes /\ trip \in [Routes -> TripRows]
  /\ events \in [Clips -> {"none", "undated", "dated"}]
  /\ turns \in [Routes -> SUBSET Segs]
  /\ job \in [DerivedWorkers -> JobStates]
  /\ late \subseteq Clips /\ reused \subseteq Routes

Log(c)     == <<c[1], c[2], "qlog">>
Logs(r)    == {s \in Segs : file[Log(<<r, s>>)] = "whole"}
CutLogs(r) == {s \in Segs : file[Log(<<r, s>>)] = "cut"}

----------------------------------------------------------------------------
(* What the four list queries ask for                                      *)

Settled(r) == row[r] # 0 /\ r \notin recent /\ \E s \in Segs : <<r, s>> \in segs

(* Mutants: every settled route is read again; one with times but without  *)
(* a track is not.                                                         *)
NeedsMetadataMutant(r) == Settled(r)
NeedsMetadataMutant2(r) == Settled(r) /\ times[r] = {}

NeedsMetadata(r) == Settled(r) /\ (times[r] = {} \/ track[r] = {})

(* Mutant: without the line for times that came after the trip.            *)
NeedsTripMutant(r) ==
  /\ Settled(r)
  /\ \/ trip[r] = NoTrip
     \/ trip[r].behind
     \/ trip[r].dist = {} /\ track[r] # {}

(* The last two lines let a trip written before the metadata come again.   *)
NeedsTrip(r) ==
  /\ Settled(r)
  /\ \/ trip[r] = NoTrip
     \/ trip[r].behind
     \/ trip[r].dist = {} /\ track[r] # {}
     \/ trip[r].dur = {} /\ times[r] # {}

NeedsEvents(r) == row[r] # 0 /\ trip[r] # NoTrip /\ ~trip[r].stamped

NeedsTurns(r) == Settled(r) /\ times[r] # {} /\ track[r] # {} /\ turns[r] = {}

HasTrack(r) == row[r] # 0 /\ times[r] # {} /\ track[r] # {} /\ turns[r] = {}

Needs(w, r) ==
  CASE w = "metadata" -> NeedsMetadata(r)
    [] w = "trips"    -> NeedsTrip(r)
    [] w = "events"   -> NeedsEvents(r)
    [] w = "turns"    -> NeedsTurns(r)
    [] w = "backfill" -> HasTrack(r)

(* The orders: created_at and id, for the backfill the newest first, for   *)
(* the events start_time with NULLS LAST; which of two start times is the  *)
(* earlier is left open.                                                   *)
Before(w, d, e) ==
  CASE w = "events"   -> e.times = {} /\ (d.times # {} \/ d.id < e.id)
    [] w = "backfill" -> d.id > e.id
    [] OTHER          -> d.id < e.id

Candidates(w) == {[r |-> r, id |-> row[r], times |-> times[r]] : r \in {q \in Routes : Needs(w, q)}}

(* ORDER BY, LIMIT: the first BatchLimit of them.                          *)
Batches(w) ==
  LET S == Candidates(w)
      n == Cardinality(S) IN
  {B \in SUBSET S : /\ Cardinality(B) = (IF n < BatchLimit THEN n ELSE BatchLimit)
                    /\ \A e \in B, d \in S : Before(w, d, e) => d \in B}

(* A worker polls for ever.  The backfill does so here as well, although   *)
(* the code lets it go round once in the life of a process.                *)
List(w) ==
  /\ job[w] = Rest
  /\ \E B \in Batches(w) : B # {} /\ job' = [job EXCEPT ![w] = [at |-> "read", todo |-> B]]
  /\ UNCHANGED <<times, track, recent, trip, events, turns, late, reused>>

Firsts(w, todo) == {e \in todo : \A d \in todo : ~Before(w, d, e)}

Go(w, todo) == job' = [job EXCEPT ![w] = IF todo = {} THEN Rest ELSE [at |-> "read", todo |-> todo]]

----------------------------------------------------------------------------
(* The reads: the logs on disk for the metadata and the events, the track  *)
(* of the route for the trip and the turns.  What is there of a cut log    *)
(* may still parse, when it is raw and ends between two messages; it       *)
(* counts like the whole log then, or for nothing.                         *)

Sources(w, r) ==
  IF w \in {"metadata", "events"} THEN {Logs(r) \cup C : C \in SUBSET CutLogs(r)}
  ELSE {IF row[r] = 0 THEN {} ELSE track[r]}

(* The parser stops at the end of a cut log with an error, and a directory *)
(* that is gone cannot be listed; one that is only empty can.              *)
Unreadable(r) == CutLogs(r) # {} \/ \A f \in Files : RouteOf(f) = r => file[f] = "none"

Read(w) ==
  /\ job[w].at = "read"
  /\ \E e \in Firsts(w, job[w].todo) :
       LET rest == job[w].todo \ {e} IN
       \/ \E L \in Sources(w, e.r) :
            job' = [job EXCEPT ![w] = [at |-> "write", todo |-> rest, e |-> e,
                                       logs |-> L, behind |-> FALSE]]
       \/ w \in {"metadata", "events"} /\ Unreadable(e.r) /\ Go(w, rest)
  /\ UNCHANGED <<times, track, recent, trip, events, turns, late, reused>>

Alive(e) == row[e.r] = e.id

(* UpdateRouteMetadata: NULL inputs leave the column, and an id that is    *)
(* gone matches no row.                                                    *)
WriteMetadata ==
  /\ job["metadata"].at = "write"
  /\ LET e == job["metadata"].e
         got == job["metadata"].logs
         gps == {s \in got : <<e.r, s>> \in Gps} IN
     IF Alive(e) /\ got # {}
     THEN /\ times' = [times EXCEPT ![e.r] = got]
          /\ track' = [track EXCEPT ![e.r] = IF gps = {} THEN @ ELSE gps]
          /\ ended' = ended \cup {e.r}
     ELSE UNCHANGED <<times, track, ended>>
  /\ Go("metadata", job["metadata"].todo)
  /\ UNCHANGED <<recent, trip, events, turns, late, reused>>

(* UpsertTrip: the duration from the times listed, the distance from the   *)
(* track read, the stamp of the events kept.  The foreign key refuses the  *)
(* trip of a deleted route.                                                *)
WriteTrip ==
  /\ job["trips"].at = "write"
  /\ LET e == job["trips"].e IN
     trip' = IF ~Alive(e) THEN trip
             ELSE [trip EXCEPT ![e.r] =
                [at |-> 1, dur |-> e.times, dist |-> job["trips"].logs,
                 behind |-> job["trips"].behind,
                 stamped |-> IF trip[e.r] = NoTrip THEN FALSE ELSE trip[e.r].stamped]]
  /\ Go("trips", job["trips"].todo)
  /\ UNCHANGED <<times, track, recent, events, turns, late, reused>>

(* The events of the logs, dated by the start time listed.  An event that  *)
(* is there already stays as it is.                                        *)
Inserted(e, logs) ==
  [c \in Clips |->
     IF c[1] = e.r /\ c[2] \in logs /\ events[c] = "none"
     THEN IF e.times = {} THEN "undated" ELSE "dated"
     ELSE events[c]]

WriteEvents ==
  /\ job["events"].at = "write"
  /\ LET e == job["events"].e IN
     IF Alive(e)
     THEN /\ events' = Inserted(e, job["events"].logs)
          /\ job' = [job EXCEPT !["events"] = [at |-> "stamp", todo |-> @.todo, e |-> e]]
     ELSE Go("events", job["events"].todo) /\ UNCHANGED events
  /\ UNCHANGED <<times, track, recent, trip, turns, late, reused>>

(* Mutant: the error is logged and the route stamped.                      *)
WriteEventsFailsMutant ==
  /\ job["events"].at = "write" /\ Alive(job["events"].e) /\ Upset
  /\ \E L \in SUBSET job["events"].logs : events' = Inserted(job["events"].e, L)
  /\ job' = [job EXCEPT !["events"] = [at |-> "stamp", todo |-> @.todo, e |-> @.e]]
  /\ UNCHANGED <<times, track, recent, trip, turns, late, reused>>

(* An insert fails: those before it stay, the route is not stamped.        *)
WriteEventsFails ==
  /\ job["events"].at = "write" /\ Alive(job["events"].e) /\ Upset
  /\ \E L \in SUBSET job["events"].logs : events' = Inserted(job["events"].e, L)
  /\ Go("events", job["events"].todo)
  /\ UNCHANGED <<times, track, recent, trip, turns, late, reused>>

MarkEvents ==
  /\ job["events"].at = "stamp"
  /\ LET e == job["events"].e IN
     trip' = IF Alive(e) /\ trip[e.r] # NoTrip THEN [trip EXCEPT ![e.r] = [@ EXCEPT !.stamped = TRUE]]
             ELSE trip
  /\ Go("events", job["events"].todo)
  /\ UNCHANGED <<times, track, recent, events, turns, late, reused>>

(* persistTurns, by the name of the route and in one transaction.          *)
WriteTurns(w) ==
  /\ w \in {"turns", "backfill"} /\ job[w].at = "write"
  /\ LET e == job[w].e IN
     turns' = IF job[w].logs = {} THEN turns
              ELSE [turns EXCEPT ![e.r] = {s \in job[w].logs : <<e.r, s>> \in Turny}]
  /\ Go(w, job[w].todo)
  /\ UNCHANGED <<times, track, recent, trip, events, late, reused>>

(* Any other query fails: the route is skipped until the next pass.        *)
PassFails(w) ==
  /\ job[w].at # "rest" /\ Upset
  /\ \/ job[w].at = "read" /\ \E e \in Firsts(w, job[w].todo) : Go(w, job[w].todo \ {e})
     \/ job[w].at # "read" /\ Go(w, job[w].todo)
  /\ UNCHANGED <<times, track, recent, trip, events, turns, late, reused>>

(* Five minutes without a new segment.                                     *)
Settle(r) ==
  /\ r \in recent /\ recent' = recent \ {r}
  /\ UNCHANGED <<times, track, trip, events, turns, job, late, reused>>

Derive(w) ==
  \/ List(w) \/ Read(w)
  \/ w = "trips" /\ WriteTrip
  \/ w = "events" /\ (WriteEvents \/ MarkEvents)
  \/ WriteTurns(w)

----------------------------------------------------------------------------
(* What the store does to the derived data: a new segment makes the route  *)
(* recent and its trip old; a deleted row takes its columns, its trip and  *)
(* its events with it, and leaves its turns.                               *)
DerivedWatch ==
  LET new  == {c[1] : c \in segs' \ segs}
      gone == {r \in Routes : row[r] # 0 /\ row'[r] = 0}
      came == {c \in Clips : file[Log(c)] # "whole" /\ file'[Log(c)] = "whole"} IN
  /\ recent' = (recent \cup new) \ gone
  /\ times' = [r \in Routes |-> IF r \in gone THEN {} ELSE times[r]]
  /\ track' = [r \in Routes |-> IF r \in gone THEN {} ELSE track[r]]
  /\ trip' = [r \in Routes |->
                IF r \in gone THEN NoTrip
                ELSE IF r \in new /\ trip[r] # NoTrip THEN [trip[r] EXCEPT !.behind = TRUE]
                ELSE trip[r]]
  /\ events' = [c \in Clips |-> IF c[1] \in gone THEN "none" ELSE events[c]]
  /\ job' = [job EXCEPT !["trips"] =
                IF @.at = "write" /\ @.e.r \in new THEN [@ EXCEPT !.behind = TRUE] ELSE @]
  /\ late' = late \cup {c \in came : \/ job["events"].at \in {"write", "stamp"} /\ job["events"].e.r = c[1]
                                     \/ trip[c[1]] # NoTrip /\ trip[c[1]].stamped}
  /\ reused' = reused \cup {r \in gone : turns[r] # {}
                   \/ \E w \in {"turns", "backfill"} : job[w].at = "write" /\ job[w].e.r = r}
  /\ UNCHANGED turns

(* A restart loses the passes; the backfill of the turns starts again.     *)
DerivedRestart ==
  /\ job' = [w \in DerivedWorkers |-> Rest]
  /\ UNCHANGED <<times, track, recent, trip, events, turns, late, reused>>

----------------------------------------------------------------------------
(* A trip that no pass will come back to says what its route says: the     *)
(* distance is that of the track, and there is a duration exactly when     *)
(* there are times.  Times and track are read at different moments and     *)
(* written by another worker in between.                                   *)
TripCurrent ==
  \A r \in Routes :
    trip[r] # NoTrip /\ ~trip[r].behind /\ ~NeedsTrip(r) /\ Settled(r) =>
      trip[r].dist = track[r] /\ (trip[r].dur = {} <=> times[r] = {})

(* A stamped route is never looked at again, so its events are all there:  *)
(* those of every log but the ones that came too late to be read.          *)
EventsComplete ==
  \A c \in Clips :
    trip[c[1]] # NoTrip /\ trip[c[1]].stamped /\ file[Log(c)] = "whole" /\ c \notin late =>
      events[c] # "none"

(* Turns belong to the track of their route, unless they are those of a    *)
(* deleted route of the same name.                                         *)
TurnsCurrent ==
  \A r \in Routes :
    row[r] # 0 /\ r \notin reused /\ turns[r] # {} =>
      turns[r] = {s \in track[r] : <<r, s>> \in Turny}
=============================================================================
