--------------------------- MODULE PlateEncounters ---------------------------
(***************************************************************************)
(* From plate detections to encounters: the aggregator of                  *)
(* internal/worker/alpr_aggregator.go, which rebuilds a route's            *)
(* plate_encounters rows for every completion event, the turn rows it      *)
(* counts on the way, and the operator's EditDetection of                  *)
(* internal/api/alpr_corrections.go, which sends such events again.        *)
(* PlateAlerts adds the merge of two plates and what follows from the      *)
(* encounters.                                                             *)
(*                                                                         *)
(* No worker looks for routes to aggregate: a route whose event is dropped *)
(* or whose pass fails stays as it is until some later event names it.     *)
(* The history variable stale holds those routes.  A definition named      *)
(* XMutant is X with a plausible bug.                                      *)
(***************************************************************************)
EXTENDS Integers, Sequences, FiniteSets

CONSTANTS
  Plates,         \* plate hashes
  NoPlate,        \* the plate of a detection that is not stored yet
  Pruned,         \* the plate of a detection that was deleted (PlateRetention)
  Dets,           \* ids of plate_detections rows
  RouteOf,        \* Dets -> route
  TimeOf,         \* Dets -> frame_ts, in seconds
  FirstRead,      \* Dets -> the plate the engine read
  Stored,         \* detections that are in the table when the process starts
  Done,           \* routes aggregated before it starts
  TurnsOf,        \* route -> times of its turns
  Gap,            \* alpr_encounter_gap_seconds
  AggSlots,       \* the aggregator's semaphore (ALPR_AGGREGATOR_CONCURRENCY)
  CompletionCap,  \* capacity of alprDetectionsComplete
  UpdateCap,      \* capacity of alprEncountersUpdated and the bridge behind it
  Handlers,       \* goroutines serving the corrections API
  MaxUpsets       \* bound: calls that fail, contexts that end, the switch off

Routes == {RouteOf[d] : d \in Dets}
NoRoute == "none"

ASSUME EncountersAssumption ==
  /\ IsFiniteSet(Plates) /\ Dets \subseteq Nat /\ IsFiniteSet(Dets)
  /\ NoPlate \notin Plates /\ Pruned \notin Plates /\ Pruned # NoPlate
  /\ RouteOf \in [Dets -> STRING] /\ NoRoute \notin Routes
  /\ TimeOf \in [Dets -> Nat] /\ FirstRead \in [Dets -> Plates]
  /\ Stored \subseteq Dets /\ Done \subseteq Routes
  /\ \A d \in Dets : RouteOf[d] \in Done => d \in Stored
  /\ TurnsOf \in [Routes -> SUBSET Nat]
  /\ Gap \in Nat \ {0} /\ CompletionCap \in Nat \ {0} /\ UpdateCap \in Nat \ {0}
  /\ MaxUpsets \in Nat

VARIABLES
  plate,        \* plate_detections: id -> plate_hash, NoPlate before the insert
  announced,    \* routes whose completion the detector has announced
  turned,       \* routes whose route_turns rows are written
  enc,          \* plate_encounters, by route
  completions,  \* the channel of RouteAlprDetectionsComplete
  held,         \* the event Run has received and has no slot for
  agg,          \* the processRoute goroutines, by slot
  updates,      \* the channel of EncountersUpdated
  corr,         \* the corrections handlers
  upsets,       \* how often something may still go wrong
  stale,        \* history: routes that changed and that no event will reach
  missed        \* history: routes a merge changed without naming them

rows      == <<plate, announced, turned>>
aggregate == <<enc, held, agg>>
pipe      == <<rows, aggregate, completions, updates, corr, stale, missed>>
encVars   == <<pipe, upsets>>

DetsOn(r) == {d \in Dets : RouteOf[d] = r}

AggIdle  == [pc |-> "idle", route |-> NoRoute, seen |-> <<>>, encs |-> {}]
CorrIdle == [pc |-> "idle", det |-> 0, from |-> NoPlate, to |-> NoPlate, routes |-> {}]

Upset == upsets > 0 /\ upsets' = upsets - 1
Fine  == UNCHANGED upsets

-----------------------------------------------------------------------------
(* The grouping of a route's detections, computeEncounters.                *)

(* CountTurnsInWindow, over the rows that are there. *)
TurnCount(r, a, b, known) ==
  IF r \in known THEN Cardinality({t \in TurnsOf[r] : a <= t /\ t <= b}) ELSE 0

Before(d, e) == TimeOf[d] < TimeOf[e] \/ (TimeOf[d] = TimeOf[e] /\ d < e)

GapExceededMutant(e, d) == TimeOf[d] - e.last >= Gap

GapExceeded(e, d) == TimeOf[d] - e.last > Gap

(* encountersForPlateBucket: a detection extends the last encounter or     *)
(* starts a new one ...                                                    *)
Walk(es, d) ==
  IF es # <<>> /\ ~GapExceeded(es[Len(es)], d)
  THEN [es EXCEPT ![Len(es)] =
          [first |-> @.first, last |-> TimeOf[d], count |-> @.count + 1]]
  ELSE Append(es, [first |-> TimeOf[d], last |-> TimeOf[d], count |-> 1])

Latest(D) == CHOOSE d \in D : \A e \in D \ {d} : Before(e, d)

(* ... and one plate's detections are walked in order of time. *)
PlateWalk(D) ==
  LET walk[E \in SUBSET D] ==
        IF E = {} THEN <<>> ELSE Walk(walk[E \ {Latest(E)}], Latest(E))
  IN  walk[D]

(* seen: detection -> plate for the route's rows; known: the turned routes. *)
EncountersOf(r, seen, known) ==
  UNION {LET es == PlateWalk({d \in DOMAIN seen : seen[d] = p}) IN
         {[plate |-> p, route |-> r, first |-> es[i].first, last |-> es[i].last,
           count |-> es[i].count,
           turns |-> TurnCount(r, es[i].first, es[i].last, known)] : i \in DOMAIN es}
         : p \in Plates}

(* ListDetectionsForRoute. *)
Seen(r) == [d \in {x \in DetsOn(r) : plate[x] \in Plates} |-> plate[d]]

EncInit ==
  /\ plate = [d \in Dets |-> IF d \in Stored THEN FirstRead[d] ELSE NoPlate]
  /\ announced = Done /\ turned = {r \in Done : TurnsOf[r] # {}}
  /\ enc = [r \in Routes |-> IF r \in Done THEN EncountersOf(r, Seen(r), turned) ELSE {}]
  /\ completions = <<>> /\ held = NoRoute
  /\ agg = [w \in AggSlots |-> AggIdle]
  /\ updates = <<>> /\ corr = [h \in Handlers |-> CorrIdle]
  /\ upsets \in 0..MaxUpsets /\ stale = {} /\ missed = {}

-----------------------------------------------------------------------------
(* The events. *)

SendMutant(r) ==                  \* sent, or waited for: never recorded as lost
  /\ completions' = IF Len(completions) < CompletionCap
                    THEN Append(completions, r) ELSE completions
  /\ UNCHANGED stale

(* The non-blocking send of a completion event. *)
SendCompletion(r) ==
  IF Len(completions) < CompletionCap
  THEN completions' = Append(completions, r) /\ UNCHANGED stale
  ELSE stale' = stale \cup {r} /\ UNCHANGED completions

(* The detector stores a detection.  A frame still in flight when the      *)
(* route is announced is stored afterwards, and no second announcement     *)
(* follows.                                                                *)
StoreDetection(d) ==
  /\ plate[d] = NoPlate /\ plate' = [plate EXCEPT ![d] = FirstRead[d]]
  /\ stale' = IF RouteOf[d] \in announced THEN stale \cup {RouteOf[d]} ELSE stale
  /\ UNCHANGED <<announced, turned, aggregate, completions, updates, corr,
                 upsets, missed>>

(* The detector announces a route once (AlprPipeline). *)
Announce(r) ==
  /\ r \notin announced /\ announced' = announced \cup {r}
  /\ SendCompletion(r)
  /\ UNCHANGED <<plate, turned, aggregate, updates, corr, upsets, missed>>

(* The turn detector's transaction on the route; nothing is sent after it. *)
TurnsStored(r) ==
  /\ r \notin turned /\ TurnsOf[r] # {} /\ turned' = turned \cup {r}
  /\ stale' = stale \cup {r}
  /\ UNCHANGED <<plate, announced, aggregate, completions, updates, corr,
                 upsets, missed>>

-----------------------------------------------------------------------------
(* The aggregator. *)

(* Run receives an event while it holds none; with alpr_enabled off it     *)
(* drops it.                                                               *)
Receive ==
  /\ held = NoRoute /\ completions # <<>> /\ completions' = Tail(completions)
  /\ \/ Fine /\ held' = Head(completions) /\ UNCHANGED stale
     \/ Upset /\ UNCHANGED held /\ stale' = stale \cup {Head(completions)}
  /\ UNCHANGED <<rows, enc, agg, updates, corr, missed>>

Goto(w, pc) == agg' = [agg EXCEPT ![w].pc = pc]

(* A pass that fails is logged and forgotten. *)
GiveUp(w) ==
  /\ Upset /\ agg' = [agg EXCEPT ![w] = AggIdle]
  /\ stale' = stale \cup {agg[w].route}

(* A slot takes the held event and reads the route's detections. *)
ListDetections(w) ==
  /\ agg[w].pc = "idle" /\ held # NoRoute /\ held' = NoRoute
  /\ \/ /\ Fine /\ stale' = stale \ {held} /\ missed' = missed \ {held}
        /\ agg' = [agg EXCEPT ![w] = [pc |-> "count", route |-> held,
                                      seen |-> Seen(held), encs |-> {}]]
     \/ Upset /\ stale' = stale \cup {held} /\ UNCHANGED <<agg, missed>>
  /\ UNCHANGED <<rows, enc, completions, updates, corr>>

(* computeEncounters and the turn counts. *)
CountTurns(w) ==
  /\ agg[w].pc = "count"
  /\ \/ /\ Fine /\ UNCHANGED stale
        /\ agg' = [agg EXCEPT ![w] =
             [pc |-> "persist", route |-> agg[w].route, seen |-> agg[w].seen,
              encs |-> EncountersOf(agg[w].route, agg[w].seen, turned)]]
     \/ GiveUp(w)
  /\ UNCHANGED <<rows, enc, held, completions, updates, corr, missed>>

(* persist: one transaction deletes the route's rows and writes the new. *)
Persist(w) ==
  /\ agg[w].pc = "persist"
  /\ \/ Fine /\ UNCHANGED stale /\ Goto(w, "emit")
        /\ enc' = [enc EXCEPT ![agg[w].route] = agg[w].encs]
     \/ GiveUp(w) /\ UNCHANGED enc
  /\ UNCHANGED <<rows, held, completions, updates, corr, missed>>

PlatesIn(E) == {e.plate : e \in E}

(* emit: the plates of the NEW encounters, or nothing when the channel is  *)
(* full.                                                                   *)
EmitUpdate(w) ==
  /\ agg[w].pc = "emit"
  /\ agg' = [agg EXCEPT ![w] = AggIdle]
  /\ updates' = IF Len(updates) < UpdateCap
                THEN Append(updates, PlatesIn(agg[w].encs)) ELSE updates
  /\ UNCHANGED <<rows, enc, held, completions, corr, upsets, stale, missed>>

AggStep(w) == ListDetections(w) \/ CountTurns(w) \/ Persist(w) \/ EmitUpdate(w)

-----------------------------------------------------------------------------
(* EditDetection: the plate of one detection is corrected. *)

(* GetDetectionByID. *)
EditLoad(h, d, q) ==
  /\ corr[h].pc = "idle" /\ plate[d] \in Plates
  /\ corr' = [corr EXCEPT ![h] = [pc |-> "edit", det |-> d, from |-> plate[d],
                                  to |-> q, routes |-> {}]]
  /\ UNCHANGED <<rows, aggregate, completions, updates, upsets, stale, missed>>

(* The transaction on the detection and its audit row; the update of a row *)
(* that was deleted meanwhile is no error.                                 *)
EditTx(h) ==
  /\ corr[h].pc = "edit"
  /\ \/ /\ Fine
        /\ plate' = [plate EXCEPT ![corr[h].det] = IF @ = Pruned THEN @ ELSE corr[h].to]
        /\ corr' = [corr EXCEPT ![h].pc = "collect"]
     \/ Upset /\ UNCHANGED plate /\ corr' = [corr EXCEPT ![h] = CorrIdle]
  /\ UNCHANGED <<announced, turned, aggregate, completions, updates, stale, missed>>

(* DistinctRoutesForPlateHash and DistinctRoutesForEncountersPlateHash. *)
RoutesDetecting(p) == {RouteOf[d] : d \in {x \in Dets : plate[x] = p}}
RoutesMeeting(p)   == {r \in Routes : p \in PlatesIn(enc[r])}

(* Of the queries in qs, one may fail and then adds nothing. *)
Found(qs, found) ==
  \/ Fine /\ found = UNION {qs[i] : i \in DOMAIN qs}
  \/ Upset /\ \E i \in DOMAIN qs : found = UNION {qs[k] : k \in DOMAIN qs \ {i}}

(* The queries of collectAffectedRoutes. *)
Affected(d, p, q) ==
  IF p = q THEN <<RoutesDetecting(q)>>
  ELSE <<RoutesDetecting(q), RoutesDetecting(p), RoutesMeeting(p)>>

EditCollect(h) ==
  LET c == corr[h] IN
  /\ c.pc = "collect"
  /\ \E found \in SUBSET Routes :
       /\ Found(Affected(c.det, c.from, c.to), found)
       /\ corr' = [corr EXCEPT ![h] =
                     [c EXCEPT !.pc = "send", !.routes = {RouteOf[c.det]} \cup found]]
  /\ UNCHANGED <<rows, aggregate, completions, updates, stale, missed>>

(* enqueueAggregatorRetrigger, one route at a time; the request's context  *)
(* may end meanwhile.                                                      *)
Retrigger(h) ==
  /\ corr[h].pc = "send"
  /\ \E r \in corr[h].routes :
       /\ \/ Fine /\ SendCompletion(r)
          \/ Upset /\ stale' = stale \cup {r} /\ UNCHANGED completions
       /\ corr' = [corr EXCEPT ![h].routes = @ \ {r}]
  /\ UNCHANGED <<rows, aggregate, updates, missed>>

Respond(h) ==
  /\ corr[h].pc = "send" /\ corr[h].routes = {}
  /\ corr' = [corr EXCEPT ![h] = CorrIdle]
  /\ UNCHANGED <<rows, aggregate, completions, updates, upsets, stale, missed>>

CorrStep(h) == EditTx(h) \/ EditCollect(h) \/ Retrigger(h) \/ Respond(h)

Pipeline ==
  \/ \E d \in Dets : StoreDetection(d)
  \/ \E r \in Routes : Announce(r) \/ TurnsStored(r)
  \/ Receive \/ \E w \in AggSlots : AggStep(w)

-----------------------------------------------------------------------------
(* Properties. *)

(* An event or a step still to come will read the route's detections. *)
Pending(r) ==
  \/ r = held \/ \E i \in DOMAIN completions : completions[i] = r
  \/ \E h \in Handlers :
       \/ corr[h].pc = "collect" /\ r = RouteOf[corr[h].det]
       \/ corr[h].pc = "send" /\ r \in corr[h].routes

Busy(r) == \E w \in AggSlots : agg[w].route = r /\ agg[w].pc \in {"count", "persist"}

Settled(r) == r \in announced /\ ~Pending(r) /\ ~Busy(r) /\ r \notin stale

(* Once nothing is on its way to a route, its encounters are those of its  *)
(* detections, however corrections, merges, turn rows and passes           *)
(* interleave; with one aggregator slot.                                   *)
EncountersFresh ==
  \A r \in Routes : Settled(r) /\ r \notin missed => enc[r] = EncountersOf(r, Seen(r), turned)

(* The plates of an encounter, by definition: detections of one plate      *)
(* whose times are linked by steps of at most Gap, as many as possible.    *)
Linked(D, d, e) ==
  \A x \in D : TimeOf[d] <= TimeOf[x] /\ TimeOf[x] < TimeOf[e] =>
     \E y \in D : TimeOf[x] < TimeOf[y] /\ TimeOf[y] <= TimeOf[x] + Gap

Together(D, d) == {e \in D : Linked(D, d, e) /\ Linked(D, e, d)}

TimesOf(D) == {TimeOf[d] : d \in D}
First(D) == CHOOSE t \in TimesOf(D) : \A s \in TimesOf(D) : t <= s
Final(D) == CHOOSE t \in TimesOf(D) : \A s \in TimesOf(D) : s <= t

(* A pass that computes a route's encounters from what it has read finds   *)
(* exactly those classes, with their turns.                                *)
GroupsByGap ==
  [][\A w \in AggSlots : agg[w].pc = "count" /\ agg'[w].pc = "persist" =>
       \A p \in Plates :
         LET D == {d \in DOMAIN agg[w].seen : agg[w].seen[d] = p}
             turns == IF agg[w].route \in turned THEN TurnsOf[agg[w].route] ELSE {}
         IN  {<<e.first, e.last, e.count, e.turns>> :
                e \in {x \in agg'[w].encs : x.plate = p}}
             = {<<First(C), Final(C), Cardinality(C),
                  Cardinality({t \in turns : First(C) <= t /\ t <= Final(C)})>> :
                  C \in {Together(D, d) : d \in D}}]_encVars
=============================================================================
