--------------------------- MODULE PlateRetention ---------------------------
(***************************************************************************)
(* The retention of plate data, internal/worker/alpr_cleanup.go, beside    *)
(* the pipeline of PlateAlerts.  A pass reads the flagged plates once and  *)
(* then runs its deletes one by one, each in a statement of its own, the   *)
(* later ones also when an earlier one failed.  Its ages are times of the  *)
(* drives: what is older than a cutoff was read by the backfill, perhaps   *)
(* while the pass runs.                                                    *)
(***************************************************************************)
EXTENDS PlateAlerts

CONSTANTS
  Cutoff,    \* frame_ts from which every detection is kept, 0 to delete none
  Ceiling    \* frame_ts from which those of a flagged plate are, likewise

ASSUME RetentionAssumption == Cutoff \in Nat /\ Ceiling \in Nat

VARIABLES
  sweep,     \* the pass: its next statement and the flagged plates it has read
  swept      \* history: thinned routes whose orphans were deleted, since when
             \* their detections have not changed

retention == <<sweep, swept>>

SweepIdle == [pc |-> "idle", flagged |-> {}]

RetentionInit == AlertsInit /\ sweep = SweepIdle /\ swept = {}

-----------------------------------------------------------------------------
(* RunOnce. *)

(* ListFlaggedPlateHashes. *)
Flagged == {p \in Plates : wl[p].kind = "alerted" /\ (~wl[p].acked \/ wl[p].sev >= 4)}

(* The ticker fires; without the list nothing is deleted. *)
ListFlagged ==
  /\ Ask(<<"prune", NoPlate, NoPlate>>) /\ sweep.pc = "idle"
  /\ \/ Fine /\ sweep' = [pc |-> "unflagged", flagged |-> Flagged]
     \/ Upset /\ UNCHANGED sweep
  /\ UNCHANGED <<pipe, wl, heuristic, unlist, mrows, notify, ghosts>>

Older(t) == {d \in Dets : plate[d] \in Plates /\ TimeOf[d] < t}

(* One delete of detections.  No event follows it. *)
Delete(D, next) ==
  /\ sweep' = [sweep EXCEPT !.pc = next]
  /\ \/ /\ Fine
        /\ plate' = [d \in Dets |-> IF d \in D THEN Pruned ELSE plate[d]]
        /\ stale' = stale \cup {RouteOf[d] : d \in D}
     \/ Upset /\ UNCHANGED <<plate, stale>>
  /\ UNCHANGED <<announced, turned, aggregate, completions, updates, corr, missed,
                 wl, heuristic, operator, notify, ghosts>>

(* deleteUnflaggedDetections and deleteFlaggedDetections. *)
DeleteUnflagged ==
  sweep.pc = "unflagged" /\ Delete({d \in Older(Cutoff) : plate[d] \notin sweep.flagged}, "ceiling")

DeleteFlagged == sweep.pc = "ceiling" /\ Delete(Older(Ceiling), "orphans")

ShownMutant(e) ==                        \* whatever the plate of the detection
  \E d \in DetsOn(e.route) :
    plate[d] \in Plates /\ e.first <= TimeOf[d] /\ TimeOf[d] <= e.last

(* A detection of the encounter is left. *)
Shown(e) ==
  \E d \in DetsOn(e.route) :
    plate[d] = e.plate /\ e.first <= TimeOf[d] /\ TimeOf[d] <= e.last

Thinned(r) == \E d \in DetsOn(r) : plate[d] = Pruned

(* DeleteOrphanedEncounters. *)
DeleteOrphans ==
  /\ sweep.pc = "orphans" /\ sweep' = SweepIdle
  /\ \/ /\ Fine /\ enc' = [r \in Routes |-> {e \in enc[r] : Shown(e)}]
        /\ swept' = {r \in Routes : Thinned(r) /\ ~Busy(r)}
     \/ Upset /\ UNCHANGED <<enc, swept>>
  /\ UNCHANGED <<rows, held, agg, completions, updates, corr, stale, missed,
                 wl, heuristic, operator, notify, ghosts>>

-----------------------------------------------------------------------------
(* The whole. *)

UnchangedOn(r) == \A d \in DetsOn(r) : plate'[d] = plate[d]

SweepDetections == ListFlagged \/ DeleteUnflagged \/ DeleteFlagged

RetentionNext ==
  \/ /\ \/ AlertsNext /\ UNCHANGED sweep
        \/ Restart /\ sweep' = SweepIdle
        \/ SweepDetections
     /\ swept' = {r \in swept : UnchangedOn(r)}
  \/ DeleteOrphans

RetentionSpec == RetentionInit /\ [][RetentionNext]_<<vars, retention>>

-----------------------------------------------------------------------------
(* Properties. *)

(* The pass and the columns it works on. *)
RetentionTypeOK ==
  /\ AlertsTypeOK /\ swept \subseteq Routes
  /\ sweep \in [pc : {"idle", "unflagged", "ceiling", "orphans"},
                flagged : SUBSET Plates]

Evidence(e) == {d \in DOMAIN Seen(e.route) : Seen(e.route)[d] = e.plate}

(* Once nothing is on its way to a route, its encounters are those of its  *)
(* detections; and a pass of the retention leaves no encounter without a   *)
(* detection to show for it, nor does a pass of the aggregator that read   *)
(* the route afterwards.  What a pass that had read it before writes back  *)
(* is left for the next night.                                             *)
EncountersTrue ==
  /\ EncountersFresh
  /\ \A r \in swept : \A e \in enc[r] : TimesOf(Evidence(e)) \cap (e.first .. e.last) # {}

-----------------------------------------------------------------------------
(* The strengthenings. *)

(* Encounters are kept under their route, in the table and on the way.     *)
Placed(E, r) ==
  /\ IsFiniteSet(E)
  /\ \A e \in E : /\ e.route = r /\ e.first \in Nat /\ e.last \in Nat /\ e.turns \in Nat

InPlace ==
  /\ turned \subseteq Routes /\ \A r \in Routes : Placed(enc[r], r)
  /\ \A w \in AggSlots : /\ Placed(agg[w].encs, agg[w].route)
                         /\ DOMAIN agg[w].seen \subseteq Dets

(* No event will name the route, and none that should have is missing.     *)
Kept(r) == ~Pending(r) /\ r \notin stale \cup missed

(* With one slot: nothing on its way will change what the table says of    *)
(* the route, and what a pass has read or computed of it is still right.   *)
Clean(r) == r \in announced /\ Kept(r)

Right(r) ==
  Clean(r) =>
    /\ Busy(r) \/ enc[r] = EncountersOf(r, Seen(r), turned)
    /\ \A w \in AggSlots : agg[w].route = r =>
         /\ agg[w].pc = "count" => agg[w].seen = Seen(r)
         /\ agg[w].pc = "persist" => agg[w].encs = EncountersOf(r, Seen(r), turned)

FreshInv == \A r \in Routes : Right(r)

(* After the orphans went: the encounters of the route in the table, and   *)
(* of any pass since, have a detection to show.                            *)
Backed(e) == TimesOf(Evidence(e)) \cap (e.first .. e.last) # {}

Evident(r) ==
  /\ \A e \in enc[r] : Backed(e)
  /\ \A w \in AggSlots : agg[w].route = r =>
       /\ agg[w].pc = "count" => agg[w].seen = Seen(r)
       /\ agg[w].pc = "persist" => \A e \in agg[w].encs : Backed(e)

SweptInv == \A r \in swept : Evident(r)

(* Of a route that is not announced yet, detections are still stored; but  *)
(* what is kept or computed of it has a detection to show.                 *)
Attested(r) ==
  Kept(r) =>
    /\ Busy(r) \/ \A e \in enc[r] : Shown(e)
    /\ \A w \in AggSlots : agg[w].route = r =>
         /\ agg[w].pc = "count" =>
              \A d \in DOMAIN agg[w].seen : d \in DOMAIN Seen(r) /\ Seen(r)[d] = agg[w].seen[d]
         /\ agg[w].pc = "persist" => \A e \in agg[w].encs : Shown(e)

AttestedInv == \A r \in Routes : Attested(r)

(* The encounters of a plate that stay as they are until an event names    *)
(* the plate: those on the routes that no pass will touch.                 *)
Calm(r) == Kept(r) /\ ~Busy(r)

Standing(p) == {e \in EncountersWith(p) : Calm(e.route)}

Coming(p) ==
  \/ p \in todo \/ \E i \in DOMAIN updates : p \in updates[i]
  \/ \E w \in AggSlots : p \in Emitting(w)

(* A plate of severity s is not missed.                                    *)
Covered(p, s) ==
  \/ wl[p].kind = "whitelist" \/ wl[p].sev >= s
  \/ \E e \in Evaluators : /\ eval[e].plate = p /\ eval[e].pc \in {"read", "write"}
                           /\ eval[e].sev >= s

CoverInv ==
  \A p \in Plates \ owed : Coming(p) \/ Covered(p, ScoreOf(Standing(p), FALSE))
=============================================================================
