----------------------------- MODULE PlateAlerts -----------------------------
(***************************************************************************)
(* From encounters to alerts: the heuristic worker and the re-evaluation   *)
(* API (internal/alpr/heuristic/worker.go, internal/api/alpr_reevaluate.go), *)
(* the operator's watchlist (internal/api/alpr_watchlist.go), the merge of *)
(* two plates (internal/api/alpr_corrections.go) and the dispatcher of     *)
(* notifications (internal/alpr/notify/dispatcher.go), on top of           *)
(* PlateEncounters.                                                        *)
(*                                                                         *)
(* An evaluation reads the encounters, then the watchlist row, and writes  *)
(* the row by a third statement; a merge reads both rows before its        *)
(* transaction.  Nothing holds a row between the read and the write.       *)
(*                                                                         *)
(* What the operator asks for, in any order, and how often something goes  *)
(* wrong is one of Plans.  PlateRetention adds the nightly deletes.        *)
(***************************************************************************)
EXTENDS PlateEncounters, PlateScore

CONSTANTS
  EvalSlots,    \* the heuristic's semaphore (ALPR_HEURISTIC_CONCURRENCY)
  Api,          \* the goroutine of a re-evaluation request, not in EvalSlots
  AlertCap,     \* capacity of alprAlertCreated
  MinSeverity,  \* the notification threshold
  Plans         \* what a behaviour is up to: <<operator requests, upsets>>,
                \* a request being <<operation, argument, argument>>

ASSUME AlertsAssumption ==
  /\ IsFiniteSet(EvalSlots) /\ EvalSlots # {} /\ Api \notin EvalSlots
  /\ AlertCap \in Nat \ {0} /\ MinSeverity \in 0..5

VARIABLES
  wl,        \* plate_watchlist, by plate
  todo,      \* the plates of the event the heuristic's loop is handing out
  eval,      \* EvaluatePlate, by slot
  queue,     \* the plates a re-evaluation request has still to evaluate
  requests,  \* what the operator will still ask for
  unlist,    \* the plate RemoveWhitelistEntry has read as whitelisted
  mrows,     \* the watchlist rows a merge has read, by handler
  alerts,    \* the channel of AlertCreated
  disp,      \* the notification subscriber
  ledger,    \* plates with a notifications_sent row inside the dedup window
  sent,      \* history: plates notified within the window, unless recording it failed
  twice,     \* history: plates notified twice within one window
  owed,      \* history: plates whose last evaluation was lost, skipped or undone
  lowered,   \* history: plates whose row lost severity, or got one a plate
             \* that did; the operator's own whitelisting excepted
  seen       \* history: the severity up to which the operator knew the alert

heuristic == <<todo, eval, queue>>
operator  == <<requests, unlist, mrows>>
notify    == <<alerts, disp, ledger, sent, twice>>
ghosts    == <<owed, lowered, seen>>
vars      == <<encVars, wl, heuristic, operator, notify, ghosts>>

Evaluators == EvalSlots \cup {Api}

NoRow    == [kind |-> "none", sev |-> 0, acked |-> FALSE]
EvalIdle == [pc |-> "idle", plate |-> NoPlate, sev |-> 0, row |-> NoRow, late |-> FALSE]
DispIdle == [pc |-> "idle", plate |-> NoPlate, blind |-> FALSE]

Higher(a, b) == IF a >= b THEN a ELSE b

EncountersWith(p) == {e \in UNION {enc[r] : r \in Routes} : e.plate = p}

(* The rows are those that evaluations of the encounters left. *)
AlertsInit ==
  /\ EncInit
  /\ wl = [p \in Plates |-> IF ScoreOf(EncountersWith(p), FALSE) < 2 THEN NoRow
             ELSE [kind |-> "alerted", sev |-> ScoreOf(EncountersWith(p), FALSE),
                   acked |-> FALSE]]
  /\ todo = {} /\ eval = [e \in Evaluators |-> EvalIdle] /\ queue = {}
  /\ \E plan \in Plans : requests = plan[1] /\ upsets = plan[2]
  /\ unlist = NoPlate
  /\ mrows = [h \in Handlers |-> <<NoRow, NoRow>>]
  /\ alerts = <<>> /\ disp = DispIdle /\ ledger = {} /\ sent = {} /\ twice = {}
  /\ owed = {} /\ lowered = {} /\ seen = [p \in Plates |-> 0]

-----------------------------------------------------------------------------
(* The heuristic. *)

(* Run takes an event when the last one is handed out; with alpr_enabled   *)
(* off it drops it.                                                        *)
TakeUpdate ==
  /\ todo = {} /\ updates # <<>> /\ updates' = Tail(updates)
  /\ \/ Fine /\ todo' = Head(updates) /\ UNCHANGED owed
     \/ Upset /\ UNCHANGED todo /\ owed' = owed \cup Head(updates)
  /\ UNCHANGED <<rows, aggregate, completions, corr, stale, missed, wl, eval, queue,
                 operator, notify, lowered, seen>>

Return(e) == eval' = [eval EXCEPT ![e] = EvalIdle]

(* A statement fails; EvaluatePlate returns the error, which is logged.    *)
Fail(e) == Upset /\ Return(e) /\ owed' = owed \cup {eval[e].plate}

(* EvaluatePlate begins: it reads the encounters and scores them.          *)
Begin(e, p) ==
  /\ eval[e].pc = "idle"
  /\ \/ /\ Fine /\ owed' = owed \ {p}
        /\ eval' = [eval EXCEPT ![e] =
             [pc |-> "read", plate |-> p, sev |-> ScoreOf(EncountersWith(p), FALSE),
              row |-> NoRow, late |-> FALSE]]
     \/ Upset /\ UNCHANGED eval /\ owed' = owed \cup {p}
  /\ UNCHANGED <<pipe, wl, operator, notify, lowered, seen>>

(* A goroutine per plate, as many as there are slots. *)
WorkerBegins(e, p) ==
  p \in todo /\ todo' = todo \ {p} /\ Begin(e, p) /\ UNCHANGED queue

(* Reevaluate calls EvaluatePlate for one plate after the other. *)
ApiBegins(p) ==
  p \in queue /\ queue' = queue \ {p} /\ Begin(Api, p) /\ UNCHANGED todo

ReadRowMutant(e) ==               \* whatever kind the row has
  /\ eval[e].pc = "read" /\ Fine /\ UNCHANGED owed
  /\ IF eval[e].sev < 2 THEN Return(e)
     ELSE eval' = [eval EXCEPT ![e].pc = "write", ![e].row = wl[eval[e].plate]]
  /\ UNCHANGED <<pipe, wl, todo, queue, operator, notify, lowered, seen>>

ReadRowMutant2(e) ==              \* severity 2 counts as nothing
  /\ eval[e].pc = "read" /\ Fine /\ UNCHANGED owed
  /\ IF wl[eval[e].plate].kind = "whitelist" \/ eval[e].sev <= 2 THEN Return(e)
     ELSE eval' = [eval EXCEPT ![e].pc = "write", ![e].row = wl[eval[e].plate]]
  /\ UNCHANGED <<pipe, wl, todo, queue, operator, notify, lowered, seen>>

(* GetWatchlistByHash and InsertAlertEvent; below severity 2, and for a    *)
(* whitelisted plate, that is all.                                         *)
ReadRow(e) ==
  /\ eval[e].pc = "read"
  /\ LET row == wl[eval[e].plate] IN
       \/ /\ Fine /\ UNCHANGED owed
          /\ IF row.kind = "whitelist" \/ eval[e].sev < 2 THEN Return(e)
             ELSE eval' = [eval EXCEPT ![e].pc = "write", ![e].row = row]
       \/ Fail(e)
  /\ UNCHANGED <<pipe, wl, todo, queue, operator, notify, lowered, seen>>

(* UpsertWatchlistAlerted and UpsertWatchlistAlertedPreserveAck.           *)
Alerted(row, s) == [kind |-> "alerted", sev |-> s, acked |-> FALSE]

PreserveAck(row, s) == [kind |-> "alerted", sev |-> Higher(row.sev, s), acked |-> row.acked]

Increased(e) == eval[e].sev > eval[e].row.sev

(* p, when a new row takes severity from it. *)
Lowers(p, row) == IF row.sev < wl[p].sev THEN {p} ELSE {}

(* The upsert is chosen by the row that was read, and applied to the row   *)
(* that is there.                                                          *)
WriteRow(e) ==
  LET p == eval[e].plate  s == eval[e].sev
      new == IF Increased(e) THEN Alerted(wl[p], s) ELSE PreserveAck(wl[p], s)
  IN
  /\ eval[e].pc = "write"
  /\ \/ /\ Fine /\ wl' = [wl EXCEPT ![p] = new]
        /\ owed' = IF new.sev < wl[p].sev \/ wl[p].kind = "whitelist"
                   THEN owed \cup {p} ELSE owed
        /\ lowered' = lowered \cup Lowers(p, new)
        /\ IF eval[e].row = NoRow \/ Increased(e)
           THEN eval' = [eval EXCEPT ![e].pc = "emit"] ELSE Return(e)
     \/ Fail(e) /\ UNCHANGED <<wl, lowered>>
  /\ UNCHANGED <<pipe, todo, queue, operator, notify, seen>>

(* AlertCreated, dropped when the channel is full. *)
EmitAlert(e) ==
  /\ eval[e].pc = "emit" /\ Return(e)
  /\ alerts' = IF Len(alerts) < AlertCap
               THEN Append(alerts, <<eval[e].plate, eval[e].sev>>) ELSE alerts
  /\ UNCHANGED <<encVars, wl, todo, queue, operator, disp, ledger, sent, twice, ghosts>>

EvalStep(e) == ReadRow(e) \/ WriteRow(e) \/ EmitAlert(e)

Heuristic ==
  \/ TakeUpdate \/ \E e \in EvalSlots, p \in todo : WorkerBegins(e, p)
  \/ \E p \in queue : ApiBegins(p)
  \/ \E e \in Evaluators : EvalStep(e)

-----------------------------------------------------------------------------
(* The operator. *)

Ask(r) == r \in requests /\ requests' = requests \ {r}

(* Evaluations that have read the row of p already are late.               *)
Late(p) ==
  [e \in Evaluators |->
     IF eval[e].plate = p /\ eval[e].pc = "write"
     THEN [eval[e] EXCEPT !.late = TRUE] ELSE eval[e]]

(* AddWhitelist. *)
AddWhitelist(p) ==
  /\ Ask(<<"whitelist", p, NoPlate>>)
  /\ wl' = [wl EXCEPT ![p] = [kind |-> "whitelist", sev |-> 0, acked |-> FALSE]]
  /\ seen' = [seen EXCEPT ![p] = Higher(@, wl[p].sev)]
  /\ eval' = Late(p)
  /\ UNCHANGED <<encVars, todo, queue, unlist, mrows, notify, owed, lowered>>

(* RemoveWhitelistEntry checks the kind of the row it reads ... *)
RemoveRead(p) ==
  /\ Ask(<<"unwhitelist", p, NoPlate>>) /\ unlist = NoPlate
  /\ unlist' = IF wl[p].kind = "whitelist" THEN p ELSE NoPlate
  /\ UNCHANGED <<encVars, wl, heuristic, mrows, notify, ghosts>>

(* ... and deletes the row that is there.  No evaluation follows. *)
RemoveRow ==
  /\ unlist # NoPlate /\ wl' = [wl EXCEPT ![unlist] = NoRow]
  /\ unlist' = NoPlate /\ owed' = owed \cup {unlist}
  /\ lowered' = lowered \cup Lowers(unlist, NoRow)
  /\ UNCHANGED <<encVars, heuristic, requests, mrows, notify, seen>>

(* AckAlert and UnackAlert update the row of any kind, if there is one. *)
Acknowledge(p, op, acked) ==
  /\ Ask(<<op, p, NoPlate>>)
  /\ IF wl[p] = NoRow THEN UNCHANGED <<wl, seen>>
     ELSE /\ wl' = [wl EXCEPT ![p].acked = acked]
          /\ seen' = [seen EXCEPT ![p] = IF acked THEN Higher(@, wl[p].sev) ELSE @]
  /\ UNCHANGED <<encVars, heuristic, unlist, mrows, notify, owed, lowered>>

AckAlert(p)   == Acknowledge(p, "ack", TRUE)
UnackAlert(p) == Acknowledge(p, "unack", FALSE)

(* Reevaluate without dry_run: the plates encountered in the window. *)
Reevaluate ==
  /\ Ask(<<"reevaluate", NoPlate, NoPlate>>)
  /\ queue = {} /\ queue' = UNION {PlatesIn(enc[r]) : r \in Routes}
  /\ UNCHANGED <<encVars, wl, todo, eval, unlist, mrows, notify, ghosts>>

EditDetection(h, d, q) ==
  /\ Ask(<<"edit", d, q>>) /\ EditLoad(h, d, q)
  /\ UNCHANGED <<wl, heuristic, unlist, mrows, notify, ghosts>>

-----------------------------------------------------------------------------
(* MergePlates. *)

(* collectAffectedRoutesForMerge, before the transaction. *)
MergeRoutes(h, p, q) ==
  /\ Ask(<<"merge", p, q>>) /\ corr[h].pc = "idle" /\ p # q
  /\ \E found \in SUBSET Routes :
       /\ Found(<<RoutesDetecting(p), RoutesMeeting(p), RoutesDetecting(q),
                  RoutesMeeting(q)>>, found)
       /\ corr' = [corr EXCEPT ![h] = [pc |-> "rows", det |-> 0, from |-> p, to |-> q,
                                       routes |-> found]]
  /\ UNCHANGED <<rows, aggregate, completions, updates, stale, missed, wl,
                 heuristic, unlist, mrows, notify, ghosts>>

(* The two watchlist rows, also before it; 404 when there is nothing. *)
MergeRows(h) ==
  LET from == wl[corr[h].from]  to == wl[corr[h].to] IN
  /\ corr[h].pc = "rows"
  /\ \/ /\ Fine
        /\ IF corr[h].routes = {} /\ from = NoRow /\ to = NoRow
           THEN corr' = [corr EXCEPT ![h] = CorrIdle] /\ UNCHANGED mrows
           ELSE /\ corr' = [corr EXCEPT ![h].pc = "merge"]
                /\ mrows' = [mrows EXCEPT ![h] = <<from, to>>]
     \/ Upset /\ corr' = [corr EXCEPT ![h] = CorrIdle] /\ UNCHANGED mrows
  /\ UNCHANGED <<rows, aggregate, completions, updates, stale, missed, wl,
                 heuristic, requests, unlist, notify, ghosts>>

MergedRowMutant(row, from, to) ==          \* acknowledged if either was
  [kind |-> row.kind, sev |-> Higher(from.sev, to.sev), acked |-> from.acked \/ to.acked]

(* mergeWatchlistFields and ApplyMergedWatchlistRow: from and to as read,  *)
(* row as it is.                                                           *)
MergedRow(row, from, to) ==
  [kind |-> row.kind, sev |-> Higher(from.sev, to.sev), acked |-> from.acked /\ to.acked]

(* The watchlist after the transaction; the branch is chosen by the rows   *)
(* that were read.                                                         *)
MergedWatchlist(h) ==
  LET p == corr[h].from  q == corr[h].to  from == mrows[h][1]  to == mrows[h][2] IN
    IF from = NoRow THEN wl
    ELSE IF to = NoRow
    THEN [wl EXCEPT ![q] = IF wl[p] = NoRow THEN @ ELSE wl[p], ![p] = NoRow]
    ELSE [wl EXCEPT ![q] = IF @ = NoRow THEN @ ELSE MergedRow(@, from, to), ![p] = NoRow]

(* The unique indexes on plate_watchlist(plate_hash) and on                *)
(* plate_encounters(dongle_id, route, plate_hash, first_seen_ts).          *)
Collides(h) ==
  LET p == corr[h].from  q == corr[h].to IN
    \/ mrows[h][1] # NoRow /\ mrows[h][2] = NoRow /\ wl[p] # NoRow /\ wl[q] # NoRow
    \/ \E e \in EncountersWith(p), f \in EncountersWith(q) :
          e.route = f.route /\ e.first = f.first

(* BulkUpdateEncountersPlateHash. *)
Renamed(E, p, q) == {[e EXCEPT !.plate = IF @ = p THEN q ELSE @] : e \in E}

(* The transaction: detections, encounters, watchlist, audit row. *)
MergeTx(h) ==
  LET p == corr[h].from  q == corr[h].to IN
  /\ corr[h].pc = "merge"
  /\ \/ /\ ~Collides(h) /\ Fine
        /\ plate' = [d \in Dets |-> IF plate[d] = p THEN q ELSE plate[d]]
        /\ enc' = [r \in Routes |-> Renamed(enc[r], p, q)]
        /\ wl' = MergedWatchlist(h)
        /\ eval' = IF wl'[q].kind = "whitelist" THEN Late(q) ELSE eval
        /\ seen' = [seen EXCEPT ![q] = Higher(@, seen[p])]
        /\ lowered' = lowered \cup Lowers(p, NoRow) \cup Lowers(q, wl'[q])
                       \cup (IF p \in lowered THEN {q} ELSE {})
        /\ owed' = owed \cup Lowers(q, wl'[q])
        /\ missed' = missed \cup ((RoutesDetecting(p) \cup RoutesMeeting(p)) \ corr[h].routes)
        /\ corr' = [corr EXCEPT ![h].pc = "send"]
     \/ /\ (Collides(h) /\ Fine) \/ Upset
        /\ corr' = [corr EXCEPT ![h] = CorrIdle]
        /\ UNCHANGED <<plate, enc, wl, eval, seen, lowered, owed, missed>>
  /\ mrows' = [mrows EXCEPT ![h] = <<NoRow, NoRow>>]
  /\ UNCHANGED <<announced, turned, held, agg, completions, updates, stale,
                 todo, queue, requests, unlist, notify>>

Operator ==
  \/ \E p \in Plates : \/ AddWhitelist(p) \/ RemoveRead(p)
                       \/ AckAlert(p) \/ UnackAlert(p)
  \/ RemoveRow \/ Reevaluate
  \/ \E h \in Handlers :
       \/ \E d \in Dets, q \in Plates : EditDetection(h, d, q)
       \/ \E p, q \in Plates : MergeRoutes(h, p, q)
       \/ MergeRows(h) \/ MergeTx(h)

-----------------------------------------------------------------------------
(* The notification subscriber; it dispatches one alert at a time.         *)

DispTo(pc) == disp' = [disp EXCEPT !.pc = pc]

(* Dispatch: the threshold and the whitelist.  A lookup that fails counts  *)
(* as not whitelisted.                                                     *)
TakeAlert ==
  /\ disp.pc = "idle" /\ alerts # <<>> /\ alerts' = Tail(alerts)
  /\ LET p == Head(alerts)[1]  s == Head(alerts)[2] IN
       \/ /\ Fine
          /\ disp' = IF s >= MinSeverity /\ wl[p].kind # "whitelist"
                     THEN [pc |-> "dedup", plate |-> p, blind |-> FALSE] ELSE DispIdle
       \/ Upset /\ s >= MinSeverity /\ disp' = [pc |-> "dedup", plate |-> p, blind |-> FALSE]
  /\ UNCHANGED <<pipe, wl, heuristic, operator, ledger, sent, twice, ghosts>>

CheckDedupMutant ==               \* the ledger is not asked
  /\ disp.pc = "dedup" /\ Fine /\ DispTo("send")
  /\ UNCHANGED <<pipe, wl, heuristic, operator, alerts, ledger, sent, twice, ghosts>>

(* GetLastNotificationSent; a lookup that fails counts as never sent. *)
CheckDedup ==
  /\ disp.pc = "dedup"
  /\ \/ Fine /\ (IF disp.plate \in ledger THEN disp' = DispIdle ELSE DispTo("send"))
     \/ Upset /\ disp' = [disp EXCEPT !.pc = "send", !.blind = TRUE]
  /\ UNCHANGED <<pipe, wl, heuristic, operator, alerts, ledger, sent, twice, ghosts>>

(* Enrich and fanOut: no plate text unless a route with an encounter of    *)
(* the plate has a detection of it, and nothing sent when every sender     *)
(* fails.                                                                  *)
Send ==
  LET p == disp.plate
      legible == RoutesMeeting(p) \cap RoutesDetecting(p) # {} IN
  /\ disp.pc = "send"
  /\ \/ /\ legible /\ Fine /\ DispTo("record")
        /\ sent' = sent \cup {p}
        /\ twice' = IF p \in sent /\ ~disp.blind THEN twice \cup {p} ELSE twice
     \/ /\ (~legible /\ Fine) \/ Upset
        /\ disp' = DispIdle /\ UNCHANGED <<sent, twice>>
  /\ UNCHANGED <<pipe, wl, heuristic, operator, alerts, ledger, ghosts>>

(* UpsertNotificationSent; a failure is only logged. *)
Record ==
  /\ disp.pc = "record" /\ disp' = DispIdle
  /\ \/ Fine /\ ledger' = ledger \cup {disp.plate} /\ UNCHANGED sent
     \/ Upset /\ sent' = sent \ {disp.plate} /\ UNCHANGED ledger
  /\ UNCHANGED <<pipe, wl, heuristic, operator, alerts, twice, ghosts>>

WindowEnds(p) ==
  /\ p \in sent /\ disp.plate # p
  /\ sent' = sent \ {p} /\ ledger' = ledger \ {p}
  /\ UNCHANGED <<encVars, wl, heuristic, operator, alerts, disp, twice, ghosts>>

Notify == TakeAlert \/ CheckDedup \/ Send \/ Record \/ \E p \in Plates : WindowEnds(p)

-----------------------------------------------------------------------------
(* The whole. *)

(* The plates of the encounters that a full channel, or a restart, keeps   *)
(* from the heuristic.                                                     *)
Emitting(w) == IF agg[w].pc = "emit" THEN PlatesIn(agg[w].encs) ELSE {}

Encounters ==
  /\ Pipeline \/ \E h \in Handlers : CorrStep(h)
  /\ owed' = owed \cup UNION {Emitting(w) : w \in {x \in AggSlots :
                                agg'[x].pc = "idle" /\ updates' = updates}}
  /\ UNCHANGED <<wl, heuristic, operator, notify, lowered, seen>>

InFlight ==
  todo \cup queue \cup {eval[e].plate : e \in Evaluators}
  \cup (UNION {updates[i] : i \in DOMAIN updates}) \cup UNION {Emitting(w) : w \in AggSlots}

(* The process restarts: the tables are left. *)
Restart ==
  /\ Upset
  /\ stale' = stale \cup {r \in Routes : Pending(r) \/ Busy(r)}
  /\ owed' = (owed \cup InFlight) \ {NoPlate}
  /\ completions' = <<>> /\ held' = NoRoute /\ agg' = [w \in AggSlots |-> AggIdle]
  /\ updates' = <<>> /\ corr' = [h \in Handlers |-> CorrIdle]
  /\ todo' = {} /\ eval' = [e \in Evaluators |-> EvalIdle] /\ queue' = {}
  /\ unlist' = NoPlate /\ mrows' = [h \in Handlers |-> <<NoRow, NoRow>>]
  /\ alerts' = <<>> /\ disp' = DispIdle
  /\ sent' = IF disp.pc = "record" THEN sent \ {disp.plate} ELSE sent
  /\ UNCHANGED <<rows, enc, missed, wl, requests, ledger, twice, lowered, seen>>

AlertsNext == Encounters \/ Heuristic \/ Operator \/ Notify

-----------------------------------------------------------------------------
(* Properties. *)

Rows == [kind : {"none", "alerted", "whitelist"}, sev : 0..5, acked : BOOLEAN]

(* The columns and locals; the slots and channels keep to their capacity.  *)
AlertsTypeOK ==
  /\ plate \in [Dets -> Plates \cup {NoPlate, Pruned}]
  /\ Len(completions) <= CompletionCap /\ Len(updates) <= UpdateCap
  /\ Len(alerts) <= AlertCap
  /\ wl \in [Plates -> Rows] /\ seen \in [Plates -> 0..5]
  /\ \A e \in Evaluators : /\ eval[e].pc \in {"idle", "read", "write", "emit"}
                           /\ eval[e].sev \in 0..5 /\ eval[e].row \in Rows
                           /\ eval[e].pc # "idle" => eval[e].plate \in Plates
  /\ disp.pc \in {"idle", "dedup", "send", "record"}

(* Everything that could lead to an evaluation has been worked off. *)
Quiet ==
  /\ \A r \in Routes : ~Pending(r) /\ ~Busy(r)
  /\ \A w \in AggSlots : agg[w].pc = "idle"
  /\ updates = <<>> /\ todo = {} /\ queue = {}
  /\ \A e \in Evaluators : eval[e].pc = "idle"

(* When all is quiet, every plate whose encounters score is on the         *)
(* watchlist with at least that severity, unless it is whitelisted, its    *)
(* routes were never aggregated again, or its last evaluation was lost: a  *)
(* statement failed, or a write or a merge that had read the row before    *)
(* took severity from it.                                                  *)
NoneUnderAlerted ==
  Quiet => \A p \in Plates \ owed :
    \/ wl[p].kind = "whitelist"
    \/ RoutesMeeting(p) \cap (stale \cup missed) # {}
    \/ wl[p].sev >= ScoreOf(EncountersWith(p), FALSE)

(* A whitelisted plate becomes alerted only through an evaluation that had *)
(* read its row before it was whitelisted, by the operator or by a merge   *)
(* of a whitelisted plate into it.  No merge alerts a whitelisted plate.   *)
WhitelistHolds ==
  [][\A p \in Plates : wl[p].kind = "whitelist" /\ wl'[p].kind = "alerted"
       => \E e \in Evaluators :
            eval[e].plate = p /\ eval[e].pc = "write" /\ eval[e].late]_vars

(* An alert that is acknowledged has no higher severity than the operator  *)
(* knew, whatever evaluations and merges touch the row.  Excepted is a     *)
(* plate whose row lost severity in between: an evaluation that chose the  *)
(* acknowledgement-preserving upsert by the row of before raises it again. *)
AckedWasKnown ==
  \A p \in Plates \ lowered :
    wl[p].kind = "alerted" /\ wl[p].acked => wl[p].sev <= seen[p]

(* No plate is notified twice within the window, unless the ledger could   *)
(* not be read or written.                                                 *)
NoDuplicateNotice == twice = {}

-----------------------------------------------------------------------------
(* The strengthenings. *)

(* An evaluation that is to write a whitelisted row is marked.             *)
LateMarked ==
  \A e \in Evaluators :
    eval[e].pc = "write" /\ wl[eval[e].plate].kind = "whitelist" => eval[e].late

(* A row acknowledged, in the table or as a merge has read it, was known;  *)
(* an evaluation that preserves the acknowledgement writes no more than is *)
(* there or was known.                                                     *)
Known(p, row) == row.acked => row.sev <= seen[p]

AckKnown ==
  /\ \A p \in Plates \ lowered : Known(p, wl[p])
  /\ \A h \in Handlers : corr[h].pc = "merge" =>
       /\ corr[h].from \notin lowered => Known(corr[h].from, mrows[h][1])
       /\ corr[h].to \notin lowered => Known(corr[h].to, mrows[h][2])
  /\ \A e \in Evaluators :
       eval[e].pc = "write" /\ ~Increased(e) /\ eval[e].plate \notin lowered
         => eval[e].sev <= Higher(wl[eval[e].plate].sev, seen[eval[e].plate])

(* What the window excuses from the ledger is being recorded right now,    *)
(* and whoever asked the ledger sends what was not sent.                   *)
LedgerExact ==
  /\ \A p \in sent : p \in ledger \/ (disp.pc = "record" /\ disp.plate = p)
  /\ disp.pc = "send" /\ ~disp.blind => disp.plate \notin sent
  /\ twice = {}
=============================================================================
