------------------------- MODULE PlateAlerts_proofs -------------------------
(***************************************************************************)
(* For any number of plates, detections, slots, handlers, operator         *)
(* requests and failures: the whitelist gives way only to an evaluation    *)
(* that had read the row before, an acknowledged alert is no worse than    *)
(* what the operator knew, no window has two notifications, a pass groups  *)
(* the detections it has read by the gap.  With one slot, a route that     *)
(* nothing is on its way to has the encounters of its detections, and no   *)
(* plate is left with less severity than its encounters have.              *)
(***************************************************************************)
EXTENDS PlateRetention, SequenceTheorems, FiniteSetTheorems, TLAPS

\* What every step is, the retention's history left aside.
LEMMA Steps ==
  ASSUME [RetentionNext]_<<vars, retention>>
  PROVE  \/ Encounters \/ Heuristic \/ Operator \/ Notify \/ Restart
         \/ SweepDetections \/ DeleteOrphans \/ UNCHANGED <<vars, retention>>
BY DEF RetentionNext, AlertsNext

-----------------------------------------------------------------------------
(* Types. *)

\* Taking the first element off a channel, and putting one behind it.
LEMMA ChannelOps ==
  ASSUME NEW S, NEW q \in Seq(S)
  PROVE  /\ Len(q) \in Nat
         /\ q # <<>> => Head(q) \in S /\ Tail(q) \in Seq(S) /\ Len(Tail(q)) <= Len(q)
         /\ \A x \in S : Append(q, x) \in Seq(S) /\ Len(Append(q, x)) = Len(q) + 1
<1>1. Len(q) \in Nat
  BY LenProperties
<1>2. q # <<>> => Head(q) \in S /\ Tail(q) \in Seq(S) /\ Len(Tail(q)) = Len(q) - 1
  BY HeadTailProperties
<1>3. \A x \in S : Append(q, x) \in Seq(S) /\ Len(Append(q, x)) = Len(q) + 1
  BY AppendProperties
<1> QED BY <1>1, <1>2, <1>3

LEMMA EmptyChannel == \A S : <<>> \in Seq(S) /\ Len(<<>>) = 0
BY EmptySeq

\* A severity is one of the buckets, whatever the thresholds.
LEMMA ScoreRange == \A E : ScoreOf(E, FALSE) \in 0..5
BY DEF ScoreOf, SeverityFor

\* A set of encounters, of which only the plate has a type: the rest comes
\* out of the walk.
EncOK(E) ==
  \A e \in E : /\ e.plate \in Plates
               /\ e = [plate |-> e.plate, route |-> e.route, first |-> e.first,
                       last |-> e.last, count |-> e.count, turns |-> e.turns]

CorrRec == [pc : {"idle", "edit", "collect", "rows", "merge", "send"},
            det : Dets \cup {0}, from : Plates \cup {NoPlate},
            to : Plates \cup {NoPlate}, routes : SUBSET Routes]

CorrOK(c) ==
  /\ c.pc \in {"edit", "collect"} => c.det \in Dets
  /\ c.pc \notin {"idle", "send"} => c.from \in Plates /\ c.to \in Plates
  /\ c.pc \in {"rows", "merge"} => c.from # c.to

EncType ==
  /\ plate \in [Dets -> Plates \cup {NoPlate, Pruned}]
  /\ enc = [r \in Routes |-> enc[r]] /\ \A r \in Routes : EncOK(enc[r])
  /\ completions \in Seq(Routes) /\ Len(completions) <= CompletionCap
  /\ held \in Routes \cup {NoRoute}

AggType ==
  /\ agg = [w \in AggSlots |-> agg[w]]
  /\ \A w \in AggSlots :
       /\ agg[w] = [pc |-> agg[w].pc, route |-> agg[w].route, seen |-> agg[w].seen,
                    encs |-> agg[w].encs]
       /\ EncOK(agg[w].encs)
  /\ updates \in Seq(SUBSET Plates) /\ Len(updates) <= UpdateCap

CorrType == corr \in [Handlers -> CorrRec] /\ \A h \in Handlers : CorrOK(corr[h])

EvalRec == [pc : {"idle", "read", "write", "emit"}, plate : Plates \cup {NoPlate},
            sev : 0..5, row : Rows, late : BOOLEAN]

EvalType ==
  /\ todo \subseteq Plates /\ queue \subseteq Plates
  /\ eval \in [Evaluators -> EvalRec]
  /\ \A e \in Evaluators : eval[e].pc # "idle" => eval[e].plate \in Plates

RowType ==
  /\ wl \in [Plates -> Rows] /\ seen \in [Plates -> 0..5]
  /\ mrows \in [Handlers -> Rows \X Rows]
  /\ unlist \in Plates \cup {NoPlate}

DispRec == [pc : {"idle", "dedup", "send", "record"}, plate : Plates \cup {NoPlate},
            blind : BOOLEAN]

NotifyType ==
  /\ alerts \in Seq(Plates \X (0..5)) /\ Len(alerts) <= AlertCap
  /\ disp \in DispRec
  /\ disp.pc # "idle" => disp.plate \in Plates

SweepType ==
  /\ swept \subseteq Routes
  /\ sweep \in [pc : {"idle", "unflagged", "ceiling", "orphans"}, flagged : SUBSET Plates]

Typed == EncType /\ AggType /\ CorrType /\ EvalType /\ RowType /\ NotifyType /\ SweepType

LEMMA TypedIsTypeOK == Typed => RetentionTypeOK
<1> SUFFICES ASSUME Typed PROVE RetentionTypeOK
  OBVIOUS
<1>1. \A e \in Evaluators : eval[e] \in EvalRec
  BY DEF Typed, EvalType
<1>2. \A e \in Evaluators : /\ eval[e].pc \in {"idle", "read", "write", "emit"}
                            /\ eval[e].sev \in 0..5 /\ eval[e].row \in Rows
                            /\ eval[e].pc # "idle" => eval[e].plate \in Plates
  BY <1>1 DEF Typed, EvalType, EvalRec
<1>3. disp.pc \in {"idle", "dedup", "send", "record"}
  BY DEF Typed, NotifyType, DispRec
<1>4. AlertsTypeOK
  BY <1>2, <1>3 DEF Typed, EncType, AggType, RowType, NotifyType, AlertsTypeOK
<1> QED BY <1>4 DEF Typed, SweepType, RetentionTypeOK

\* The values things start from.
LEMMA Idle ==
  /\ NoRow \in Rows /\ EvalIdle \in EvalRec /\ DispIdle \in DispRec
  /\ CorrIdle \in CorrRec /\ CorrOK(CorrIdle)
BY DEF NoRow, Rows, EvalIdle, EvalRec, DispIdle, DispRec, CorrIdle, CorrRec, CorrOK

\* What a pass computes are encounters, whatever it has read.
LEMMA ComputedOK == \A r, s, known : EncOK(EncountersOf(r, s, known))
<1> SUFFICES ASSUME NEW r, NEW s, NEW known, NEW e \in EncountersOf(r, s, known)
             PROVE  /\ e.plate \in Plates
                    /\ e = [plate |-> e.plate, route |-> e.route, first |-> e.first,
                            last |-> e.last, count |-> e.count, turns |-> e.turns]
  BY DEF EncOK
<1>1. PICK p \in Plates : e \in LET es == PlateWalk({d \in DOMAIN s : s[d] = p}) IN
         {[plate |-> p, route |-> r, first |-> es[i].first, last |-> es[i].last,
           count |-> es[i].count,
           turns |-> TurnCount(r, es[i].first, es[i].last, known)] : i \in DOMAIN es}
  BY DEF EncountersOf
<1> DEFINE es == PlateWalk({d \in DOMAIN s : s[d] = p})
<1>2. PICK i \in DOMAIN es :
         e = [plate |-> p, route |-> r, first |-> es[i].first, last |-> es[i].last,
              count |-> es[i].count,
              turns |-> TurnCount(r, es[i].first, es[i].last, known)]
  BY <1>1
<1> QED BY <1>2

-----------------------------------------------------------------------------
(* The pipeline and the corrections. *)

LEMMA TypedInit == RetentionInit => Typed
<1> SUFFICES ASSUME RetentionInit PROVE Typed
  OBVIOUS
<1> USE Idle, EmptyChannel DEF RetentionInit, AlertsInit, EncInit
<1>1. /\ CompletionCap \in Nat /\ UpdateCap \in Nat /\ AlertCap \in Nat
      /\ FirstRead \in [Dets -> Plates]
  BY EncountersAssumption, AlertsAssumption
<1>2. EncOK({})
  BY DEF EncOK
<1>3. EncType
  BY <1>1, <1>2, ComputedOK DEF EncType
<1>4. AggType
  <2>1. agg = [w \in AggSlots |-> AggIdle] /\ updates = <<>>
    OBVIOUS
  <2>2. agg = [w \in AggSlots |-> agg[w]] /\ \A w \in AggSlots : agg[w] = AggIdle
    BY ONLY <2>1
  <2>3. updates \in Seq(SUBSET Plates) /\ Len(updates) <= UpdateCap
    BY <1>1, <2>1
  <2> QED BY <1>2, <2>2, <2>3 DEF AggType, AggIdle
<1>5. CorrType
  BY DEF CorrType
<1>6. EvalType
  BY DEF EvalType, EvalIdle
<1>7. RowType
  <2>1. \A E : [kind |-> "alerted", sev |-> ScoreOf(E, FALSE), acked |-> FALSE] \in Rows
    BY ScoreRange DEF Rows
  <2>2. wl \in [Plates -> Rows]
    BY <2>1
  <2>3. /\ seen \in [Plates -> 0..5] /\ unlist \in Plates \cup {NoPlate}
        /\ mrows \in [Handlers -> Rows \X Rows]
    OBVIOUS
  <2> QED BY <2>2, <2>3 DEF RowType
<1>8. NotifyType
  BY <1>1 DEF NotifyType, DispIdle
<1>9. SweepType
  BY DEF SweepType, SweepIdle
<1> QED BY <1>3, <1>4, <1>5, <1>6, <1>7, <1>8, <1>9 DEF Typed

\* A completion event is for a route, and is dropped when there is no room.
LEMMA SendType ==
  ASSUME EncType, NEW r \in Routes, SendCompletion(r)
  PROVE  completions' \in Seq(Routes) /\ Len(completions') <= CompletionCap
<1>1. /\ completions \in Seq(Routes) /\ Len(completions) <= CompletionCap
      /\ CompletionCap \in Nat
  BY EncountersAssumption DEF EncType
<1>2. CASE Len(completions) < CompletionCap
  <2>1. completions' = Append(completions, r)
    BY <1>2 DEF SendCompletion
  <2> QED BY <1>1, <1>2, <2>1, ChannelOps
<1>3. CASE ~(Len(completions) < CompletionCap)
  BY <1>1, <1>3 DEF SendCompletion
<1> QED BY <1>2, <1>3

\* What the detector and the turn detector write.
LEMMA SourcesType ==
  ASSUME EncType, AggType,
         \/ \E d \in Dets : StoreDetection(d)
         \/ \E r \in Routes : Announce(r) \/ TurnsStored(r)
  PROVE  EncType' /\ AggType' /\ corr' = corr
<1>1. ASSUME NEW d \in Dets, StoreDetection(d) PROVE EncType' /\ AggType' /\ corr' = corr
  <2>1. UNCHANGED <<enc, completions, held, agg, updates, corr>>
    BY <1>1 DEF StoreDetection, aggregate
  <2>2. plate' \in [Dets -> Plates \cup {NoPlate, Pruned}]
    BY <1>1, EncountersAssumption DEF StoreDetection, EncType
  <2> QED BY <2>1, <2>2 DEF EncType, AggType
<1>2. ASSUME NEW r \in Routes, Announce(r) PROVE EncType' /\ AggType' /\ corr' = corr
  <2>1. UNCHANGED <<plate, enc, held, agg, updates, corr>> /\ SendCompletion(r)
    BY <1>2 DEF Announce, aggregate
  <2> QED BY <2>1, SendType DEF EncType, AggType
<1>3. ASSUME NEW r \in Routes, TurnsStored(r) PROVE EncType' /\ AggType' /\ corr' = corr
  <2>1. UNCHANGED <<plate, enc, completions, held, agg, updates, corr>>
    BY <1>3 DEF TurnsStored, aggregate
  <2> QED BY <2>1 DEF EncType, AggType
<1> QED BY <1>1, <1>2, <1>3

\* Replacing one pass of the aggregator.
AggOK(a) == /\ a = [pc |-> a.pc, route |-> a.route, seen |-> a.seen, encs |-> a.encs]
            /\ EncOK(a.encs)

LEMMA AggUpdate ==
  ASSUME AggType, NEW w \in AggSlots, NEW new, AggOK(new), agg' = [agg EXCEPT ![w] = new]
  PROVE  /\ agg' = [x \in AggSlots |-> agg'[x]]
         /\ \A x \in AggSlots : AggOK(agg'[x])
<1>1. agg = [x \in AggSlots |-> agg[x]] /\ \A x \in AggSlots : AggOK(agg[x])
  BY DEF AggType, AggOK
<1>2. \A x \in AggSlots : agg'[x] = IF x = w THEN new ELSE agg[x]
  BY <1>1
<1>3. agg' = [x \in AggSlots |-> agg'[x]]
  BY <1>1
<1> QED BY <1>1, <1>2, <1>3

LEMMA AggregatorType ==
  ASSUME EncType, AggType, NEW w \in AggSlots, AggStep(w)
  PROVE  EncType' /\ AggType' /\ corr' = corr
<1>0. /\ agg[w] = [pc |-> agg[w].pc, route |-> agg[w].route, seen |-> agg[w].seen,
                   encs |-> agg[w].encs]
      /\ EncOK(agg[w].encs) /\ EncOK({})
  BY DEF AggType, EncOK
<1>1. AggOK(AggIdle)
  BY <1>0 DEF AggOK, AggIdle
<1>2. UNCHANGED <<plate, completions, corr>> /\ held' \in Routes \cup {NoRoute}
  BY DEF AggStep, ListDetections, CountTurns, Persist, EmitUpdate, EncType, rows
<1>3. \/ agg' = agg
      \/ \E new : AggOK(new) /\ agg' = [agg EXCEPT ![w] = new]
  <2>1. CASE ListDetections(w)
    <3> DEFINE new == [pc |-> "count", route |-> held, seen |-> Seen(held), encs |-> {}]
    <3>1. AggOK(new)
      BY <1>0 DEF AggOK
    <3>2. agg' = agg \/ agg' = [agg EXCEPT ![w] = new]
      BY <2>1 DEF ListDetections
    <3> HIDE DEF new
    <3> QED BY <3>1, <3>2
  <2>2. CASE CountTurns(w)
    <3> DEFINE new == [pc |-> "persist", route |-> agg[w].route, seen |-> agg[w].seen,
                       encs |-> EncountersOf(agg[w].route, agg[w].seen, turned)]
    <3>1. AggOK(new)
      BY ComputedOK DEF AggOK
    <3>2. agg' = [agg EXCEPT ![w] = AggIdle] \/ agg' = [agg EXCEPT ![w] = new]
      BY <2>2 DEF CountTurns, GiveUp
    <3> HIDE DEF new
    <3> QED BY <1>1, <3>1, <3>2
  <2>3. CASE Persist(w)
    <3> DEFINE new == [agg[w] EXCEPT !.pc = "emit"]
    <3>1. AggOK(new)
      BY <1>0 DEF AggOK
    <3>2. agg' = [agg EXCEPT ![w] = AggIdle] \/ agg' = [agg EXCEPT ![w] = new]
      BY <2>3 DEF Persist, GiveUp, Goto
    <3> HIDE DEF new
    <3> QED BY <1>1, <3>1, <3>2
  <2>4. CASE EmitUpdate(w)
    BY <1>1, <2>4 DEF EmitUpdate
  <2> QED BY <2>1, <2>2, <2>3, <2>4 DEF AggStep
<1>4. enc' = [r \in Routes |-> enc'[r]] /\ \A r \in Routes : EncOK(enc'[r])
  <2>1. enc' = enc \/ enc' = [enc EXCEPT ![agg[w].route] = agg[w].encs]
    BY DEF AggStep, ListDetections, CountTurns, Persist, EmitUpdate
  <2>2. CASE enc' = [enc EXCEPT ![agg[w].route] = agg[w].encs]
    BY <1>0, <2>2 DEF EncType
  <2> QED BY <2>1, <2>2 DEF EncType
<1>5. updates' \in Seq(SUBSET Plates) /\ Len(updates') <= UpdateCap
  <2>1. UpdateCap \in Nat /\ updates \in Seq(SUBSET Plates) /\ Len(updates) <= UpdateCap
    BY EncountersAssumption DEF AggType
  <2>2. PlatesIn(agg[w].encs) \in SUBSET Plates
    BY <1>0 DEF PlatesIn, EncOK
  <2>3. \/ updates' = updates
        \/ Len(updates) < UpdateCap /\ updates' = Append(updates, PlatesIn(agg[w].encs))
    BY DEF AggStep, ListDetections, CountTurns, Persist, EmitUpdate
  <2> QED BY <2>1, <2>2, <2>3, ChannelOps
<1>6. EncType'
  BY <1>2, <1>4 DEF EncType
<1>7. /\ agg' = [x \in AggSlots |-> agg'[x]]
      /\ \A x \in AggSlots : AggOK(agg'[x])
  BY <1>3, AggUpdate DEF AggType, AggOK
<1> QED BY <1>2, <1>5, <1>6, <1>7 DEF AggType, AggOK

LEMMA ReceiveType ==
  ASSUME EncType, AggType, Receive
  PROVE  EncType' /\ AggType' /\ corr' = corr
<1>1. UNCHANGED <<plate, enc, agg, updates, corr>>
  BY DEF Receive, rows
<1>2. /\ completions \in Seq(Routes) /\ Len(completions) <= CompletionCap
      /\ CompletionCap \in Nat
  BY EncountersAssumption DEF EncType
<1>3. completions # <<>> /\ completions' = Tail(completions)
      /\ held' \in {held, Head(completions)}
  BY DEF Receive
<1>4. /\ completions' \in Seq(Routes) /\ Len(completions') <= CompletionCap
      /\ Head(completions) \in Routes
  BY <1>2, <1>3, ChannelOps
<1> QED BY <1>1, <1>3, <1>4 DEF EncType, AggType

\* Replacing one correction.
LEMMA CorrUpdate ==
  ASSUME CorrType, NEW h \in Handlers, NEW new \in CorrRec, CorrOK(new),
         corr' = [corr EXCEPT ![h] = new]
  PROVE  CorrType'
<1>1. /\ corr' \in [Handlers -> CorrRec]
      /\ \A g \in Handlers : corr'[g] = IF g = h THEN new ELSE corr[g]
  BY DEF CorrType
<1> QED BY <1>1 DEF CorrType

LEMMA CorrStepType ==
  ASSUME EncType, AggType, CorrType, NEW h \in Handlers, CorrStep(h)
  PROVE  EncType' /\ AggType' /\ CorrType'
<1>0. corr[h] \in CorrRec /\ CorrOK(corr[h]) /\ CorrIdle \in CorrRec /\ CorrOK(CorrIdle)
  BY Idle DEF CorrType
<1>1. UNCHANGED <<enc, held, agg, updates>>
  BY DEF CorrStep, EditTx, EditCollect, Retrigger, Respond, aggregate
<1>2. CASE EditTx(h)
  <2> DEFINE new == [corr[h] EXCEPT !.pc = "collect"]
  <2>1. /\ corr[h].pc = "edit" /\ completions' = completions
        /\ \/ /\ plate' = [plate EXCEPT ![corr[h].det] = IF @ = Pruned THEN @ ELSE corr[h].to]
              /\ corr' = [corr EXCEPT ![h] = new]
           \/ plate' = plate /\ corr' = [corr EXCEPT ![h] = CorrIdle]
    BY <1>2 DEF EditTx
  <2>2. corr[h].det \in Dets /\ corr[h].to \in Plates /\ corr[h].from \in Plates
    BY <1>0, <2>1 DEF CorrOK
  <2>3. new \in CorrRec /\ CorrOK(new)
    BY <1>0, <2>2 DEF CorrRec, CorrOK
  <2> HIDE DEF new
  <2>4. plate' \in [Dets -> Plates \cup {NoPlate, Pruned}]
    BY <2>1, <2>2 DEF EncType
  <2>5. CorrType'
    BY <1>0, <2>1, <2>3, CorrUpdate
  <2> QED BY <1>1, <2>1, <2>4, <2>5 DEF EncType, AggType
<1>3. CASE EditCollect(h)
  <2>1. /\ corr[h].pc = "collect" /\ UNCHANGED <<plate, completions>>
        /\ \E found \in SUBSET Routes :
             corr' = [corr EXCEPT ![h] =
               [corr[h] EXCEPT !.pc = "send", !.routes = {RouteOf[corr[h].det]} \cup found]]
    BY <1>3 DEF EditCollect, rows
  <2>2. PICK found \in SUBSET Routes :
          corr' = [corr EXCEPT ![h] =
            [corr[h] EXCEPT !.pc = "send", !.routes = {RouteOf[corr[h].det]} \cup found]]
    BY <2>1
  <2>3. RouteOf[corr[h].det] \in Routes
    BY <1>0, <2>1 DEF CorrOK, Routes
  <2> DEFINE new == [corr[h] EXCEPT !.pc = "send",
                                    !.routes = {RouteOf[corr[h].det]} \cup found]
  <2>4. new \in CorrRec /\ CorrOK(new)
    BY <1>0, <2>3 DEF CorrRec, CorrOK
  <2>5. corr' = [corr EXCEPT ![h] = new]
    BY <2>2
  <2> HIDE DEF new
  <2>6. CorrType'
    BY <2>4, <2>5, CorrUpdate
  <2> QED BY <1>1, <2>1, <2>6 DEF EncType, AggType
<1>4. CASE Retrigger(h)
  <2>1. PICK r \in corr[h].routes :
          /\ SendCompletion(r) \/ completions' = completions
          /\ corr' = [corr EXCEPT ![h].routes = @ \ {r}]
    BY <1>4 DEF Retrigger
  <2>2. corr[h].pc = "send" /\ plate' = plate /\ r \in Routes
    BY <1>0, <1>4, <2>1 DEF Retrigger, rows, CorrRec
  <2> DEFINE new == [corr[h] EXCEPT !.routes = @ \ {r}]
  <2>3. corr' = [corr EXCEPT ![h] = new]
    BY <2>1
  <2>4. new \in CorrRec /\ CorrOK(new)
    BY <1>0, <2>2 DEF CorrRec, CorrOK
  <2> HIDE DEF new
  <2>5. CorrType'
    BY <2>3, <2>4, CorrUpdate
  <2>6. completions' \in Seq(Routes) /\ Len(completions') <= CompletionCap
    BY <2>1, <2>2, SendType DEF EncType
  <2> QED BY <1>1, <2>2, <2>5, <2>6 DEF EncType, AggType
<1>5. CASE Respond(h)
  <2>1. UNCHANGED <<plate, completions>> /\ corr' = [corr EXCEPT ![h] = CorrIdle]
    BY <1>5 DEF Respond, rows
  <2> QED BY <1>0, <1>1, <2>1, CorrUpdate DEF EncType, AggType
<1> QED BY <1>2, <1>3, <1>4, <1>5 DEF CorrStep

\* The operator's edit and the two reads of a merge.
LEMMA LoadType ==
  ASSUME EncType, AggType, CorrType, NEW h \in Handlers,
         \/ \E d \in Dets, q \in Plates : EditDetection(h, d, q)
         \/ \E p, q \in Plates : MergeRoutes(h, p, q)
         \/ MergeRows(h)
  PROVE  EncType' /\ AggType' /\ CorrType'
<1>1. UNCHANGED <<plate, enc, completions, held, agg, updates>>
  BY DEF EditDetection, EditLoad, MergeRoutes, MergeRows, rows, aggregate
<1>2. ASSUME NEW d \in Dets, NEW q \in Plates, EditDetection(h, d, q) PROVE CorrType'
  <2> DEFINE new == [pc |-> "edit", det |-> d, from |-> plate[d], to |-> q, routes |-> {}]
  <2>1. plate[d] \in Plates /\ corr' = [corr EXCEPT ![h] = new]
    BY <1>2 DEF EditDetection, EditLoad
  <2>2. new \in CorrRec /\ CorrOK(new)
    BY <2>1 DEF CorrRec, CorrOK
  <2> HIDE DEF new
  <2> QED BY <2>1, <2>2, CorrUpdate
<1>3. ASSUME NEW p \in Plates, NEW q \in Plates, MergeRoutes(h, p, q) PROVE CorrType'
  <2>1. PICK found \in SUBSET Routes :
          corr' = [corr EXCEPT ![h] = [pc |-> "rows", det |-> 0, from |-> p, to |-> q,
                                       routes |-> found]]
    BY <1>3 DEF MergeRoutes
  <2> DEFINE new == [pc |-> "rows", det |-> 0, from |-> p, to |-> q, routes |-> found]
  <2>2. new \in CorrRec /\ CorrOK(new)
    BY <1>3 DEF CorrRec, CorrOK, MergeRoutes
  <2> QED BY <2>1, <2>2, CorrUpdate
<1>4. ASSUME MergeRows(h) PROVE CorrType'
  <2> DEFINE new == [corr[h] EXCEPT !.pc = "merge"]
  <2>1. /\ corr[h].pc = "rows"
        /\ corr' = [corr EXCEPT ![h] = CorrIdle] \/ corr' = [corr EXCEPT ![h] = new]
    BY <1>4 DEF MergeRows
  <2>2. new \in CorrRec /\ CorrOK(new)
    BY <2>1 DEF CorrRec, CorrOK, CorrType
  <2> HIDE DEF new
  <2> QED BY <2>1, <2>2, CorrUpdate, Idle
<1> QED BY <1>1, <1>2, <1>3, <1>4 DEF EncType, AggType

\* What the transaction of a merge makes of the encounters.
LEMMA RenamedOK ==
  ASSUME NEW E, EncOK(E), NEW p, NEW q \in Plates
  PROVE  EncOK(Renamed(E, p, q))
<1> SUFFICES ASSUME NEW e \in E, NEW f, f = [e EXCEPT !.plate = IF @ = p THEN q ELSE @]
             PROVE  /\ f.plate \in Plates
                    /\ f = [plate |-> f.plate, route |-> f.route, first |-> f.first,
                            last |-> f.last, count |-> f.count, turns |-> f.turns]
  BY DEF EncOK, Renamed
<1>1. /\ e.plate \in Plates
      /\ e = [plate |-> e.plate, route |-> e.route, first |-> e.first, last |-> e.last,
              count |-> e.count, turns |-> e.turns]
  BY DEF EncOK
<1> QED BY <1>1

LEMMA MergeTxType ==
  ASSUME EncType, AggType, CorrType, NEW h \in Handlers, MergeTx(h)
  PROVE  EncType' /\ AggType' /\ CorrType'
<1> DEFINE p == corr[h].from
           q == corr[h].to
           new == [corr[h] EXCEPT !.pc = "send"]
<1>1. UNCHANGED <<completions, held, agg, updates>>
  BY DEF MergeTx
<1>2. corr[h] \in CorrRec /\ corr[h].pc = "merge" /\ p \in Plates /\ q \in Plates
  BY DEF MergeTx, CorrType, CorrOK
<1>3. \/ /\ plate' = [d \in Dets |-> IF plate[d] = p THEN q ELSE plate[d]]
         /\ enc' = [r \in Routes |-> Renamed(enc[r], p, q)]
         /\ corr' = [corr EXCEPT ![h] = new]
      \/ UNCHANGED <<plate, enc>> /\ corr' = [corr EXCEPT ![h] = CorrIdle]
  BY DEF MergeTx
<1>4. new \in CorrRec /\ CorrOK(new)
  BY <1>2 DEF CorrRec, CorrOK
<1> HIDE DEF new
<1>5. CorrType'
  BY <1>3, <1>4, CorrUpdate, Idle
<1> HIDE DEF p, q
<1>6. CASE UNCHANGED <<plate, enc>>
  BY <1>1, <1>5, <1>6 DEF EncType, AggType
<1>7. CASE /\ plate' = [d \in Dets |-> IF plate[d] = p THEN q ELSE plate[d]]
           /\ enc' = [r \in Routes |-> Renamed(enc[r], p, q)]
  <2>1. plate' \in [Dets -> Plates \cup {NoPlate, Pruned}]
    BY <1>2, <1>7 DEF EncType
  <2>2. ASSUME NEW r \in Routes
        PROVE  EncOK(Renamed(enc[r], p, q))
    <3>1. EncOK(enc[r])
      BY DEF EncType
    <3> QED BY <1>2, <3>1, RenamedOK
  <2>3. enc' = [r \in Routes |-> enc'[r]] /\ \A r \in Routes : EncOK(enc'[r])
    BY <1>7, <2>2
  <2> QED BY <1>1, <1>5, <2>1, <2>3 DEF EncType, AggType
<1> QED BY <1>3, <1>6, <1>7

\* Every step, on the variables of PlateEncounters.
LEMMA PipeStepType ==
  ASSUME Typed, [RetentionNext]_<<vars, retention>>
  PROVE  EncType' /\ AggType' /\ CorrType'
<1> USE DEF Typed
<1>1. CASE Encounters
  BY <1>1, SourcesType, AggregatorType, ReceiveType, CorrStepType
     DEF Encounters, Pipeline, CorrType
<1>2. CASE TakeUpdate
  <2>1. /\ UNCHANGED <<plate, enc, completions, held, agg, corr>>
        /\ updates # <<>> /\ updates' = Tail(updates)
    BY <1>2 DEF TakeUpdate, rows, aggregate
  <2>2. updates' \in Seq(SUBSET Plates) /\ Len(updates') <= UpdateCap
    <3>1. /\ updates \in Seq(SUBSET Plates) /\ Len(updates) <= UpdateCap
          /\ UpdateCap \in Nat
      BY EncountersAssumption DEF AggType
    <3>2. /\ Tail(updates) \in Seq(SUBSET Plates) /\ Len(Tail(updates)) <= Len(updates)
          /\ Len(updates) \in Nat /\ Len(Tail(updates)) \in Nat
      BY <2>1, <3>1, ChannelOps, HeadTailProperties, LenProperties
    <3> QED BY <2>1, <3>1, <3>2
  <2> QED BY <2>1, <2>2 DEF EncType, AggType, CorrType
<1>3. CASE Heuristic /\ ~TakeUpdate
  <2>1. UNCHANGED <<plate, enc, completions, held, agg, updates, corr>>
    BY <1>3 DEF Heuristic, WorkerBegins, ApiBegins, Begin, EvalStep, ReadRow, WriteRow,
                EmitAlert, encVars, pipe, rows, aggregate
  <2> QED BY <2>1 DEF EncType, AggType, CorrType
<1>4. CASE Operator
  <2>1. ASSUME NEW h \in Handlers,
               \/ \E d \in Dets, q \in Plates : EditDetection(h, d, q)
               \/ \E p, q \in Plates : MergeRoutes(h, p, q)
               \/ MergeRows(h) \/ MergeTx(h)
        PROVE  EncType' /\ AggType' /\ CorrType'
    BY <2>1, LoadType, MergeTxType
  <2>2. ASSUME \/ \E p \in Plates : \/ AddWhitelist(p) \/ RemoveRead(p)
                                    \/ AckAlert(p) \/ UnackAlert(p)
               \/ RemoveRow \/ Reevaluate
        PROVE  UNCHANGED <<plate, enc, completions, held, agg, updates, corr>>
    BY <2>2 DEF AddWhitelist, RemoveRead, AckAlert, UnackAlert, Acknowledge, RemoveRow,
                Reevaluate, encVars, pipe, rows, aggregate
  <2> QED BY <1>4, <2>1, <2>2 DEF Operator, EncType, AggType, CorrType
<1>5. CASE Notify
  <2>1. UNCHANGED <<plate, enc, completions, held, agg, updates, corr>>
    BY <1>5 DEF Notify, TakeAlert, CheckDedup, Send, Record, WindowEnds, encVars, pipe,
                rows, aggregate
  <2> QED BY <2>1 DEF EncType, AggType, CorrType
<1>6. CASE Restart
  <2>1. /\ UNCHANGED <<plate, enc>> /\ completions' = <<>> /\ held' = NoRoute
        /\ agg' = [w \in AggSlots |-> AggIdle] /\ updates' = <<>>
        /\ corr' = [h \in Handlers |-> CorrIdle]
    BY <1>6 DEF Restart, rows
  <2>2. CompletionCap \in Nat /\ UpdateCap \in Nat
    BY EncountersAssumption
  <2>3. EncType'
    BY <2>1, <2>2, EmptyChannel DEF EncType
  <2>4. agg' = [w \in AggSlots |-> agg'[w]] /\ \A w \in AggSlots : agg'[w] = AggIdle
    BY <2>1
  <2>5. updates' \in Seq(SUBSET Plates) /\ Len(updates') <= UpdateCap
    BY <2>1, <2>2, EmptyChannel
  <2>6. AggOK(AggIdle)
    BY DEF AggOK, AggIdle, EncOK
  <2>7. AggType'
    BY <2>4, <2>5, <2>6 DEF AggType, AggOK
  <2>8. CorrType'
    BY <2>1, Idle DEF CorrType
  <2> QED BY <2>3, <2>7, <2>8
<1>7. CASE SweepDetections
  <2>1. UNCHANGED <<enc, completions, held, agg, updates, corr>>
    BY <1>7 DEF SweepDetections, ListFlagged, DeleteUnflagged, DeleteFlagged, Delete,
                pipe, aggregate
  <2>2. plate' = plate \/ \E D : plate' = [d \in Dets |-> IF d \in D THEN Pruned ELSE plate[d]]
    BY <1>7 DEF SweepDetections, ListFlagged, DeleteUnflagged, DeleteFlagged, Delete,
                pipe, rows
  <2>3. plate' \in [Dets -> Plates \cup {NoPlate, Pruned}]
    BY <2>2 DEF EncType
  <2> QED BY <2>1, <2>3 DEF EncType, AggType, CorrType
<1>8. CASE DeleteOrphans
  <2>1. /\ UNCHANGED <<plate, completions, held, agg, updates, corr>>
        /\ enc' = enc \/ enc' = [r \in Routes |-> {e \in enc[r] : Shown(e)}]
    BY <1>8 DEF DeleteOrphans, rows
  <2>2. enc' = [r \in Routes |-> enc'[r]] /\ \A r \in Routes : enc'[r] \subseteq enc[r]
    BY <2>1 DEF EncType
  <2>3. EncType'
    BY <2>1, <2>2 DEF EncType, EncOK
  <2> QED BY <2>1, <2>3 DEF AggType, CorrType
<1>9. CASE UNCHANGED <<vars, retention>>
  <2>1. UNCHANGED <<plate, enc, completions, held, agg, updates, corr>>
    BY <1>9 DEF vars, encVars, pipe, rows, aggregate
  <2> QED BY <2>1 DEF EncType, AggType, CorrType
<1> QED BY Steps, <1>1, <1>2, <1>3, <1>4, <1>5, <1>6, <1>7, <1>8, <1>9 DEF Heuristic

-----------------------------------------------------------------------------
(* The heuristic and the watchlist. *)

\* What the upserts and the merge write are rows.
LEMMA RowRecords ==
  ASSUME NEW r \in Rows, NEW a \in Rows, NEW b \in Rows, NEW n \in 0..5
  PROVE  /\ Higher(a.sev, b.sev) \in 0..5
         /\ Higher(a.sev, b.sev) >= a.sev /\ Higher(a.sev, b.sev) >= b.sev
         /\ Alerted(r, n) \in Rows /\ PreserveAck(r, n) \in Rows
         /\ MergedRow(r, a, b) \in Rows
<1>1. a.sev \in 0..5 /\ b.sev \in 0..5 /\ r.sev \in 0..5
  BY DEF Rows
<1>2. \A x, y \in 0..5 : Higher(x, y) \in 0..5 /\ Higher(x, y) >= x /\ Higher(x, y) >= y
  BY DEF Higher
<1> QED BY <1>1, <1>2 DEF Rows, Alerted, PreserveAck, MergedRow

\* Marking evaluations as late changes nothing else of them.
LEMMA LateFacts ==
  ASSUME EvalType, NEW p
  PROVE  /\ Late(p) \in [Evaluators -> EvalRec]
         /\ \A e \in Evaluators :
              /\ Late(p)[e].pc = eval[e].pc /\ Late(p)[e].plate = eval[e].plate
              /\ Late(p)[e].sev = eval[e].sev /\ Late(p)[e].row = eval[e].row
              /\ eval[e].late => Late(p)[e].late
              /\ eval[e].plate = p /\ eval[e].pc = "write" => Late(p)[e].late
<1> DEFINE Mark(e) == [eval[e] EXCEPT !.late = TRUE]
           hit(e) == eval[e].plate = p /\ eval[e].pc = "write"
<1>1. \A e \in Evaluators :
         /\ Mark(e) \in EvalRec /\ Mark(e).late
         /\ Mark(e).pc = eval[e].pc /\ Mark(e).plate = eval[e].plate
         /\ Mark(e).sev = eval[e].sev /\ Mark(e).row = eval[e].row
  BY DEF EvalType, EvalRec
<1>2. Late(p) = [e \in Evaluators |-> IF hit(e) THEN Mark(e) ELSE eval[e]]
  BY DEF Late
<1> HIDE DEF Mark
<1>3. \A e \in Evaluators : Late(p)[e] = IF hit(e) THEN Mark(e) ELSE eval[e]
  BY <1>2
<1>4. Late(p) \in [Evaluators -> EvalRec]
  BY <1>1, <1>2 DEF EvalType
<1> QED BY <1>1, <1>3, <1>4

\* The rows after a merge: only those of the two plates change, the first
\* goes unless nothing was read of it.
LEMMA MergedFacts ==
  ASSUME CorrType, RowType, NEW h \in Handlers, corr[h].pc = "merge"
  PROVE  LET p == corr[h].from  q == corr[h].to  W == MergedWatchlist(h) IN
         /\ p \in Plates /\ q \in Plates /\ p # q
         /\ mrows[h][1] \in Rows /\ mrows[h][2] \in Rows
         /\ W \in [Plates -> Rows]
         /\ \A x \in Plates : x # p /\ x # q => W[x] = wl[x]
         /\ \/ W = wl
            \/ /\ W[p] = NoRow
               /\ \/ mrows[h][2] = NoRow /\ mrows[h][1] # NoRow /\ wl[p] = NoRow /\ W[q] = wl[q]
                  \/ mrows[h][2] = NoRow /\ mrows[h][1] # NoRow /\ wl[p] # NoRow /\ W[q] = wl[p]
                  \/ W[q] = NoRow /\ wl[q] = NoRow
                  \/ W[q] = MergedRow(wl[q], mrows[h][1], mrows[h][2])
<1> DEFINE p == corr[h].from
           q == corr[h].to
           f == mrows[h][1]
           t == mrows[h][2]
           W == MergedWatchlist(h)
           m == MergedRow(wl[q], f, t)
<1>1. p \in Plates /\ q \in Plates /\ p # q
  BY DEF CorrType, CorrOK
<1>2. /\ f \in Rows /\ t \in Rows /\ NoRow \in Rows
      /\ wl \in [Plates -> Rows]
  BY Idle DEF RowType
<1>3. m \in Rows
  <2>1. wl[q] \in Rows /\ 0 \in 0..5
    BY <1>1, <1>2
  <2> QED BY ONLY <1>2, <2>1, RowRecords
<1>4. W = IF f = NoRow THEN wl
          ELSE IF t = NoRow
          THEN [wl EXCEPT ![q] = IF wl[p] = NoRow THEN @ ELSE wl[p], ![p] = NoRow]
          ELSE [wl EXCEPT ![q] = IF @ = NoRow THEN @ ELSE m, ![p] = NoRow]
  BY DEF MergedWatchlist
<1> HIDE DEF W, m
<1>5. W \in [Plates -> Rows]
  BY <1>1, <1>2, <1>3, <1>4
<1>6. \A x \in Plates : x # p /\ x # q => W[x] = wl[x]
  BY <1>1, <1>2, <1>4
<1>7. \/ W = wl
      \/ /\ W[p] = NoRow
         /\ \/ t = NoRow /\ f # NoRow /\ wl[p] = NoRow /\ W[q] = wl[q]
            \/ t = NoRow /\ f # NoRow /\ wl[p] # NoRow /\ W[q] = wl[p]
            \/ W[q] = NoRow /\ wl[q] = NoRow
            \/ W[q] = m
  BY <1>1, <1>2, <1>4
<1> QED BY <1>1, <1>2, <1>5, <1>6, <1>7 DEF W, m

\* Replacing one evaluation.
EvalOK(v) == v.pc # "idle" => v.plate \in Plates

LEMMA EvalUpdate ==
  ASSUME EvalType, NEW e \in Evaluators, NEW new \in EvalRec, EvalOK(new),
         eval' = [eval EXCEPT ![e] = new]
  PROVE  /\ eval' \in [Evaluators -> EvalRec]
         /\ \A x \in Evaluators : eval'[x].pc # "idle" => eval'[x].plate \in Plates
         /\ \A x \in Evaluators : eval'[x] = IF x = e THEN new ELSE eval[x]
<1>1. /\ eval' \in [Evaluators -> EvalRec]
      /\ \A x \in Evaluators : eval'[x] = IF x = e THEN new ELSE eval[x]
  BY DEF EvalType
<1> QED BY <1>1 DEF EvalType, EvalOK

LEMMA IdleEval == EvalIdle \in EvalRec /\ EvalOK(EvalIdle)
BY Idle DEF EvalOK, EvalIdle

\* An evaluation begins.
LEMMA BeginType ==
  ASSUME EvalType, NEW e \in Evaluators, NEW p \in Plates, Begin(e, p)
  PROVE  /\ eval' \in [Evaluators -> EvalRec]
         /\ \A x \in Evaluators : eval'[x].pc # "idle" => eval'[x].plate \in Plates
         /\ \A x \in Evaluators : eval'[x] = eval[x] \/ eval'[x].pc = "read"
<1> DEFINE new == [pc |-> "read", plate |-> p, sev |-> ScoreOf(EncountersWith(p), FALSE),
                   row |-> NoRow, late |-> FALSE]
<1>1. eval' = [eval EXCEPT ![e] = new] \/ eval' = eval
  BY DEF Begin
<1>2. new \in EvalRec /\ EvalOK(new) /\ new.pc = "read"
  BY ScoreRange, Idle DEF EvalRec, EvalOK
<1> HIDE DEF new
<1> QED BY <1>1, <1>2, EvalUpdate DEF EvalType

\* ... reads its row, writes it, and is over.
LEMMA EvalStepFacts ==
  ASSUME EvalType, RowType, NEW e \in Evaluators, EvalStep(e)
  PROVE  /\ UNCHANGED <<todo, queue, seen, mrows, unlist>>
         /\ eval[e].pc # "idle" /\ eval[e].plate \in Plates
         /\ \E new \in EvalRec :
              /\ eval' = [eval EXCEPT ![e] = new] /\ EvalOK(new)
              /\ new.pc = "write" =>
                   /\ ReadRow(e) /\ eval[e].pc = "read"
                   /\ new.plate = eval[e].plate /\ new.sev = eval[e].sev
                   /\ new.row = wl[new.plate] /\ wl[new.plate].kind # "whitelist"
<1>1. UNCHANGED <<todo, queue, seen, mrows, unlist>> /\ eval[e].pc # "idle"
  BY DEF EvalStep, ReadRow, WriteRow, EmitAlert, operator, ghosts
<1>2. eval[e] \in EvalRec /\ eval[e].plate \in Plates
  BY <1>1 DEF EvalType
<1>3. CASE eval' = [eval EXCEPT ![e] = EvalIdle]
  BY <1>1, <1>2, <1>3, IdleEval DEF EvalIdle
<1>4. CASE ReadRow(e) /\ eval' # [eval EXCEPT ![e] = EvalIdle]
  <2> DEFINE row == wl[eval[e].plate]
             new == [eval[e] EXCEPT !.pc = "write", !.row = row]
  <2>1. eval[e].pc = "read" /\ row.kind # "whitelist" /\ row \in Rows
    BY <1>2, <1>4 DEF ReadRow, Return, Fail, RowType
  <2>2. eval' = [eval EXCEPT ![e].pc = "write", ![e].row = row]
    BY <1>4 DEF ReadRow, Return, Fail
  <2>3. /\ new \in EvalRec /\ EvalOK(new) /\ new.pc = "write"
        /\ new.plate = eval[e].plate /\ new.sev = eval[e].sev /\ new.row = row
    BY <1>2, <2>1 DEF EvalRec, EvalOK
  <2>4. eval' = [eval EXCEPT ![e] = new]
    BY <1>2, <2>2 DEF EvalType
  <2> HIDE DEF new
  <2> QED BY <1>1, <1>2, <1>4, <2>1, <2>3, <2>4
<1>5. CASE WriteRow(e) /\ eval' # [eval EXCEPT ![e] = EvalIdle]
  <2> DEFINE new == [eval[e] EXCEPT !.pc = "emit"]
  <2>1. eval' = [eval EXCEPT ![e] = new]
    BY <1>5 DEF WriteRow, Return, Fail
  <2>2. new \in EvalRec /\ EvalOK(new) /\ new.pc = "emit"
    BY <1>2 DEF EvalRec, EvalOK
  <2> HIDE DEF new
  <2> QED BY <1>1, <1>2, <2>1, <2>2
<1>6. EmitAlert(e) => eval' = [eval EXCEPT ![e] = EvalIdle]
  BY DEF EmitAlert, Return
<1> QED BY <1>3, <1>4, <1>5, <1>6 DEF EvalStep

\* Every step, on the evaluations.
LEMMA EvalStepType ==
  ASSUME Typed, [RetentionNext]_<<vars, retention>>
  PROVE  EvalType'
<1> USE DEF Typed
<1>1. CASE Encounters \/ Notify \/ SweepDetections \/ DeleteOrphans
           \/ UNCHANGED <<vars, retention>>
  <2>1. UNCHANGED <<todo, eval, queue>>
    BY <1>1 DEF Encounters, Notify, TakeAlert, CheckDedup, Send, Record, WindowEnds,
                SweepDetections, ListFlagged, DeleteUnflagged, DeleteFlagged, Delete,
                DeleteOrphans, vars, heuristic
  <2> QED BY <2>1 DEF EvalType
<1>2. CASE TakeUpdate
  <2>1. /\ updates # <<>> /\ updates \in Seq(SUBSET Plates) /\ UNCHANGED <<eval, queue>>
        /\ todo' \in {todo, Head(updates)}
    BY <1>2 DEF TakeUpdate, AggType
  <2>2. Head(updates) \subseteq Plates
    BY <2>1, HeadTailProperties
  <2> QED BY <2>1, <2>2 DEF EvalType
<1>3. ASSUME NEW e \in EvalSlots, NEW p \in todo, WorkerBegins(e, p) PROVE EvalType'
  <2>1. e \in Evaluators /\ p \in Plates /\ todo' \subseteq Plates /\ queue' = queue
    BY <1>3 DEF WorkerBegins, Evaluators, EvalType
  <2>2. Begin(e, p)
    BY <1>3 DEF WorkerBegins
  <2> QED BY <2>1, <2>2, BeginType DEF EvalType
<1>4. ASSUME NEW p \in queue, ApiBegins(p) PROVE EvalType'
  <2>1. Api \in Evaluators /\ p \in Plates /\ queue' \subseteq Plates /\ todo' = todo
    BY <1>4 DEF ApiBegins, Evaluators, EvalType
  <2>2. Begin(Api, p)
    BY <1>4 DEF ApiBegins
  <2> QED BY <2>1, <2>2, BeginType DEF EvalType
<1>5. ASSUME NEW e \in Evaluators, EvalStep(e) PROVE EvalType'
  <2>1. UNCHANGED <<todo, queue>>
    BY <1>5, EvalStepFacts
  <2>2. PICK new \in EvalRec : eval' = [eval EXCEPT ![e] = new] /\ EvalOK(new)
    BY <1>5, EvalStepFacts
  <2> QED BY <2>1, <2>2, EvalUpdate DEF EvalType
<1>6. CASE Operator
  <2>1. ASSUME (eval' = eval \/ \E p : eval' = Late(p)), todo' = todo,
               queue' \subseteq Plates
        PROVE  EvalType'
    BY <2>1, LateFacts DEF EvalType
  <2>2. queue' \subseteq Plates
    <3>1. queue' = queue \/ queue' = UNION {PlatesIn(enc[r]) : r \in Routes}
      BY <1>6 DEF Operator, AddWhitelist, RemoveRead, AckAlert, UnackAlert, Acknowledge,
                  RemoveRow, Reevaluate, EditDetection, MergeRoutes, MergeRows, MergeTx,
                  heuristic
    <3>2. \A r \in Routes : PlatesIn(enc[r]) \subseteq Plates
      BY DEF PlatesIn, EncType, EncOK
    <3> QED BY <3>1, <3>2 DEF EvalType
  <2>3. todo' = todo
    BY <1>6 DEF Operator, AddWhitelist, RemoveRead, AckAlert, UnackAlert, Acknowledge,
                RemoveRow, Reevaluate, EditDetection, MergeRoutes, MergeRows, MergeTx,
                heuristic
  <2>4. eval' = eval \/ \E p : eval' = Late(p)
    BY <1>6 DEF Operator, AddWhitelist, RemoveRead, AckAlert, UnackAlert, Acknowledge,
                RemoveRow, Reevaluate, EditDetection, MergeRoutes, MergeRows, MergeTx,
                heuristic
  <2> QED BY <2>1, <2>2, <2>3, <2>4
<1>7. CASE Restart
  <2>1. todo' = {} /\ queue' = {} /\ eval' = [e \in Evaluators |-> EvalIdle]
    BY <1>7 DEF Restart
  <2> QED BY <2>1, IdleEval DEF EvalType, EvalOK
<1> QED BY Steps, <1>1, <1>2, <1>3, <1>4, <1>5, <1>6, <1>7 DEF Heuristic

\* What an evaluation writes.
LEMMA WriteFacts ==
  ASSUME EvalType, RowType, NEW e \in Evaluators, WriteRow(e), wl' # wl
  PROVE  LET p == eval[e].plate
             new == IF Increased(e) THEN Alerted(wl[p], eval[e].sev)
                    ELSE PreserveAck(wl[p], eval[e].sev)
         IN  /\ p \in Plates /\ eval[e].pc = "write" /\ eval[e].sev \in 0..5
             /\ new \in Rows /\ wl' = [wl EXCEPT ![p] = new]
             /\ lowered' = lowered \cup Lowers(p, new)
<1> DEFINE p == eval[e].plate
<1>1. p \in Plates /\ eval[e].sev \in 0..5 /\ wl[p] \in Rows /\ eval[e].pc = "write"
  BY DEF WriteRow, EvalType, EvalRec, RowType
<1>2. Alerted(wl[p], eval[e].sev) \in Rows /\ PreserveAck(wl[p], eval[e].sev) \in Rows
  BY ONLY <1>1, RowRecords
<1> QED BY <1>1, <1>2 DEF WriteRow

\* Every step, on the rows.
LEMMA RowStepType ==
  ASSUME Typed, [RetentionNext]_<<vars, retention>>
  PROVE  RowType'
<1> USE DEF Typed
<1>0. \A a, b \in 0..5 : Higher(a, b) \in 0..5
  BY DEF Higher
<1>1. \A p \in Plates : wl[p] \in Rows /\ wl[p].sev \in 0..5 /\ seen[p] \in 0..5
  BY DEF RowType, Rows
<1>2. CASE Encounters \/ Notify \/ SweepDetections \/ DeleteOrphans
           \/ UNCHANGED <<vars, retention>>
  <2>1. UNCHANGED <<wl, seen, mrows, unlist>>
    BY <1>2 DEF Encounters, Notify, TakeAlert, CheckDedup, Send, Record, WindowEnds,
                SweepDetections, ListFlagged, DeleteUnflagged, DeleteFlagged, Delete,
                DeleteOrphans, vars, operator, ghosts
  <2> QED BY <2>1 DEF RowType
<1>3. CASE Heuristic
  <2>1. UNCHANGED <<seen, mrows, unlist>>
    BY <1>3 DEF Heuristic, TakeUpdate, WorkerBegins, ApiBegins, Begin, EvalStep, ReadRow,
                WriteRow, EmitAlert, operator, ghosts
  <2>2. wl' = wl \/ \E e \in Evaluators : WriteRow(e)
    BY <1>3 DEF Heuristic, TakeUpdate, WorkerBegins, ApiBegins, Begin, EvalStep, ReadRow,
                EmitAlert
  <2>3. wl' \in [Plates -> Rows]
    BY <2>2, WriteFacts DEF RowType
  <2> QED BY <2>1, <2>3 DEF RowType
<1>4. CASE Restart
  <2>1. UNCHANGED <<wl, seen>> /\ unlist' = NoPlate
        /\ mrows' = [h \in Handlers |-> <<NoRow, NoRow>>]
    BY <1>4 DEF Restart
  <2> QED BY <2>1, Idle DEF RowType
<1>5. ASSUME NEW p \in Plates, AddWhitelist(p) PROVE RowType'
  <2> DEFINE new == [kind |-> "whitelist", sev |-> 0, acked |-> FALSE]
  <2>1. /\ wl' = [wl EXCEPT ![p] = new] /\ UNCHANGED <<mrows, unlist>>
        /\ seen' = [seen EXCEPT ![p] = Higher(seen[p], wl[p].sev)]
    BY <1>5 DEF AddWhitelist
  <2>2. new \in Rows
    BY DEF Rows
  <2> HIDE DEF new
  <2> QED BY <1>0, <1>1, <2>1, <2>2 DEF RowType
<1>6. ASSUME NEW p \in Plates, RemoveRead(p) PROVE RowType'
  BY <1>6 DEF RemoveRead, RowType, ghosts
<1>7. CASE RemoveRow
  <2>1. wl' = [wl EXCEPT ![unlist] = NoRow] /\ unlist' = NoPlate /\ UNCHANGED <<mrows, seen>>
    BY <1>7 DEF RemoveRow
  <2> QED BY <2>1, Idle DEF RowType
<1>8. ASSUME NEW p \in Plates, NEW op, NEW acked \in BOOLEAN, Acknowledge(p, op, acked)
      PROVE  RowType'
  <2> DEFINE new == [wl[p] EXCEPT !.acked = acked]
  <2>1. /\ UNCHANGED <<mrows, unlist>>
        /\ wl' = wl \/ wl' = [wl EXCEPT ![p] = new]
        /\ seen' = seen \/ seen' = [seen EXCEPT ![p] = Higher(seen[p], wl[p].sev)]
    BY <1>8 DEF Acknowledge, RowType
  <2>2. new \in Rows
    BY <1>1 DEF Rows
  <2> HIDE DEF new
  <2> QED BY <1>0, <1>1, <2>1, <2>2 DEF RowType
<1>9. CASE Reevaluate \/ \E h \in Handlers :
             \/ \E d \in Dets, q \in Plates : EditDetection(h, d, q)
             \/ \E p, q \in Plates : MergeRoutes(h, p, q)
  <2>1. UNCHANGED <<wl, seen, mrows, unlist>>
    BY <1>9 DEF Reevaluate, EditDetection, MergeRoutes, ghosts
  <2> QED BY <2>1 DEF RowType
<1>10. ASSUME NEW h \in Handlers, MergeRows(h) PROVE RowType'
  <2>1. /\ UNCHANGED <<wl, seen, unlist>>
        /\ mrows' = mrows
           \/ mrows' = [mrows EXCEPT ![h] = <<wl[corr[h].from], wl[corr[h].to]>>]
        /\ corr[h].pc = "rows"
    BY <1>10 DEF MergeRows, ghosts
  <2>2. corr[h].from \in Plates /\ corr[h].to \in Plates
    BY <2>1 DEF CorrType, CorrOK
  <2> QED BY <1>1, <2>1, <2>2 DEF RowType
<1>11. ASSUME NEW h \in Handlers, MergeTx(h) PROVE RowType'
  <2> DEFINE p == corr[h].from
             q == corr[h].to
  <2>1. /\ corr[h].pc = "merge" /\ unlist' = unlist
        /\ mrows' = [mrows EXCEPT ![h] = <<NoRow, NoRow>>]
        /\ \/ wl' = MergedWatchlist(h) /\ seen' = [seen EXCEPT ![q] = Higher(seen[q], seen[p])]
           \/ UNCHANGED <<wl, seen>>
    BY <1>11 DEF MergeTx
  <2>2. p \in Plates /\ q \in Plates /\ MergedWatchlist(h) \in [Plates -> Rows]
    BY <2>1, MergedFacts
  <2> HIDE DEF p, q
  <2> QED BY <1>0, <1>1, <2>1, <2>2, Idle DEF RowType
<1>12. CASE Operator
  BY <1>12, <1>5, <1>6, <1>7, <1>8, <1>9, <1>10, <1>11 DEF Operator, AckAlert, UnackAlert
<1> QED BY Steps, <1>2, <1>3, <1>4, <1>12

-----------------------------------------------------------------------------
(* The notifications and the retention. *)

\* The steps that leave the dispatcher and its ledger alone.
LEMMA NotNotify ==
  ASSUME [RetentionNext]_<<vars, retention>>, ~Notify, ~Restart
  PROVE  /\ UNCHANGED <<disp, ledger, sent, twice>>
         /\ (~\E e \in Evaluators : EmitAlert(e)) => alerts' = alerts
<1>1. ASSUME NEW e \in Evaluators, EmitAlert(e)
      PROVE  UNCHANGED <<disp, ledger, sent, twice>>
  BY <1>1 DEF EmitAlert
<1>2. CASE Heuristic /\ ~\E e \in Evaluators : EmitAlert(e)
  BY <1>2 DEF Heuristic, TakeUpdate, WorkerBegins, ApiBegins, Begin, EvalStep, ReadRow,
              WriteRow, notify
<1>3. CASE Operator
  BY <1>3 DEF Operator, AddWhitelist, RemoveRead, AckAlert, UnackAlert, Acknowledge,
              RemoveRow, Reevaluate, EditDetection, MergeRoutes, MergeRows, MergeTx, notify
<1>4. CASE Encounters \/ SweepDetections \/ DeleteOrphans \/ UNCHANGED <<vars, retention>>
  BY <1>4 DEF Encounters, SweepDetections, ListFlagged, DeleteUnflagged, DeleteFlagged,
              Delete, DeleteOrphans, vars, notify
<1> QED BY Steps, <1>1, <1>2, <1>3, <1>4

\* Every step, on the notifications.
LEMMA NotifyStepType ==
  ASSUME Typed, [RetentionNext]_<<vars, retention>>
  PROVE  NotifyType'
<1> USE DEF Typed
<1>1. /\ alerts \in Seq(Plates \X (0..5)) /\ Len(alerts) <= AlertCap /\ AlertCap \in Nat
      /\ Len(alerts) \in Nat /\ disp \in DispRec
  BY AlertsAssumption, LenProperties DEF NotifyType
<1>2. ASSUME NEW e \in Evaluators, EmitAlert(e) PROVE NotifyType'
  <2>1. <<eval[e].plate, eval[e].sev>> \in Plates \X (0..5)
    BY <1>2 DEF EmitAlert, EvalType, EvalRec
  <2> DEFINE a == <<eval[e].plate, eval[e].sev>>
  <2>2. /\ \/ alerts' = alerts
           \/ Len(alerts) < AlertCap /\ alerts' = Append(alerts, a)
        /\ disp' = disp
    BY <1>2 DEF EmitAlert
  <2> HIDE DEF a
  <2>3. /\ Append(alerts, a) \in Seq(Plates \X (0..5))
        /\ Len(Append(alerts, a)) = Len(alerts) + 1
    BY <1>1, <2>1, AppendProperties DEF a
  <2>4. alerts' \in Seq(Plates \X (0..5)) /\ Len(alerts') <= AlertCap
    BY <1>1, <2>2, <2>3
  <2> QED BY <2>2, <2>4 DEF NotifyType
<1>3. CASE TakeAlert
  <2>1. /\ alerts # <<>> /\ alerts' = Tail(alerts)
        /\ \/ disp' = DispIdle
           \/ disp' = [pc |-> "dedup", plate |-> Head(alerts)[1], blind |-> FALSE]
    BY <1>3 DEF TakeAlert
  <2>2. /\ Head(alerts) \in Plates \X (0..5) /\ Tail(alerts) \in Seq(Plates \X (0..5))
        /\ Len(Tail(alerts)) = Len(alerts) - 1
    BY <1>1, <2>1, HeadTailProperties
  <2>3. alerts' \in Seq(Plates \X (0..5)) /\ Len(alerts') <= AlertCap
    BY <1>1, <2>1, <2>2
  <2>4. disp' \in DispRec /\ (disp'.pc # "idle" => disp'.plate \in Plates)
    <3> DEFINE new == [pc |-> "dedup", plate |-> Head(alerts)[1], blind |-> FALSE]
    <3>1. Head(alerts)[1] \in Plates
      BY <2>2
    <3>2. new \in DispRec /\ new.plate \in Plates
      BY <3>1 DEF DispRec
    <3>3. DispIdle \in DispRec /\ DispIdle.pc = "idle"
      BY Idle DEF DispIdle
    <3>4. disp' = DispIdle \/ disp' = new
      BY <2>1
    <3> HIDE DEF new
    <3> QED BY ONLY <3>2, <3>3, <3>4
  <2> QED BY <2>3, <2>4 DEF NotifyType
<1>4. CASE CheckDedup \/ Send \/ Record
  <2>1. /\ alerts' = alerts /\ disp.pc # "idle"
        /\ \/ disp' = DispIdle
           \/ disp' = [disp EXCEPT !.pc = "send"] \/ disp' = [disp EXCEPT !.pc = "record"]
           \/ disp' = [disp EXCEPT !.pc = "send", !.blind = TRUE]
    BY <1>4 DEF CheckDedup, Send, Record, DispTo
  <2>2. disp' \in DispRec /\ (disp'.pc # "idle" => disp'.plate \in Plates)
    BY <1>1, <2>1, Idle DEF DispRec, DispIdle, NotifyType
  <2> QED BY <2>1, <2>2 DEF NotifyType
<1>5. ASSUME NEW p \in Plates, WindowEnds(p) PROVE NotifyType'
  BY <1>5 DEF WindowEnds, NotifyType
<1>6. CASE Restart
  <2>1. alerts' = <<>> /\ disp' = DispIdle
    BY <1>6 DEF Restart
  <2> QED BY <1>1, <2>1, Idle, EmptyChannel DEF NotifyType, DispIdle
<1>7. CASE ~Notify /\ ~Restart /\ ~\E e \in Evaluators : EmitAlert(e)
  BY <1>7, NotNotify DEF NotifyType
<1> QED BY <1>2, <1>3, <1>4, <1>5, <1>6, <1>7 DEF Notify

\* ... and on the retention.
LEMMA SweepStepType ==
  ASSUME Typed, [RetentionNext]_<<vars, retention>>
  PROVE  SweepType'
<1> USE DEF Typed, SweepType
<1>1. swept' \subseteq Routes
  BY DEF RetentionNext, DeleteOrphans, retention
<1>2. \/ sweep' = sweep \/ sweep' = SweepIdle
      \/ sweep' = [pc |-> "unflagged", flagged |-> Flagged]
      \/ sweep' = [sweep EXCEPT !.pc = "ceiling"] \/ sweep' = [sweep EXCEPT !.pc = "orphans"]
  BY DEF RetentionNext, SweepDetections, ListFlagged, DeleteUnflagged, DeleteFlagged, Delete,
         DeleteOrphans, retention
<1>3. Flagged \subseteq Plates
  BY DEF Flagged
<1> QED BY <1>1, <1>2, <1>3 DEF SweepIdle

LEMMA TypedNext ==
  ASSUME Typed, [RetentionNext]_<<vars, retention>>
  PROVE  Typed'
BY PipeStepType, EvalStepType, RowStepType, NotifyStepType, SweepStepType DEF Typed

\* The tables' columns and the locals of every pass, evaluation, request and
\* dispatch keep to their types, the slots and channels to their capacity.
THEOREM AlertsType == RetentionSpec => []RetentionTypeOK
<1>1. Typed /\ [RetentionNext]_<<vars, retention>> => Typed'
  BY TypedNext
<1> QED BY <1>1, TypedInit, TypedIsTypeOK, PTL DEF RetentionSpec

-----------------------------------------------------------------------------
(* One notification per window. *)

LEMMA LedgerNext ==
  ASSUME Typed, LedgerExact, [RetentionNext]_<<vars, retention>>
  PROVE  LedgerExact'
<1> USE DEF LedgerExact
<1>0. disp \in DispRec /\ DispIdle.pc = "idle"
  BY DEF Typed, NotifyType, DispIdle
<1>1. CASE ~Notify /\ ~Restart
  BY <1>1, NotNotify
<1>2. CASE Restart
  <2>1. /\ disp' = DispIdle /\ UNCHANGED <<ledger, twice>>
        /\ sent' = IF disp.pc = "record" THEN sent \ {disp.plate} ELSE sent
    BY <1>2 DEF Restart
  <2> QED BY <1>0, <2>1
<1>3. CASE TakeAlert
  <2>1. /\ disp.pc = "idle" /\ disp'.pc \in {"idle", "dedup"}
        /\ UNCHANGED <<ledger, sent, twice>>
    BY <1>0, <1>3 DEF TakeAlert
  <2> QED BY <2>1
\* What the ledger does not have was not sent: nothing is being recorded.
<1>4. CASE CheckDedup
  <2>1. disp.pc = "dedup" /\ UNCHANGED <<ledger, sent, twice>>
    BY <1>4 DEF CheckDedup
  <2>2. \A p \in sent : p \in ledger
    BY <2>1
  <2>3. \/ disp' = DispIdle
        \/ disp.plate \notin ledger /\ disp' = [disp EXCEPT !.pc = "send"]
        \/ disp' = [disp EXCEPT !.pc = "send", !.blind = TRUE]
    BY <1>4 DEF CheckDedup, DispTo
  <2> QED BY <1>0, <2>1, <2>2, <2>3 DEF DispRec
\* Unless it was blind it sends what was not sent before.
<1>5. CASE Send
  <2>1. disp.pc = "send" /\ ledger' = ledger
    BY <1>5 DEF Send
  <2>2. \/ disp' = DispIdle /\ UNCHANGED <<sent, twice>>
        \/ /\ disp' = [disp EXCEPT !.pc = "record"] /\ sent' = sent \cup {disp.plate}
           /\ twice' = IF disp.plate \in sent /\ ~disp.blind THEN twice \cup {disp.plate}
                       ELSE twice
    BY <1>5 DEF Send, DispTo
  <2> QED BY <1>0, <2>1, <2>2 DEF DispRec
<1>6. CASE Record
  <2>1. /\ disp.pc = "record" /\ disp' = DispIdle /\ twice' = twice
        /\ \/ ledger' = ledger \cup {disp.plate} /\ sent' = sent
           \/ ledger' = ledger /\ sent' = sent \ {disp.plate}
    BY <1>6 DEF Record
  <2> QED BY <1>0, <2>1
<1>7. ASSUME NEW p \in Plates, WindowEnds(p) PROVE LedgerExact'
  BY <1>7 DEF WindowEnds
<1> QED BY <1>1, <1>2, <1>3, <1>4, <1>5, <1>6, <1>7 DEF Notify

\* NoDuplicateNotice: whatever alerts are emitted, re-emitted and dropped,
\* and wherever the process restarts, the dispatcher notifies a plate twice
\* in one window only where it could not read or write its ledger.
THEOREM AlertsNotice == RetentionSpec => []NoDuplicateNotice
<1>1. RetentionInit => LedgerExact
  BY Idle DEF RetentionInit, AlertsInit, LedgerExact, DispIdle
<1>2. Typed /\ LedgerExact /\ [RetentionNext]_<<vars, retention>>
        => Typed' /\ LedgerExact'
  BY TypedNext, LedgerNext
<1>3. LedgerExact => NoDuplicateNotice
  BY DEF LedgerExact, NoDuplicateNotice
<1> QED BY <1>1, <1>2, <1>3, TypedInit, PTL DEF RetentionSpec

-----------------------------------------------------------------------------
(* The whitelist. *)

\* The steps that write no row.
LEMMA RowsKept ==
  ASSUME [RetentionNext]_<<vars, retention>>,
         ~\E e \in Evaluators : WriteRow(e),
         ~\E p \in Plates : AddWhitelist(p) \/ AckAlert(p) \/ UnackAlert(p),
         ~RemoveRow, ~\E h \in Handlers : MergeTx(h)
  PROVE  UNCHANGED <<wl, seen, lowered>>
<1>1. CASE Heuristic
  BY <1>1 DEF Heuristic, TakeUpdate, WorkerBegins, ApiBegins, Begin, EvalStep, ReadRow,
              EmitAlert, ghosts
<1>2. CASE Operator
  BY <1>2 DEF Operator, RemoveRead, Reevaluate, EditDetection, MergeRoutes, MergeRows, ghosts
<1>3. CASE Encounters \/ Notify \/ Restart
  BY <1>3 DEF Encounters, Notify, TakeAlert, CheckDedup, Send, Record, WindowEnds, Restart,
              ghosts
<1>4. CASE SweepDetections \/ DeleteOrphans \/ UNCHANGED <<vars, retention>>
  BY <1>4 DEF SweepDetections, ListFlagged, DeleteUnflagged, DeleteFlagged, Delete,
              DeleteOrphans, vars, ghosts
<1> QED BY Steps, <1>1, <1>2, <1>3, <1>4

\* An evaluation that is to write was to write the same before, or has just
\* read its row.
LEMMA WritersKept ==
  ASSUME Typed, [RetentionNext]_<<vars, retention>>, NEW x \in Evaluators,
         eval'[x].pc = "write"
  PROVE  /\ eval'[x].plate \in Plates
         /\ \/ /\ eval[x].pc = "write" /\ eval'[x].plate = eval[x].plate
               /\ eval'[x].sev = eval[x].sev /\ eval'[x].row = eval[x].row
               /\ eval[x].late => eval'[x].late
               /\ ~WriteRow(x)
            \/ /\ ReadRow(x)
               /\ eval'[x].row = wl[eval'[x].plate]
               /\ wl[eval'[x].plate].kind # "whitelist"
<1>1. EvalType /\ RowType /\ EvalType'
  BY EvalStepType DEF Typed
<1>2. eval'[x].plate \in Plates
  BY <1>1 DEF EvalType
<1>3. ASSUME NEW e \in Evaluators, EvalStep(e)
      PROVE  \/ eval'[x] = eval[x] /\ ~WriteRow(x)
             \/ /\ ReadRow(x)
                /\ eval'[x].row = wl[eval'[x].plate]
                /\ wl[eval'[x].plate].kind # "whitelist"
  <2>1. PICK new \in EvalRec :
          /\ eval' = [eval EXCEPT ![e] = new] /\ EvalOK(new)
          /\ new.pc = "write" =>
               /\ ReadRow(e) /\ eval[e].pc = "read"
               /\ new.row = wl[new.plate] /\ wl[new.plate].kind # "whitelist"
    BY <1>1, <1>3, EvalStepFacts
  <2>2. eval'[x] = IF x = e THEN new ELSE eval[x]
    BY <1>1, <2>1, EvalUpdate
  <2>3. CASE x = e
    BY <2>1, <2>2, <2>3
  <2>4. CASE x # e
    <3>1. WriteRow(x) => eval' = [eval EXCEPT ![x].pc = "emit"] \/ eval' = [eval EXCEPT ![x] = EvalIdle]
      BY DEF WriteRow, Return, Fail
    <3>2. WriteRow(x) => eval'[x].pc # "write"
      BY <1>1, <3>1 DEF EvalType, EvalRec, EvalIdle
    <3> QED BY <2>2, <2>4, <3>2
  <2> QED BY <2>3, <2>4
<1>4. ASSUME eval' = eval \/ \E p : eval' = Late(p)
      PROVE  /\ eval[x].pc = "write" /\ eval'[x].plate = eval[x].plate
             /\ eval'[x].sev = eval[x].sev /\ eval'[x].row = eval[x].row
             /\ eval[x].late => eval'[x].late
  BY <1>1, <1>4, LateFacts
<1>5. ASSUME NEW e \in Evaluators, NEW p \in Plates, Begin(e, p)
      PROVE  eval'[x] = eval[x]
  BY <1>1, <1>5, BeginType
<1>6. WriteRow(x) => EvalStep(x)
  BY DEF EvalStep
<1>7. CASE \E e \in Evaluators : EvalStep(e)
  BY <1>2, <1>3, <1>7
<1>8. CASE Heuristic /\ ~\E e \in Evaluators : EvalStep(e)
  <2>1. CASE TakeUpdate
    BY <2>1, <1>2, <1>6, <1>8 DEF TakeUpdate
  <2>2. ASSUME NEW e \in EvalSlots, NEW p \in todo, WorkerBegins(e, p)
        PROVE  eval'[x] = eval[x]
    BY <2>2, <1>1, <1>5 DEF WorkerBegins, Evaluators, EvalType
  <2>3. ASSUME NEW p \in queue, ApiBegins(p) PROVE eval'[x] = eval[x]
    BY <2>3, <1>1, <1>5 DEF ApiBegins, Evaluators, EvalType
  <2> QED BY <1>2, <1>6, <1>8, <2>1, <2>2, <2>3 DEF Heuristic
<1>9. CASE Operator /\ ~\E e \in Evaluators : EvalStep(e)
  <2>1. eval' = eval \/ \E p : eval' = Late(p)
    BY <1>9 DEF Operator, AddWhitelist, RemoveRead, AckAlert, UnackAlert, Acknowledge,
                RemoveRow, Reevaluate, EditDetection, MergeRoutes, MergeRows, MergeTx,
                heuristic
  <2> QED BY <1>2, <1>4, <1>6, <1>9, <2>1
<1>10. CASE Restart
  BY <1>10 DEF Restart, EvalIdle
<1>11. CASE ~(\E e \in Evaluators : EvalStep(e))
            /\ (Encounters \/ Notify \/ SweepDetections \/ DeleteOrphans
                \/ UNCHANGED <<vars, retention>>)
  <2>1. eval' = eval
    BY <1>11 DEF Encounters, Notify, TakeAlert, CheckDedup, Send, Record, WindowEnds,
                 SweepDetections, ListFlagged, DeleteUnflagged, DeleteFlagged, Delete,
                 DeleteOrphans, vars, heuristic
  <2> QED BY <1>2, <1>6, <1>11, <2>1
<1> QED BY Steps, <1>7, <1>8, <1>9, <1>10, <1>11

\* What becomes of the kind of a row.
LEMMA KindSteps ==
  ASSUME Typed, [RetentionNext]_<<vars, retention>>, NEW p \in Plates
  PROVE  \/ wl'[p].kind \in {wl[p].kind, "none"}
         \/ wl'[p].kind = "alerted" /\ \E e \in Evaluators : WriteRow(e) /\ eval[e].plate = p
         \/ /\ wl[p].kind # "whitelist" \/ wl'[p].kind # "alerted"
            /\ wl'[p].kind = "whitelist" =>
                 \A e \in Evaluators :
                   eval'[e].pc = "write" /\ eval'[e].plate = p => eval'[e].late
<1> USE DEF Typed
<1>0. NoRow.kind = "none" /\ wl \in [Plates -> Rows]
  BY DEF NoRow, RowType
<1>1. ASSUME NEW e \in Evaluators, WriteRow(e), wl' # wl
      PROVE  \/ wl'[p] = wl[p]
             \/ wl'[p].kind = "alerted" /\ eval[e].plate = p
  <2> DEFINE q == eval[e].plate
             new == IF Increased(e) THEN Alerted(wl[q], eval[e].sev)
                    ELSE PreserveAck(wl[q], eval[e].sev)
  <2>1. q \in Plates /\ wl' = [wl EXCEPT ![q] = new]
    BY <1>1, WriteFacts
  <2>2. new.kind = "alerted"
    BY DEF Alerted, PreserveAck
  <2> HIDE DEF q, new
  <2>3. wl'[p] = wl[p] \/ (p = q /\ wl'[p].kind = "alerted")
    BY <1>0, <2>1, <2>2
  <2> QED BY <2>3 DEF q
<1>2. ASSUME NEW q \in Plates, AddWhitelist(q)
      PROVE  \/ wl'[p] = wl[p]
             \/ /\ wl'[p].kind = "whitelist"
                /\ \A e \in Evaluators :
                     eval'[e].pc = "write" /\ eval'[e].plate = p => eval'[e].late
  <2>1. /\ wl' = [wl EXCEPT ![q] = [kind |-> "whitelist", sev |-> 0, acked |-> FALSE]]
        /\ eval' = Late(q)
    BY <1>2 DEF AddWhitelist
  <2>2. wl'[p] = wl[p] \/ (p = q /\ wl'[p].kind = "whitelist")
    BY <1>0, <2>1
  <2> QED BY <2>1, <2>2, LateFacts
<1>3. ASSUME NEW q \in Plates, AckAlert(q) \/ UnackAlert(q)
      PROVE  wl'[p].kind = wl[p].kind
  BY <1>0, <1>3 DEF AckAlert, UnackAlert, Acknowledge, Rows
<1>4. CASE RemoveRow
  <2>1. wl'[p] = wl[p] \/ wl'[p] = NoRow
    BY <1>0, <1>4 DEF RemoveRow
  <2> QED BY <1>0, <2>1
<1>5. ASSUME NEW h \in Handlers, MergeTx(h)
      PROVE  \/ wl'[p].kind \in {wl[p].kind, "none"}
             \/ /\ wl[p].kind # "whitelist" \/ wl'[p].kind # "alerted"
                /\ wl'[p].kind = "whitelist" =>
                     \A e \in Evaluators :
                       eval'[e].pc = "write" /\ eval'[e].plate = p => eval'[e].late
  <2> DEFINE f == corr[h].from
             q == corr[h].to
  <2>1. CASE wl' = wl
    BY <2>1
  <2>2. CASE wl' # wl
    <3>1. /\ corr[h].pc = "merge" /\ wl' = MergedWatchlist(h) /\ ~Collides(h)
          /\ wl'[q].kind = "whitelist" => eval' = Late(q)
      BY <1>5, <2>2 DEF MergeTx
    <3>2. /\ \A x \in Plates : x # f /\ x # q => wl'[x] = wl[x]
          /\ wl'[f] = NoRow
          /\ \/ mrows[h][2] = NoRow /\ mrows[h][1] # NoRow /\ wl[f] = NoRow /\ wl'[q] = wl[q]
             \/ mrows[h][2] = NoRow /\ mrows[h][1] # NoRow /\ wl[f] # NoRow /\ wl'[q] = wl[f]
             \/ wl'[q] = NoRow /\ wl[q] = NoRow
             \/ wl'[q] = MergedRow(wl[q], mrows[h][1], mrows[h][2])
      BY <2>2, <3>1, MergedFacts
    <3>3. MergedRow(wl[q], mrows[h][1], mrows[h][2]).kind = wl[q].kind
      BY DEF MergedRow
    <3>4. mrows[h][2] = NoRow /\ mrows[h][1] # NoRow /\ wl[f] # NoRow => wl[q] = NoRow
      BY <3>1 DEF Collides
    <3>5. /\ wl[q].kind # "whitelist" \/ wl'[q].kind # "alerted"
      BY <1>0, <3>2, <3>3, <3>4
    <3>6. CASE p = q
      BY <3>1, <3>5, <3>6, LateFacts
    <3>7. CASE p # q
      BY <1>0, <3>2, <3>7
    <3> QED BY <3>6, <3>7
  <2> QED BY <2>1, <2>2
<1>6. CASE \E e \in Evaluators : WriteRow(e)
  BY <1>1, <1>6
<1>7. CASE /\ ~\E e \in Evaluators : WriteRow(e)
           /\ ~\E q \in Plates : AddWhitelist(q) \/ AckAlert(q) \/ UnackAlert(q)
           /\ ~RemoveRow /\ ~\E h \in Handlers : MergeTx(h)
  BY <1>7, RowsKept
<1> QED BY <1>2, <1>3, <1>4, <1>5, <1>6, <1>7

LEMMA LateMarkedNext ==
  ASSUME Typed, LateMarked, [RetentionNext]_<<vars, retention>>
  PROVE  LateMarked'
<1> SUFFICES ASSUME NEW e \in Evaluators, eval'[e].pc = "write",
                    wl'[eval'[e].plate].kind = "whitelist"
             PROVE  eval'[e].late
  BY DEF LateMarked
<1> DEFINE p == eval'[e].plate
<1>1. p \in Plates
  BY WritersKept
<1>2. CASE wl[p].kind = "whitelist"
  <2>1. /\ eval[e].pc = "write" /\ p = eval[e].plate
        /\ eval[e].late => eval'[e].late
    BY <1>2, WritersKept
  <2> QED BY <1>2, <2>1 DEF LateMarked
<1>3. CASE wl[p].kind # "whitelist"
  BY <1>1, <1>3, KindSteps
<1> QED BY <1>2, <1>3

\* WhitelistHolds: neither a re-evaluation nor a merge, nor any number of
\* them in any order, makes an alert of a whitelisted plate: only an
\* evaluation that had read the row before it was whitelisted does.
THEOREM AlertsWhitelist == RetentionSpec => WhitelistHolds
<1>1. RetentionInit => LateMarked
  BY DEF RetentionInit, AlertsInit, LateMarked, EvalIdle
<1>2. Typed /\ LateMarked /\ [RetentionNext]_<<vars, retention>>
        => Typed' /\ LateMarked'
  BY TypedNext, LateMarkedNext
<1> DEFINE LateOnly ==
      \A p \in Plates : wl[p].kind = "whitelist" /\ wl'[p].kind = "alerted"
        => \E e \in Evaluators :
             eval[e].plate = p /\ eval[e].pc = "write" /\ eval[e].late
<1>3. Typed /\ LateMarked /\ [RetentionNext]_<<vars, retention>> => [LateOnly]_vars
  <2> SUFFICES ASSUME Typed, LateMarked, [RetentionNext]_<<vars, retention>>, NEW p \in Plates,
                      wl[p].kind = "whitelist", wl'[p].kind = "alerted"
               PROVE  \E e \in Evaluators :
                        eval[e].plate = p /\ eval[e].pc = "write" /\ eval[e].late
    OBVIOUS
  <2>1. PICK e \in Evaluators : WriteRow(e) /\ eval[e].plate = p
    BY KindSteps
  <2>2. eval[e].pc = "write"
    BY <2>1 DEF WriteRow
  <2> QED BY <2>1, <2>2 DEF LateMarked
<1> QED BY <1>1, <1>2, <1>3, TypedInit, PTL DEF RetentionSpec, WhitelistHolds

-----------------------------------------------------------------------------
(* The acknowledgements. *)

\* A merge that is to run its transaction was to run it before, or has just
\* read its rows.
LEMMA MergesKept ==
  ASSUME Typed, [RetentionNext]_<<vars, retention>>, NEW h \in Handlers,
         corr'[h].pc = "merge"
  PROVE  /\ corr'[h].from \in Plates /\ corr'[h].to \in Plates
         /\ corr'[h].from = corr[h].from /\ corr'[h].to = corr[h].to
         /\ \/ corr[h].pc = "merge" /\ mrows'[h] = mrows[h] /\ ~MergeTx(h)
            \/ /\ mrows'[h] = <<wl[corr[h].from], wl[corr[h].to]>>
               /\ UNCHANGED <<wl, seen, lowered>>
<1>0. corr \in [Handlers -> CorrRec] /\ CorrType' /\ mrows \in [Handlers -> Rows \X Rows]
  BY PipeStepType DEF Typed, CorrType, RowType
<1>1. corr'[h].from \in Plates /\ corr'[h].to \in Plates
  BY <1>0 DEF CorrType, CorrOK
<1>2. MergeTx(h) => corr'[h].pc # "merge"
  <2>1. MergeTx(h) => corr' = [corr EXCEPT ![h].pc = "send"] \/ corr' = [corr EXCEPT ![h] = CorrIdle]
    BY DEF MergeTx
  <2> QED BY <1>0, <2>1 DEF CorrIdle, CorrRec
<1> DEFINE Idem == corr'[h] = corr[h] /\ mrows'[h] = mrows[h]
<1>3. ASSUME NEW g \in Handlers, CorrStep(g) \/ MergeTx(g), mrows'[h] = mrows[h] \/ MergeTx(g)
      PROVE  Idem
  <2>1. \/ corr' = [corr EXCEPT ![g].pc = "send"] \/ corr' = [corr EXCEPT ![g] = CorrIdle]
        \/ corr' = [corr EXCEPT ![g].pc = "collect"]
        \/ \E R : corr' = [corr EXCEPT ![g] = [corr[g] EXCEPT !.pc = "send", !.routes = R]]
        \/ corr[g].pc = "send" /\ \E r : corr' = [corr EXCEPT ![g].routes = @ \ {r}]
    BY <1>3 DEF CorrStep, EditTx, EditCollect, Retrigger, Respond, MergeTx
  <2>2. PICK new : corr' = [corr EXCEPT ![g] = new] /\ new.pc # "merge"
    <3>1. corr[g] \in CorrRec
      BY <1>0
    <3>2. CASE corr' = [corr EXCEPT ![g] = CorrIdle]
      <4>1. CorrIdle.pc # "merge"
        BY DEF CorrIdle
      <4> QED BY <3>2, <4>1
    <3>3. CASE \/ corr' = [corr EXCEPT ![g].pc = "send"]
               \/ corr' = [corr EXCEPT ![g].pc = "collect"]
      <4>1. [corr[g] EXCEPT !.pc = "send"].pc # "merge"
            /\ [corr[g] EXCEPT !.pc = "collect"].pc # "merge"
        BY <3>1 DEF CorrRec
      <4> QED BY <3>3, <4>1
    <3>4. ASSUME NEW R, corr' = [corr EXCEPT ![g] = [corr[g] EXCEPT !.pc = "send", !.routes = R]]
          PROVE  \E new : corr' = [corr EXCEPT ![g] = new] /\ new.pc # "merge"
      <4>1. [corr[g] EXCEPT !.pc = "send", !.routes = R].pc # "merge"
        BY <3>1 DEF CorrRec
      <4> QED BY <3>4, <4>1
    <3>5. ASSUME NEW r, corr[g].pc = "send", corr' = [corr EXCEPT ![g].routes = @ \ {r}]
          PROVE  \E new : corr' = [corr EXCEPT ![g] = new] /\ new.pc # "merge"
      <4>1. [corr[g] EXCEPT !.routes = @ \ {r}].pc # "merge"
        BY <3>1, <3>5 DEF CorrRec
      <4> QED BY <3>5, <4>1
    <3> QED BY <2>1, <3>2, <3>3, <3>4, <3>5
  <2>3. h # g /\ corr'[h] = corr[h]
    BY <1>0, <2>2
  <2>4. MergeTx(g) => mrows'[h] = mrows[h]
    BY <1>0, <2>3 DEF MergeTx
  <2> QED BY <1>3, <2>3, <2>4
<1>4. CASE Encounters
  <2>1. mrows' = mrows
    BY <1>4 DEF Encounters, operator
  <2>2. corr' = corr \/ \E g \in Handlers : CorrStep(g)
    BY <1>4 DEF Encounters, Pipeline, StoreDetection, Announce, TurnsStored, Receive, AggStep,
                ListDetections, CountTurns, Persist, EmitUpdate
  <2>3. Idem
    BY <1>3, <2>1, <2>2
  <2> QED BY <1>1, <1>2, <2>3
<1>5. ASSUME NEW g \in Handlers, MergeTx(g) PROVE Idem
  BY <1>3, <1>5
<1>6. ASSUME NEW g \in Handlers,
             \/ \E d \in Dets, q \in Plates : EditDetection(g, d, q)
             \/ \E p, q \in Plates : MergeRoutes(g, p, q)
      PROVE  Idem
  <2>1. /\ mrows' = mrows
        /\ \E new : corr' = [corr EXCEPT ![g] = new] /\ new.pc # "merge"
    BY <1>6 DEF EditDetection, EditLoad, MergeRoutes
  <2> QED BY <1>0, <2>1
<1>7. ASSUME NEW g \in Handlers, MergeRows(g)
      PROVE  Idem \/ /\ corr'[h].from = corr[h].from /\ corr'[h].to = corr[h].to
                     /\ mrows'[h] = <<wl[corr[h].from], wl[corr[h].to]>>
                     /\ UNCHANGED <<wl, seen, lowered>>
  <2>1. /\ UNCHANGED <<wl, seen, lowered>>
        /\ \/ corr' = [corr EXCEPT ![g] = CorrIdle] /\ mrows' = mrows
           \/ /\ corr' = [corr EXCEPT ![g].pc = "merge"]
              /\ mrows' = [mrows EXCEPT ![g] = <<wl[corr[g].from], wl[corr[g].to]>>]
    BY <1>7 DEF MergeRows, ghosts
  <2> QED BY <1>0, <2>1 DEF CorrIdle, CorrRec
<1>8. CASE Heuristic \/ Notify \/ SweepDetections \/ DeleteOrphans
           \/ UNCHANGED <<vars, retention>>
  <2>1. UNCHANGED <<corr, mrows>>
    BY <1>8 DEF Heuristic, TakeUpdate, WorkerBegins, ApiBegins, Begin, EvalStep, ReadRow,
                WriteRow, EmitAlert, Notify, TakeAlert, CheckDedup, Send, Record, WindowEnds,
                SweepDetections, ListFlagged, DeleteUnflagged, DeleteFlagged, Delete,
                DeleteOrphans, vars, encVars, pipe, operator
  <2> QED BY <1>1, <1>2, <2>1
<1>9. CASE Operator
  <2>1. ASSUME \/ \E p \in Plates : \/ AddWhitelist(p) \/ RemoveRead(p)
                                    \/ AckAlert(p) \/ UnackAlert(p)
               \/ RemoveRow \/ Reevaluate
        PROVE  Idem
    BY <2>1 DEF AddWhitelist, RemoveRead, AckAlert, UnackAlert, Acknowledge, RemoveRow,
                Reevaluate, encVars, pipe
  <2> QED BY <1>1, <1>2, <1>5, <1>6, <1>7, <1>9, <2>1 DEF Operator
<1>10. CASE Restart
  BY <1>10 DEF Restart, CorrIdle
<1> QED BY Steps, <1>4, <1>8, <1>9, <1>10

\* A step keeps AckKnown when no plate's row or knowledge sinks unmarked,
\* and every row that is there is known.
LEMMA AckMonotone ==
  ASSUME Typed, RowType', AckKnown, [RetentionNext]_<<vars, retention>>,
         lowered \subseteq lowered',
         \A p \in Plates : seen[p] <= seen'[p],
         \A p \in Plates \ lowered' : /\ wl'[p].acked => wl'[p].sev <= seen'[p]
                                      /\ wl[p].sev <= Higher(wl'[p].sev, seen'[p])
  PROVE  AckKnown'
<1>0. \A a, b \in Nat : Higher(a, b) >= a /\ Higher(a, b) >= b /\ Higher(a, b) \in {a, b}
  BY DEF Higher
<1>1. /\ \A p \in Plates : /\ wl[p].sev \in Nat /\ seen[p] \in Nat
                           /\ wl'[p].sev \in Nat /\ seen'[p] \in Nat
      /\ \A h \in Handlers : mrows[h][1].sev \in Nat /\ mrows[h][2].sev \in Nat
      /\ \A e \in Evaluators : eval[e].sev \in Nat /\ eval[e].row.sev \in Nat
  <2>1. \A r \in Rows : r.sev \in Nat
    BY DEF Rows
  <2>2. \A e \in Evaluators : eval[e].sev \in Nat /\ eval[e].row \in Rows
    BY DEF Typed, EvalType, EvalRec
  <2>3. /\ \A p \in Plates : /\ wl[p] \in Rows /\ wl'[p] \in Rows
                             /\ seen[p] \in 0..5 /\ seen'[p] \in 0..5
        /\ \A h \in Handlers : mrows[h][1] \in Rows /\ mrows[h][2] \in Rows
    BY DEF Typed, RowType
  <2> QED BY <2>1, <2>2, <2>3
<1>2. (\E e \in Evaluators : ReadRow(e)) => wl' = wl
  BY DEF ReadRow
<1>3. ASSUME NEW h \in Handlers, corr'[h].pc = "merge"
      PROVE  /\ corr'[h].from \notin lowered' =>
                  (mrows'[h][1].acked => mrows'[h][1].sev <= seen'[corr'[h].from])
             /\ corr'[h].to \notin lowered' =>
                  (mrows'[h][2].acked => mrows'[h][2].sev <= seen'[corr'[h].to])
  <2> DEFINE p == corr[h].from
             q == corr[h].to
  <2>1. /\ p \in Plates /\ q \in Plates /\ corr'[h].from = p /\ corr'[h].to = q
        /\ \/ corr[h].pc = "merge" /\ mrows'[h] = mrows[h]
           \/ mrows'[h] = <<wl[p], wl[q]>>
    BY <1>3, MergesKept
  <2>2. CASE corr[h].pc = "merge" /\ mrows'[h] = mrows[h]
    <3>1. /\ p \notin lowered => (mrows[h][1].acked => mrows[h][1].sev <= seen[p])
          /\ q \notin lowered => (mrows[h][2].acked => mrows[h][2].sev <= seen[q])
      BY <2>2 DEF AckKnown, Known
    <3> QED BY <1>1, <2>1, <2>2, <3>1
  <2>3. CASE mrows'[h] = <<wl[p], wl[q]>>
    <3>1. /\ p \notin lowered => (wl[p].acked => wl[p].sev <= seen[p])
          /\ q \notin lowered => (wl[q].acked => wl[q].sev <= seen[q])
      BY <2>1 DEF AckKnown, Known
    <3>2. mrows'[h][1] = wl[p] /\ mrows'[h][2] = wl[q]
      BY <2>3
    <3> QED BY <1>1, <2>1, <3>1, <3>2
  <2> QED BY <2>1, <2>2, <2>3
<1>4. ASSUME NEW e \in Evaluators, eval'[e].pc = "write",
             ~(eval'[e].sev > eval'[e].row.sev), eval'[e].plate \notin lowered'
      PROVE  eval'[e].sev <= Higher(wl'[eval'[e].plate].sev, seen'[eval'[e].plate])
  <2> DEFINE p == eval'[e].plate
  <2>1. p \in Plates /\ eval'[e].sev \in Nat
    BY <1>4, WritersKept, EvalStepType DEF EvalType, EvalRec
  <2>2. CASE /\ eval[e].pc = "write" /\ p = eval[e].plate
             /\ eval'[e].sev = eval[e].sev /\ eval'[e].row = eval[e].row
    <3>1. eval[e].sev <= Higher(wl[p].sev, seen[p])
      BY <1>4, <2>2 DEF AckKnown, Increased
    <3> HIDE DEF p
    <3>2. /\ wl[p].sev <= Higher(wl'[p].sev, seen'[p])
          /\ seen[p] <= seen'[p]
      BY <1>4, <2>1 DEF p
    <3> QED BY <1>0, <1>1, <2>1, <2>2, <3>1, <3>2 DEF p
  <2>3. CASE ReadRow(e) /\ eval'[e].row = wl[p]
    <3> HIDE DEF p
    <3>1. wl' = wl /\ eval'[e].row.sev = wl[p].sev
      BY <1>2, <2>3
    <3>2. eval'[e].sev <= wl'[p].sev
      BY <1>1, <1>4, <2>1, <3>1
    <3> QED BY <1>0, <1>1, <2>1, <3>2 DEF p
  <2> QED BY <1>4, <2>2, <2>3, WritersKept
<1> QED BY <1>3, <1>4 DEF AckKnown, Known, Increased

LEMMA AckInit == RetentionInit => AckKnown
<1> SUFFICES ASSUME RetentionInit PROVE AckKnown
  OBVIOUS
<1>1. \A p \in Plates : wl[p].acked = FALSE
  <2> DEFINE Row(p) == [kind |-> "alerted", sev |-> ScoreOf(EncountersWith(p), FALSE),
                        acked |-> FALSE]
  <2>1. \A p \in Plates : wl[p] = NoRow \/ wl[p] = Row(p)
    BY DEF RetentionInit, AlertsInit
  <2>2. NoRow.acked = FALSE /\ \A p : Row(p).acked = FALSE
    BY DEF NoRow
  <2> HIDE DEF Row
  <2> QED BY <2>1, <2>2
<1>2. \A h \in Handlers : corr[h].pc = "idle"
  BY DEF RetentionInit, AlertsInit, EncInit, CorrIdle
<1>3. \A e \in Evaluators : eval[e].pc = "idle"
  BY DEF RetentionInit, AlertsInit, EvalIdle
<1> QED BY <1>1, <1>2, <1>3 DEF AckKnown, Known

\* Every step keeps it.
LEMMA AckNext ==
  ASSUME Typed, AckKnown, [RetentionNext]_<<vars, retention>>
  PROVE  AckKnown'
<1>0. RowType' /\ RowType /\ EvalType /\ CorrType
  BY RowStepType DEF Typed
<1>1. /\ \A a, b \in Nat : Higher(a, b) >= a /\ Higher(a, b) >= b /\ Higher(a, b) \in {a, b}
      /\ \A p \in Plates : wl[p].sev \in Nat /\ seen[p] \in Nat
      /\ wl \in [Plates -> Rows] /\ seen \in [Plates -> 0..5]
      /\ NoRow.sev = 0 /\ NoRow.acked = FALSE
      /\ \A r \in Rows : r.sev \in Nat
  <2>1. \A a, b \in Nat : Higher(a, b) >= a /\ Higher(a, b) >= b /\ Higher(a, b) \in {a, b}
    BY DEF Higher
  <2>2. \A r \in Rows : r.sev \in Nat
    BY DEF Rows
  <2>3. NoRow.sev = 0 /\ NoRow.acked = FALSE
    BY DEF NoRow
  <2>4. /\ wl \in [Plates -> Rows] /\ seen \in [Plates -> 0..5]
        /\ \A p \in Plates : wl[p].sev \in Nat /\ seen[p] \in Nat
    BY <1>0, <2>2 DEF RowType
  <2> QED BY <2>1, <2>2, <2>3, <2>4
<1> DEFINE Grows == lowered \subseteq lowered' /\ \A p \in Plates : seen[p] <= seen'[p]
           Keeps(p) == /\ wl'[p].acked => wl'[p].sev <= seen'[p]
                       /\ wl[p].sev <= Higher(wl'[p].sev, seen'[p])
<1>2. ASSUME NEW p \in Plates \ lowered', Grows, wl'[p] = wl[p] PROVE Keeps(p)
  <2>1. wl[p].acked => wl[p].sev <= seen[p]
    BY <1>2 DEF AckKnown, Known
  <2>2. seen[p] <= seen'[p] /\ seen'[p] \in Nat
    BY <1>0, <1>2 DEF RowType
  <2> QED BY <1>1, <1>2, <2>1, <2>2
<1> SUFFICES Grows /\ \A p \in Plates \ lowered' : Keeps(p)
  BY <1>0, AckMonotone
\* The upsert raises the row to what was there or known, or unacknowledges it.
<1>3. ASSUME NEW e \in Evaluators, WriteRow(e), wl' # wl
      PROVE  Grows /\ \A p \in Plates \ lowered' : Keeps(p)
  <2> DEFINE q == eval[e].plate
             s == eval[e].sev
             new == IF Increased(e) THEN Alerted(wl[q], s) ELSE PreserveAck(wl[q], s)
  <2>1. /\ q \in Plates /\ eval[e].pc = "write" /\ s \in 0..5 /\ wl' = [wl EXCEPT ![q] = new]
        /\ lowered' = lowered \cup Lowers(q, new) /\ seen' = seen
    BY <1>0, <1>3, WriteFacts DEF WriteRow
  <2>2. Grows
    BY <1>1, <2>1
  <2>3. ASSUME q \notin lowered' PROVE Keeps(q)
    <3>1. wl'[q] = new /\ q \notin lowered /\ ~(new.sev < wl[q].sev)
      BY <1>1, <2>1, <2>3 DEF Lowers
    <3>2. CASE Increased(e)
      BY <1>1, <2>1, <3>1, <3>2 DEF Alerted
    <3>3. CASE ~Increased(e)
      <4>1. new.sev = Higher(wl[q].sev, s) /\ new.acked = wl[q].acked
        BY <3>3 DEF PreserveAck
      <4>2. s <= Higher(wl[q].sev, seen[q]) /\ (wl[q].acked => wl[q].sev <= seen[q])
        BY <2>1, <3>1, <3>3 DEF AckKnown, Known
      <4>3. s \in Nat
        BY <2>1
      <4> HIDE DEF q, s, new
      <4> QED BY <1>1, <2>1, <3>1, <4>1, <4>2, <4>3
    <3> QED BY <3>2, <3>3
  <2> HIDE DEF q, s, new, Keeps
  <2> QED BY <1>1, <1>2, <2>1, <2>2, <2>3
<1>4. ASSUME NEW q \in Plates, AddWhitelist(q)
      PROVE  Grows /\ \A p \in Plates \ lowered' : Keeps(p)
  <2> DEFINE new == [kind |-> "whitelist", sev |-> 0, acked |-> FALSE]
  <2>1. /\ wl' = [wl EXCEPT ![q] = new] /\ lowered' = lowered
        /\ seen' = [seen EXCEPT ![q] = Higher(seen[q], wl[q].sev)]
    BY <1>4 DEF AddWhitelist
  <2>2. Grows
    BY <1>1, <2>1
  <2>3. Keeps(q)
    BY <1>1, <2>1
  <2> HIDE DEF new, Keeps
  <2> QED BY <1>1, <1>2, <2>1, <2>2, <2>3
<1>5. CASE RemoveRow
  <2>1. /\ unlist \in Plates /\ wl' = [wl EXCEPT ![unlist] = NoRow] /\ seen' = seen
        /\ lowered' = lowered \cup Lowers(unlist, NoRow)
    BY <1>0, <1>5 DEF RemoveRow, RowType
  <2>2. Grows
    BY <1>1, <2>1
  <2>3. unlist \notin lowered' => Keeps(unlist)
    BY <1>1, <2>1 DEF Lowers
  <2> HIDE DEF Keeps
  <2> QED BY <1>1, <1>2, <2>1, <2>2, <2>3
<1>6. ASSUME NEW q \in Plates, NEW op, NEW acked \in BOOLEAN, Acknowledge(q, op, acked)
      PROVE  Grows /\ \A p \in Plates \ lowered' : Keeps(p)
  <2>1. /\ lowered' = lowered
        /\ \/ UNCHANGED <<wl, seen>>
           \/ /\ wl' = [wl EXCEPT ![q].acked = acked]
              /\ seen' = [seen EXCEPT ![q] = IF acked THEN Higher(seen[q], wl[q].sev)
                                             ELSE seen[q]]
    BY <1>6 DEF Acknowledge
  <2>2. Grows
    BY <1>1, <2>1
  <2>3. wl' # wl => Keeps(q)
    <3>1. CASE /\ wl' = [wl EXCEPT ![q].acked = acked]
               /\ seen' = [seen EXCEPT ![q] = IF acked THEN Higher(seen[q], wl[q].sev)
                                              ELSE seen[q]]
      <4>1. wl'[q].sev = wl[q].sev /\ wl'[q].acked = acked
        BY <1>1, <3>1 DEF Rows
      <4>2. seen'[q] \in Nat /\ (acked => wl[q].sev <= seen'[q])
        BY <1>1, <3>1
      <4> QED BY <1>1, <4>1, <4>2
    <3> QED BY <2>1, <3>1
  <2>4. \A p \in Plates : p = q \/ wl'[p] = wl[p]
    BY <1>1, <2>1
  <2> HIDE DEF Keeps
  <2> QED BY <1>2, <2>2, <2>3, <2>4
\* A merge acknowledges what both rows were, and what is known of the one
\* plate is then known of the other.
<1>7. ASSUME NEW h \in Handlers, MergeTx(h), wl' # wl
      PROVE  Grows /\ \A p \in Plates \ lowered' : Keeps(p)
  <2> DEFINE f == corr[h].from
             q == corr[h].to
             r1 == mrows[h][1]
             r2 == mrows[h][2]
  <2>1. /\ corr[h].pc = "merge" /\ wl' = MergedWatchlist(h)
        /\ seen' = [seen EXCEPT ![q] = Higher(seen[q], seen[f])]
        /\ lowered' = lowered \cup Lowers(f, NoRow) \cup Lowers(q, wl'[q])
                       \cup (IF f \in lowered THEN {q} ELSE {})
    BY <1>7 DEF MergeTx
  <2>2. /\ f \in Plates /\ q \in Plates /\ f # q /\ r1 \in Rows /\ r2 \in Rows
        /\ \A x \in Plates : x # f /\ x # q => wl'[x] = wl[x]
        /\ wl'[f] = NoRow
        /\ \/ wl'[q] = wl[q] \/ wl'[q] = wl[f] \/ wl'[q] = NoRow
           \/ wl'[q] = MergedRow(wl[q], r1, r2)
    BY <1>0, <1>7, <2>1, MergedFacts
  <2>3. /\ f \notin lowered => (r1.acked => r1.sev <= seen[f])
        /\ q \notin lowered => (r2.acked => r2.sev <= seen[q])
    BY <2>1 DEF AckKnown, Known
  <2>4. r1.sev \in Nat /\ r2.sev \in Nat
    BY <2>2 DEF Rows
  <2> HIDE DEF f, q, r1, r2
  <2>5. /\ seen'[q] = Higher(seen[q], seen[f]) /\ seen'[q] >= seen[q] /\ seen'[q] >= seen[f]
        /\ seen'[q] \in Nat
        /\ \A x \in Plates : x # q => seen'[x] = seen[x]
    BY <1>1, <2>1, <2>2
  <2>6. Grows
    BY <1>1, <2>1, <2>2, <2>5
  <2>7. ASSUME q \notin lowered' PROVE Keeps(q)
    <3>1. q \notin lowered /\ f \notin lowered /\ ~(wl'[q].sev < wl[q].sev)
      BY <2>1, <2>2, <2>7 DEF Lowers
    <3>2. wl'[q].sev \in Nat
      BY <1>0, <1>1, <2>2 DEF RowType
    <3>3. wl'[q].acked => wl'[q].sev <= seen'[q]
      <4>1. /\ wl[q].acked => wl[q].sev <= seen[q]
            /\ wl[f].acked => wl[f].sev <= seen[f]
        BY <2>2, <3>1 DEF AckKnown, Known
      <4>2. CASE wl'[q] = wl[q] \/ wl'[q] = wl[f] \/ wl'[q] = NoRow
        BY <1>1, <2>2, <2>5, <4>1, <4>2
      <4>3. CASE wl'[q] = MergedRow(wl[q], r1, r2)
        <5>1. /\ wl'[q].acked = (r1.acked /\ r2.acked)
              /\ wl'[q].sev = Higher(r1.sev, r2.sev)
          BY <4>3 DEF MergedRow
        <5>2. ASSUME wl'[q].acked PROVE r1.sev <= seen'[q] /\ r2.sev <= seen'[q]
          <6>1. r1.sev <= seen[f] /\ r2.sev <= seen[q]
            BY <2>3, <3>1, <5>1, <5>2
          <6> QED BY <1>1, <2>2, <2>4, <2>5, <6>1
        <5> QED BY <1>1, <2>4, <5>1, <5>2
      <4> QED BY <2>2, <4>2, <4>3
    <3> QED BY <1>1, <2>2, <2>5, <3>1, <3>2, <3>3
  <2>8. ASSUME f \notin lowered' PROVE Keeps(f)
    <3>1. ~(0 < wl[f].sev)
      BY <1>1, <2>1, <2>8 DEF Lowers
    <3> QED BY <1>1, <2>2, <2>5, <3>1
  <2> HIDE DEF Keeps
  <2> QED BY <1>2, <2>2, <2>6, <2>7, <2>8
\* A merge that leaves the rows of the two plates still joins what is known.
<1>8. ASSUME NEW h \in Handlers, MergeTx(h), wl' = wl
      PROVE  Grows /\ \A p \in Plates \ lowered' : Keeps(p)
  <2>1. /\ lowered \subseteq lowered' /\ corr[h].pc = "merge"
        /\ \/ seen' = seen
           \/ seen' = [seen EXCEPT ![corr[h].to] = Higher(seen[corr[h].to], seen[corr[h].from])]
    BY <1>8 DEF MergeTx
  <2>2. corr[h].from \in Plates /\ corr[h].to \in Plates
    BY <1>0, <2>1 DEF CorrType, CorrOK
  <2>3. Grows
    BY <1>1, <2>1, <2>2
  <2> HIDE DEF Grows, Keeps
  <2> QED BY <1>2, <1>8, <2>3
<1>9. ASSUME UNCHANGED <<wl, seen, lowered>>
      PROVE  Grows /\ \A p \in Plates \ lowered' : Keeps(p)
  <2>1. Grows
    BY <1>1, <1>9
  <2> HIDE DEF Grows, Keeps
  <2> QED BY <1>2, <1>9, <2>1
<1>10. ASSUME NEW e \in Evaluators, WriteRow(e), wl' = wl
       PROVE  Grows /\ \A p \in Plates \ lowered' : Keeps(p)
  <2>1. lowered \subseteq lowered' /\ seen' = seen
    BY <1>10 DEF WriteRow
  <2>2. Grows
    BY <1>1, <2>1
  <2> HIDE DEF Grows, Keeps
  <2> QED BY <1>2, <1>10, <2>2
<1> HIDE DEF Grows, Keeps
<1> QED BY <1>3, <1>4, <1>5, <1>6, <1>7, <1>8, <1>9, <1>10, RowsKept
        DEF AckAlert, UnackAlert

\* AckedWasKnown: evaluations of any plates, operators and merges may come
\* between each other's statements as they like: an acknowledged alert has
\* no severity the operator did not know, but on a plate whose row lost
\* severity in between.
THEOREM AlertsAcked == RetentionSpec => []AckedWasKnown
<1>1. Typed /\ AckKnown /\ [RetentionNext]_<<vars, retention>> => Typed' /\ AckKnown'
  BY TypedNext, AckNext
<1>2. AckKnown => AckedWasKnown
  BY DEF AckKnown, Known, AckedWasKnown
<1> QED BY <1>1, <1>2, TypedInit, AckInit, PTL DEF RetentionSpec

-----------------------------------------------------------------------------
(* The walk over a plate's detections. *)

\* Induction over finite sets: a non-empty family of parts of one has a part
\* without a smaller one.
LEMMA SmallestFinite ==
  ASSUME NEW U, IsFiniteSet(U), NEW X, X \subseteq SUBSET U, X # {}
  PROVE  \E m \in X : \A E \in X : ~(E \subseteq m /\ E # m)
<1>1. X \subseteq FiniteSubsetsOf(U)
  BY FS_FiniteSubsetsOfFinite
<1>2. IsWellFoundedOn(StrictSubsetOrdering(U), FiniteSubsetsOf(U))
  BY FS_StrictSubsetOrderingWellFounded
<1>3. PICK m \in X : \A E \in X : ~(<<E, m>> \in StrictSubsetOrdering(U))
  BY <1>1, <1>2, WFMin
<1> QED BY <1>3 DEF StrictSubsetOrdering

LEMMA SmallestSet ==
  ASSUME NEW X, X \subseteq SUBSET Dets, X # {}
  PROVE  \E m \in X : \A E \in X : ~(E \subseteq m /\ E # m)
<1>1. IsFiniteSet(Dets)
  BY EncountersAssumption
<1> QED BY ONLY <1>1, SmallestFinite, X \subseteq SUBSET Dets, X # {}

\* The order of the walk is total, and so has a last detection.
LEMMA LatestLast ==
  ASSUME NEW E \in SUBSET Dets, E # {}
  PROVE  Latest(E) \in E /\ \A e \in E : TimeOf[e] <= TimeOf[Latest(E)]
<1> DEFINE Ends(S, d) == d \in S /\ \A e \in S \ {d} : Before(e, d)
           X == {S \in SUBSET Dets : S # {} /\ ~\E d \in S : Ends(S, d)}
<1>0. \A d \in Dets : d \in Nat /\ TimeOf[d] \in Nat
  BY EncountersAssumption
<1>1. X = {}
  <2> SUFFICES ASSUME X # {} PROVE FALSE
    OBVIOUS
  <2>0. X \subseteq SUBSET Dets
    OBVIOUS
  <2> HIDE DEF X
  <2>1. PICK m \in X : \A S \in X : ~(S \subseteq m /\ S # m)
    BY <2>0, SmallestSet
  <2> USE DEF X
  <2>2. PICK x \in m : TRUE
    OBVIOUS
  <2>3. CASE m = {x}
    BY <2>3
  <2>4. CASE m # {x}
    <3>1. m \ {x} # {} /\ m \ {x} \in SUBSET Dets /\ m \ {x} \notin X
      BY <2>1, <2>2, <2>4
    <3>2. PICK d \in m \ {x} : Ends(m \ {x}, d)
      BY <3>1
    <3>3. Before(d, x) \/ Before(x, d)
      BY <1>0, <2>2, <3>2 DEF Before
    <3>4. CASE Before(x, d)
      <4>1. Ends(m, d)
        BY <3>2, <3>4
      <4> QED BY <3>2, <4>1
    <3>5. CASE Before(d, x)
      <4>1. \A e \in m \ {x} : Before(e, x)
        BY <1>0, <3>2, <3>5 DEF Before
      <4> QED BY <2>2, <4>1
    <3> QED BY <3>3, <3>4, <3>5
  <2> QED BY <2>3, <2>4
<1>2. \E d \in E : \A e \in E \ {d} : Before(e, d)
  BY <1>1
<1>3. Latest(E) \in E /\ \A e \in E \ {Latest(E)} : Before(e, Latest(E))
  BY <1>2 DEF Latest
<1>4. \A e \in E : TimeOf[e] \in Nat
  BY <1>0
<1> QED BY <1>3, <1>4 DEF Before

\* The walk is well defined on every set of detections ...
WalkOf(f, E) == IF E = {} THEN <<>> ELSE Walk(f[E \ {Latest(E)}], Latest(E))

LEMMA WalkExists ==
  ASSUME NEW D \in SUBSET Dets
  PROVE  \E f : f = [E \in SUBSET D |-> WalkOf(f, E)]
<1> DEFINE Fam(n) == {E \in SUBSET D : Cardinality(E) <= n}
           Good(n) == \E f : f = [E \in Fam(n) |-> WalkOf(f, E)]
           X == {n \in Nat : ~Good(n)}
<1>1. /\ \A E \in SUBSET D : IsFiniteSet(E) /\ Cardinality(E) \in Nat
      /\ \A E \in SUBSET D : Cardinality(E) <= Cardinality(D)
      /\ \A E \in SUBSET D : Cardinality(E) = 0 <=> E = {}
      /\ \A E \in SUBSET D : E # {} => Cardinality(E \ {Latest(E)}) = Cardinality(E) - 1
  <2>1. IsFiniteSet(D)
    BY EncountersAssumption, FS_Subset
  <2>2. \A E \in SUBSET D : IsFiniteSet(E) /\ Cardinality(E) <= Cardinality(D)
    BY <2>1, FS_Subset
  <2>3. \A E \in SUBSET D : Cardinality(E) \in Nat
    BY <2>2, FS_CardinalityType
  <2>4. \A E \in SUBSET D : E # {} => Cardinality(E \ {Latest(E)}) = Cardinality(E) - 1
    BY <2>2, LatestLast, FS_RemoveElement
  <2> QED BY <2>2, <2>3, <2>4, FS_EmptySet
<1>2. X = {}
  <2> SUFFICES ASSUME X # {} PROVE FALSE
    OBVIOUS
  <2>0. X \subseteq Nat
    OBVIOUS
  <2> HIDE DEF X
  <2> DEFINE less == OpToRel(<, Nat)
  <2>5. \A k, n \in Nat : k < n => <<k, n>> \in less
    BY DEF OpToRel
  <2>6. IsWellFoundedOn(less, Nat)
    BY NatLessThanWellFounded
  <2> HIDE DEF less
  <2>1. PICK n \in X : \A k \in X : ~(<<k, n>> \in less)
    BY ONLY <2>0, <2>6, X # {}, WFMin
  <2>4. n \in Nat /\ (n # 0 => n - 1 \in Nat /\ n - 1 \notin X)
    <3>1. n \in Nat
      BY <2>0
    <3>2. n # 0 => n - 1 \in Nat /\ n - 1 < n
      BY ONLY <3>1
    <3>3. n - 1 \in Nat /\ n - 1 < n => <<n - 1, n>> \in less
      BY ONLY <3>1, <2>5
    <3> QED BY <2>1, <3>1, <3>2, <3>3
  <2> USE DEF X
  <2>2. CASE n = 0
    <3>1. Fam(0) = {{}}
      BY <1>1
    <3> DEFINE f == [E \in Fam(0) |-> <<>>]
    <3>2. f = [E \in Fam(0) |-> WalkOf(f, E)]
      BY <3>1 DEF WalkOf
    <3> QED BY <2>2, <3>2
  <2>3. CASE n # 0
    <3>1. n - 1 \in Nat /\ Good(n - 1)
      BY <2>3, <2>4
    <3>2. PICK f : f = [E \in Fam(n - 1) |-> WalkOf(f, E)]
      BY <3>1
    <3> DEFINE g == [E \in Fam(n) |-> WalkOf(f, E)]
    <3>3. \A E \in Fam(n - 1) : g[E] = f[E]
      BY <1>1, <3>1, <3>2
    <3>4. \A E \in Fam(n) : E # {} => E \ {Latest(E)} \in Fam(n - 1)
      BY <1>1, <3>1
    <3> HIDE DEF Fam
    <3>5. \A E \in Fam(n) : WalkOf(f, E) = WalkOf(g, E)
      BY <3>3, <3>4 DEF WalkOf
    <3>6. g = [E \in Fam(n) |-> WalkOf(g, E)]
      BY <3>5
    <3>7. Good(n)
      BY <3>6
    <3> QED BY <3>7
  <2> QED BY <2>2, <2>3
<1>3. Cardinality(D) \in Nat /\ Fam(Cardinality(D)) = SUBSET D
  BY <1>1
<1>4. Good(Cardinality(D))
  BY <1>2, <1>3
<1> QED BY <1>3, <1>4

WalkOn(D) == CHOOSE f : f = [E \in SUBSET D |-> WalkOf(f, E)]

LEMMA WalkSteps ==
  ASSUME NEW D \in SUBSET Dets
  PROVE  /\ PlateWalk(D) = WalkOn(D)[D]
         /\ WalkOn(D)[{}] = <<>>
         /\ \A E \in SUBSET D : E # {} =>
              WalkOn(D)[E] = Walk(WalkOn(D)[E \ {Latest(E)}], Latest(E))
<1>1. WalkOn(D) = [E \in SUBSET D |-> WalkOf(WalkOn(D), E)]
  BY WalkExists DEF WalkOn
<1>2. PlateWalk(D) = WalkOn(D)[D]
  BY DEF PlateWalk, WalkOn, WalkOf
<1> HIDE DEF WalkOn
<1>3. \A E \in SUBSET D : WalkOn(D)[E] = WalkOf(WalkOn(D), E)
  BY <1>1
<1> QED BY <1>2, <1>3 DEF WalkOf

\* A run of detections, and what the walk keeps of it.
Run == [first : Nat, last : Nat, count : Nat]

Covers(e, B) ==
  /\ e \in Run /\ IsFiniteSet(B) /\ e.count = Cardinality(B)
  /\ \E x \in B : TimeOf[x] = e.first
  /\ \E x \in B : TimeOf[x] = e.last
  /\ \A x \in B : e.first <= TimeOf[x] /\ TimeOf[x] <= e.last
  /\ \A x \in B : TimeOf[x] < e.last =>
       \E y \in B : TimeOf[x] < TimeOf[y] /\ TimeOf[y] <= TimeOf[x] + Gap

LEMMA NewRun ==
  ASSUME NEW d \in Dets
  PROVE  Covers([first |-> TimeOf[d], last |-> TimeOf[d], count |-> 1], {d})
<1>1. TimeOf[d] \in Nat
  BY EncountersAssumption
<1>2. IsFiniteSet({d}) /\ Cardinality({d}) = 1
  BY FS_Singleton
<1> QED BY <1>1, <1>2 DEF Covers, Run

LEMMA LongerRun ==
  ASSUME NEW B \in SUBSET Dets, NEW e, Covers(e, B), NEW d \in Dets \ B,
         \A x \in B : TimeOf[x] <= TimeOf[d], ~GapExceeded(e, d)
  PROVE  Covers([first |-> e.first, last |-> TimeOf[d], count |-> e.count + 1], B \cup {d})
<1> DEFINE f == [first |-> e.first, last |-> TimeOf[d], count |-> e.count + 1]
<1>1. TimeOf[d] \in Nat /\ Gap \in Nat /\ \A x \in B : TimeOf[x] \in Nat
  BY EncountersAssumption
<1>2. e \in Run /\ e.first \in Nat /\ e.last \in Nat /\ e.count \in Nat
  BY DEF Covers, Run
<1>3. f \in Run /\ f.first = e.first /\ f.last = TimeOf[d] /\ f.count = e.count + 1
  BY <1>1, <1>2 DEF Run
<1>4. IsFiniteSet(B \cup {d}) /\ Cardinality(B \cup {d}) = Cardinality(B) + 1
  BY FS_AddElement DEF Covers
<1> HIDE DEF f
<1>5. PICK z \in B : TimeOf[z] = e.last
  BY DEF Covers
<1>6. e.last <= TimeOf[d] /\ TimeOf[d] <= e.last + Gap
  BY <1>1, <1>2, <1>5 DEF GapExceeded
<1>7. e.first <= TimeOf[d] /\ \A x \in B : e.first <= TimeOf[x] /\ TimeOf[x] <= e.last
  BY <1>1, <1>2, <1>5, <1>6 DEF Covers
<1>8. \A x \in B : TimeOf[x] < TimeOf[d] =>
        \E y \in B \cup {d} : TimeOf[x] < TimeOf[y] /\ TimeOf[y] <= TimeOf[x] + Gap
  <2> SUFFICES ASSUME NEW x \in B, TimeOf[x] < TimeOf[d]
               PROVE  \E y \in B \cup {d} :
                        TimeOf[x] < TimeOf[y] /\ TimeOf[y] <= TimeOf[x] + Gap
    OBVIOUS
  <2>1. CASE TimeOf[x] < e.last
    BY <2>1 DEF Covers
  <2>2. CASE TimeOf[x] = e.last
    BY <1>6, <2>2
  <2> QED BY <1>1, <1>2, <1>7, <2>1, <2>2
<1>9. \E x \in B \cup {d} : TimeOf[x] = f.first
  BY <1>3 DEF Covers
<1>10. \A x \in B \cup {d} : f.first <= TimeOf[x] /\ TimeOf[x] <= f.last
  BY <1>1, <1>3, <1>7
<1>11. \A x \in B \cup {d} : TimeOf[x] < f.last =>
         \E y \in B \cup {d} : TimeOf[x] < TimeOf[y] /\ TimeOf[y] <= TimeOf[x] + Gap
  BY <1>1, <1>3, <1>8
<1>12. f.count = Cardinality(B \cup {d})
  BY <1>3, <1>4 DEF Covers
<1>13. Covers(f, B \cup {d})
  BY <1>3, <1>4, <1>9, <1>10, <1>11, <1>12 DEF Covers
<1> QED BY <1>13 DEF f

\* The runs es with the detections b that they stand for: all of E, more
\* than a gap apart.
Divided(es, b, E) ==
  /\ es \in Seq(Run) /\ b \in [1..Len(es) -> SUBSET E]
  /\ \A x \in E : \E i \in 1..Len(es) : x \in b[i]
  /\ \A i \in 1..Len(es) : Covers(es[i], b[i])
  /\ \A i, j \in 1..Len(es) : i < j => es[i].last + Gap < es[j].first

LEMMA DividedStep ==
  ASSUME NEW E \in SUBSET Dets, NEW es, NEW b, Divided(es, b, E),
         NEW d \in Dets \ E, \A x \in E : TimeOf[x] <= TimeOf[d]
  PROVE  \E c : Divided(Walk(es, d), c, E \cup {d})
<1> DEFINE n == Len(es)
<1>1. es \in Seq(Run) /\ n \in Nat /\ \A i \in 1..n : es[i] \in Run
  BY DEF Divided
<1>2. TimeOf[d] \in Nat /\ Gap \in Nat
  BY EncountersAssumption
<1>3. \A i \in 1..n : /\ Covers(es[i], b[i]) /\ b[i] \subseteq E
                      /\ es[i].first \in Nat /\ es[i].last \in Nat
  BY <1>1 DEF Divided, Run
<1>4. \A i, j \in 1..n : i < j => es[i].last + Gap < es[j].first
  BY DEF Divided
<1>5. CASE es # <<>> /\ ~GapExceeded(es[n], d)
  <2> DEFINE e == [first |-> es[n].first, last |-> TimeOf[d], count |-> es[n].count + 1]
             fs == [es EXCEPT ![n] =
                       [first |-> @.first, last |-> TimeOf[d], count |-> @.count + 1]]
             c  == [i \in 1..n |-> IF i = n THEN b[n] \cup {d} ELSE b[i]]
  <2>1. n \in 1..n /\ Walk(es, d) = fs
    BY <1>1, <1>5 DEF Walk
  <2>2. Covers(e, b[n] \cup {d})
    BY <1>3, <1>5, <2>1, LongerRun
  <2>3. e \in Run
    BY <2>2 DEF Covers
  <2>4. fs = [es EXCEPT ![n] = e]
    BY <1>1, <2>1
  <2>4a. fs \in Seq(Run) /\ Len(fs) = n
    <3> HIDE DEF fs, e
    <3> QED BY <1>1, <2>1, <2>3, <2>4
  <2>4b. fs[n] = e /\ \A i \in 1..n : i # n => fs[i] = es[i]
    <3> HIDE DEF fs, e
    <3> QED BY <1>1, <2>1, <2>4
  <2>5. e.first = es[n].first
    BY <1>1, <2>1 DEF Run
  <2> HIDE DEF fs, e
  <2>6. c \in [1..n -> SUBSET (E \cup {d})]
    BY <1>3, <2>1
  <2>7. \A x \in E \cup {d} : \E i \in 1..n : x \in c[i]
    BY <2>1 DEF Divided
  <2>8. \A i \in 1..n : Covers(fs[i], c[i])
    BY <1>3, <2>1, <2>2, <2>4b
  <2>9. \A i, j \in 1..n : i < j => fs[i].last + Gap < fs[j].first
    <3> SUFFICES ASSUME NEW i \in 1..n, NEW j \in 1..n, i < j
                 PROVE  fs[i].last + Gap < fs[j].first
      OBVIOUS
    <3>1. i # n
      BY <1>1
    <3>2. fs[j].first = es[j].first
      BY <2>4b, <2>5
    <3> QED BY <1>4, <2>4b, <3>1, <3>2
  <2> HIDE DEF c
  <2>10. Divided(fs, c, E \cup {d})
    BY <2>4a, <2>6, <2>7, <2>8, <2>9 DEF Divided
  <2> QED BY <2>1, <2>10
<1>6. CASE es = <<>> \/ (es # <<>> /\ GapExceeded(es[n], d))
  <2> DEFINE e  == [first |-> TimeOf[d], last |-> TimeOf[d], count |-> 1]
             fs == Append(es, e)
             c  == [i \in 1..(n + 1) |-> IF i = n + 1 THEN {d} ELSE b[i]]
  <2>1. Walk(es, d) = fs
    BY <1>6 DEF Walk
  <2>2. Covers(e, {d})
    BY NewRun
  <2>3. e \in Run /\ e.first = TimeOf[d]
    BY <2>2 DEF Covers
  <2> HIDE DEF e
  <2>4. fs \in Seq(Run) /\ Len(fs) = n + 1 /\ fs[n + 1] = e
        /\ \A i \in 1..n : fs[i] = es[i]
    BY <1>1, <2>3
  <2> HIDE DEF fs
  <2>6. c \in [1..(n + 1) -> SUBSET (E \cup {d})]
    BY <1>1, <1>3
  <2>7. \A x \in E \cup {d} : \E i \in 1..(n + 1) : x \in c[i]
    <3>1. \A x \in E : \E i \in 1..n : x \in b[i]
      BY DEF Divided
    <3>2. \A i \in 1..n : i \in 1..(n + 1) /\ c[i] = b[i]
      BY <1>1
    <3>3. n + 1 \in 1..(n + 1) /\ c[n + 1] = {d}
      BY <1>1
    <3> QED BY <3>1, <3>2, <3>3
  <2>8. \A i \in 1..(n + 1) : Covers(fs[i], c[i])
    BY <1>1, <1>3, <2>2, <2>4
  <2>9. \A i \in 1..n : es[i].last + Gap < TimeOf[d]
    <3>1. CASE n = 0
      BY <3>1
    <3>2. CASE n # 0
      <4>1. n \in 1..n /\ es # <<>> /\ GapExceeded(es[n], d)
        BY <1>1, <1>6, <3>2
      <4>2. es[n].last + Gap < TimeOf[d]
        BY <1>2, <1>3, <4>1 DEF GapExceeded
      <4>3. PICK x \in b[n] : es[n].first <= TimeOf[x] /\ TimeOf[x] <= es[n].last
        BY <1>3, <4>1 DEF Covers
      <4>4. TimeOf[x] \in Nat
        BY <1>3, <4>1, <4>3, EncountersAssumption
      <4>5. es[n].first <= es[n].last
        BY <1>3, <4>1, <4>3, <4>4
      <4>6. \A i \in 1..n : i # n => es[i].last + Gap < es[n].first
        BY <1>1, <1>4, <4>1
      <4> QED BY <1>2, <1>3, <4>1, <4>2, <4>5, <4>6
    <3> QED BY <3>1, <3>2
  <2>10. \A i, j \in 1..(n + 1) : i < j => fs[i].last + Gap < fs[j].first
    <3> SUFFICES ASSUME NEW i \in 1..(n + 1), NEW j \in 1..(n + 1), i < j
                 PROVE  fs[i].last + Gap < fs[j].first
      OBVIOUS
    <3>1. i \in 1..n /\ fs[i] = es[i]
      BY <1>1, <2>4
    <3>2. CASE j = n + 1
      BY <2>3, <2>4, <2>9, <3>1, <3>2
    <3>3. CASE j # n + 1
      <4>1. j \in 1..n /\ fs[j] = es[j]
        BY <1>1, <2>4, <3>3
      <4> QED BY <1>4, <3>1, <4>1
    <3> QED BY <3>2, <3>3
  <2> HIDE DEF c
  <2>11. Divided(fs, c, E \cup {d})
    BY <2>4, <2>6, <2>7, <2>8, <2>10 DEF Divided
  <2> QED BY <2>1, <2>11
<1> QED BY <1>5, <1>6

\* What the walk computes of any set of detections.
LEMMA WalkDivides ==
  ASSUME NEW D \in SUBSET Dets
  PROVE  \E b : Divided(PlateWalk(D), b, D)
<1> DEFINE Good(E) == \E b : Divided(WalkOn(D)[E], b, E)
           X == {E \in SUBSET D : ~Good(E)}
<1>1. X = {}
  <2> SUFFICES ASSUME X # {} PROVE FALSE
    OBVIOUS
  <2>0. X \subseteq SUBSET Dets
    OBVIOUS
  <2> HIDE DEF X
  <2>1. PICK m \in X : \A E \in X : ~(E \subseteq m /\ E # m)
    BY <2>0, SmallestSet
  <2> USE DEF X
  <2>2. CASE m = {}
    <3>1. Divided(<<>>, <<>>, {})
      <4>1. <<>> \in Seq(Run) /\ Len(<<>>) = 0
        OBVIOUS
      <4>2. <<>> \in [1..0 -> SUBSET {}]
        OBVIOUS
      <4> QED BY <4>1, <4>2 DEF Divided
    <3> QED BY <2>1, <2>2, <3>1, WalkSteps
  <2>3. CASE m # {}
    <3> DEFINE d == Latest(m)
               E == m \ {d}
    <3>1. d \in m /\ m \in SUBSET Dets /\ \A x \in m : TimeOf[x] <= TimeOf[d]
      BY <2>3, LatestLast
    <3> HIDE DEF d
    <3>2. E \in SUBSET D /\ E \notin X /\ E \cup {d} = m
      BY <2>1, <3>1
    <3>3. PICK b : Divided(WalkOn(D)[E], b, E)
      BY <3>2
    <3>4. \E c : Divided(Walk(WalkOn(D)[E], d), c, E \cup {d})
      BY <3>1, <3>3, DividedStep
    <3>5. WalkOn(D)[m] = Walk(WalkOn(D)[E], d)
      BY <2>3, WalkSteps DEF d
    <3> QED BY <2>1, <3>2, <3>4, <3>5
  <2> QED BY <2>2, <2>3
<1>2. Good(D)
  BY <1>1
<1> QED BY <1>2, WalkSteps

\* The times of a run lie between its ends, and no two runs overlap.
LEMMA RunsApart ==
  ASSUME NEW D \in SUBSET Dets, NEW es, NEW b, Divided(es, b, D)
  PROVE  /\ Len(es) \in Nat /\ Gap \in Nat /\ \A x \in D : TimeOf[x] \in Nat
         /\ \A i \in 1..Len(es) :
              /\ es[i].first \in Nat /\ es[i].last \in Nat /\ es[i].first <= es[i].last
              /\ b[i] \subseteq D
              /\ \A x \in b[i] : es[i].first <= TimeOf[x] /\ TimeOf[x] <= es[i].last
         /\ \A i, j \in 1..Len(es) : i # j =>
              es[i].last + Gap < es[j].first \/ es[j].last + Gap < es[i].first
<1>1. Len(es) \in Nat /\ Gap \in Nat /\ \A x \in D : TimeOf[x] \in Nat
  BY EncountersAssumption DEF Divided
<1>2. \A i \in 1..Len(es) : /\ es[i].first \in Nat /\ es[i].last \in Nat /\ b[i] \subseteq D
                            /\ Covers(es[i], b[i])
  <2>1. /\ es \in Seq(Run) /\ b \in [1..Len(es) -> SUBSET D]
        /\ \A i \in 1..Len(es) : Covers(es[i], b[i])
    BY DEF Divided
  <2>2. \A i \in 1..Len(es) : es[i] \in Run
    BY <2>1
  <2>3. \A i \in 1..Len(es) : es[i].first \in Nat /\ es[i].last \in Nat
    BY <2>2 DEF Run
  <2> QED BY <2>1, <2>3
<1>3. \A i \in 1..Len(es) :
        \A x \in b[i] : es[i].first <= TimeOf[x] /\ TimeOf[x] <= es[i].last
  BY <1>2 DEF Covers
<1>4. \A i \in 1..Len(es) : \E x \in b[i] : TimeOf[x] = es[i].first
  BY <1>2 DEF Covers
<1>5. \A i \in 1..Len(es) : es[i].first <= es[i].last
  BY <1>1, <1>2, <1>3, <1>4
<1>6. \A i, j \in 1..Len(es) : i # j => i < j \/ j < i
  BY <1>1
<1> QED BY <1>1, <1>2, <1>3, <1>5, <1>6 DEF Divided

\* What a pass computes has a detection of the plate, among those it read,
\* at its beginning.
LEMMA ComputedEvidence ==
  ASSUME NEW r, NEW s, DOMAIN s \subseteq Dets, NEW known, NEW e \in EncountersOf(r, s, known)
  PROVE  /\ e.route = r /\ e.plate \in Plates /\ e.first \in Nat /\ e.last \in Nat
         /\ e.first <= e.last /\ e.turns = TurnCount(r, e.first, e.last, known)
         /\ \E d \in DOMAIN s : s[d] = e.plate /\ TimeOf[d] = e.first
<1>1. PICK p \in Plates : e \in LET es == PlateWalk({d \in DOMAIN s : s[d] = p}) IN
         {[plate |-> p, route |-> r, first |-> es[i].first, last |-> es[i].last,
           count |-> es[i].count,
           turns |-> TurnCount(r, es[i].first, es[i].last, known)] : i \in DOMAIN es}
  BY DEF EncountersOf
<1> DEFINE D == {d \in DOMAIN s : s[d] = p}
           es == PlateWalk(D)
<1>2. PICK i \in DOMAIN es :
         e = [plate |-> p, route |-> r, first |-> es[i].first, last |-> es[i].last,
              count |-> es[i].count,
              turns |-> TurnCount(r, es[i].first, es[i].last, known)]
  BY <1>1
<1>3. /\ e.plate = p /\ e.route = r /\ e.first = es[i].first /\ e.last = es[i].last
      /\ e.turns = TurnCount(r, e.first, e.last, known)
  BY <1>2
<1>0. D \in SUBSET Dets
  OBVIOUS
<1> HIDE DEF D
<1>4. PICK b : Divided(es, b, D)
  BY <1>0, WalkDivides
<1> HIDE DEF es
<1>5. i \in 1..Len(es)
  BY <1>2, <1>4 DEF Divided
<1>6. PICK d \in b[i] : TimeOf[d] = es[i].first
  BY <1>4, <1>5 DEF Divided, Covers
<1>7. d \in D
  BY <1>4, <1>5, <1>6 DEF Divided
<1>8. es[i].first \in Nat /\ es[i].last \in Nat /\ es[i].first <= es[i].last
  BY <1>0, <1>4, <1>5, RunsApart
<1> QED BY <1>3, <1>6, <1>7, <1>8 DEF D

\* The runs are the classes of the definition.
AreClasses(es, b, D) == \A i \in 1..Len(es) : \A d \in b[i] : Together(D, d) = b[i]

LEMMA RunsAreClasses ==
  ASSUME NEW D \in SUBSET Dets, NEW es, NEW b, Divided(es, b, D)
  PROVE  AreClasses(es, b, D)
<1> SUFFICES ASSUME NEW i \in 1..Len(es), NEW d \in b[i] PROVE Together(D, d) = b[i]
  BY DEF AreClasses
<1>0. /\ Gap \in Nat /\ \A x \in D : TimeOf[x] \in Nat
      /\ d \in D /\ b[i] \subseteq D
  BY RunsApart
<1>1. \A j \in 1..Len(es) : /\ es[j].first \in Nat /\ es[j].last \in Nat
                            /\ es[j].first <= es[j].last
  BY RunsApart
<1>2. \A j \in 1..Len(es) :
        \A x \in b[j] : es[j].first <= TimeOf[x] /\ TimeOf[x] <= es[j].last
  BY RunsApart
<1>3. \A j, k \in 1..Len(es) : j # k =>
        es[j].last + Gap < es[k].first \/ es[k].last + Gap < es[j].first
  BY RunsApart
<1>4. \A x \in D : \E j \in 1..Len(es) : x \in b[j]
  BY DEF Divided
<1>5. ASSUME NEW j \in 1..Len(es), NEW x \in b[j], NEW y \in b[j]
      PROVE  Linked(D, x, y)
  <2> SUFFICES ASSUME NEW z \in D, TimeOf[x] <= TimeOf[z], TimeOf[z] < TimeOf[y]
               PROVE  \E v \in D : TimeOf[z] < TimeOf[v] /\ TimeOf[v] <= TimeOf[z] + Gap
    BY DEF Linked
  <2>1. PICK k \in 1..Len(es) : z \in b[k]
    BY <1>4
  <2>2. /\ TimeOf[z] \in Nat /\ x \in D /\ y \in D /\ TimeOf[x] \in Nat /\ TimeOf[y] \in Nat
    BY <1>0, RunsApart
  <2>3. k = j
    <3>1. es[j].first <= TimeOf[z] /\ TimeOf[z] < es[j].last
      BY <1>1, <1>2, <2>2
    <3>2. es[k].first <= TimeOf[z] /\ TimeOf[z] <= es[k].last
      BY <1>2, <2>1
    <3>3. k # j => es[j].last + Gap < es[k].first \/ es[k].last + Gap < es[j].first
      BY <1>3
    <3>4. /\ es[j].first \in Nat /\ es[j].last \in Nat
          /\ es[k].first \in Nat /\ es[k].last \in Nat /\ Gap \in Nat
      BY <1>0, <1>1
    <3>5. ~(es[j].last + Gap < es[k].first)
      BY <2>2, <3>1, <3>2, <3>4
    <3>6. ~(es[k].last + Gap < es[j].first)
      BY <2>2, <3>1, <3>2, <3>4
    <3> QED BY <3>3, <3>5, <3>6
  <2>4. TimeOf[z] < es[j].last
    BY <1>1, <1>2, <2>2
  <2>5. \E v \in b[j] : TimeOf[z] < TimeOf[v] /\ TimeOf[v] <= TimeOf[z] + Gap
    BY <2>1, <2>3, <2>4 DEF Divided, Covers
  <2> QED BY <2>5, RunsApart
<1>6. ASSUME NEW j \in 1..Len(es), NEW k \in 1..Len(es), es[j].last + Gap < es[k].first,
             NEW x \in b[j], NEW y \in b[k]
      PROVE  ~Linked(D, x, y)
  <2> SUFFICES ASSUME Linked(D, x, y) PROVE FALSE
    OBVIOUS
  <2>1. PICK z \in b[j] : TimeOf[z] = es[j].last
    BY DEF Divided, Covers
  <2>2. x \in D /\ y \in D /\ z \in D
    BY RunsApart
  <2>3. TimeOf[x] <= TimeOf[z] /\ TimeOf[z] < TimeOf[y]
    <3>1. /\ es[j].last \in Nat /\ es[k].first \in Nat /\ Gap \in Nat
          /\ TimeOf[x] \in Nat /\ TimeOf[y] \in Nat
      BY <1>0, <1>1, <2>2
    <3>2. TimeOf[x] <= es[j].last /\ es[k].first <= TimeOf[y]
      BY <1>2
    <3> QED BY <1>6, <2>1, <3>1, <3>2
  <2>4. PICK v \in D : TimeOf[z] < TimeOf[v] /\ TimeOf[v] <= TimeOf[z] + Gap
    BY <2>2, <2>3 DEF Linked
  <2>5. PICK m \in 1..Len(es) : v \in b[m]
    BY <1>4
  <2>6. TimeOf[v] \in Nat /\ es[m].first <= TimeOf[v] /\ TimeOf[v] <= es[m].last
    BY <1>0, <1>2, <2>5
  <2>7. m # j
    BY <1>1, <2>1, <2>4, <2>6
  <2>8. CASE es[j].last + Gap < es[m].first
    BY <1>0, <1>1, <2>1, <2>4, <2>6, <2>8
  <2>9. CASE es[m].last + Gap < es[j].first
    BY <1>0, <1>1, <2>1, <2>4, <2>6, <2>9
  <2> QED BY <1>3, <2>7, <2>8, <2>9
<1>7. b[i] \subseteq Together(D, d)
  BY <1>0, <1>5 DEF Together
<1>8. ASSUME NEW e \in Together(D, d) PROVE e \in b[i]
  <2>1. e \in D /\ Linked(D, d, e) /\ Linked(D, e, d)
    BY DEF Together
  <2>2. PICK k \in 1..Len(es) : e \in b[k]
    BY <1>4, <2>1
  <2> QED BY <1>3, <1>6, <2>1, <2>2
<1> QED BY <1>7, <1>8

Classes(es, b, D) == {Together(D, d) : d \in D} = {b[i] : i \in 1..Len(es)}

LEMMA RunsAreAll ==
  ASSUME NEW D \in SUBSET Dets, NEW es, NEW b, Divided(es, b, D)
  PROVE  Classes(es, b, D)
<1>1. \A i \in 1..Len(es) : \A d \in b[i] : Together(D, d) = b[i]
  <2>1. AreClasses(es, b, D)
    BY RunsAreClasses
  <2> QED BY <2>1 DEF AreClasses
<1>2. \A i \in 1..Len(es) : b[i] \subseteq D /\ \E d \in b[i] : TRUE
  BY DEF Divided, Covers
<1>3. \A d \in D : \E i \in 1..Len(es) : d \in b[i]
  BY DEF Divided
<1>4. \A d \in D : Together(D, d) \in {b[i] : i \in 1..Len(es)}
  BY <1>1, <1>3
<1>5. \A i \in 1..Len(es) : b[i] \in {Together(D, d) : d \in D}
  BY <1>1, <1>2
<1> QED BY <1>4, <1>5 DEF Classes

LEMMA RunEnds ==
  ASSUME NEW D \in SUBSET Dets, NEW es, NEW b, Divided(es, b, D), NEW i \in 1..Len(es)
  PROVE  First(b[i]) = es[i].first /\ Final(b[i]) = es[i].last
<1>1. /\ es[i].first \in Nat /\ es[i].last \in Nat
      /\ \A t \in TimesOf(b[i]) : t \in Nat /\ es[i].first <= t /\ t <= es[i].last
  <2>1. /\ es[i].first \in Nat /\ es[i].last \in Nat /\ b[i] \subseteq D
        /\ \A x \in D : TimeOf[x] \in Nat
        /\ \A x \in b[i] : es[i].first <= TimeOf[x] /\ TimeOf[x] <= es[i].last
    BY RunsApart
  <2> QED BY <2>1 DEF TimesOf
<1>2. es[i].first \in TimesOf(b[i]) /\ es[i].last \in TimesOf(b[i])
  BY DEF Divided, Covers, TimesOf
<1>3. First(b[i]) = es[i].first
  <2>1. \A t \in TimesOf(b[i]) : (\A s \in TimesOf(b[i]) : t <= s) <=> t = es[i].first
    BY <1>1, <1>2
  <2> QED BY <1>2, <2>1 DEF First
<1>4. Final(b[i]) = es[i].last
  <2>1. \A t \in TimesOf(b[i]) : (\A s \in TimesOf(b[i]) : s <= t) <=> t = es[i].last
    BY <1>1, <1>2
  <2> QED BY <1>2, <2>1 DEF Final
<1> QED BY <1>3, <1>4

\* The encounters E of one plate are those classes, with their turns.
Grouped(E, r, s, known, p) ==
  LET D == {d \in DOMAIN s : s[d] = p}
      turns == IF r \in known THEN TurnsOf[r] ELSE {}
  IN  {<<e.first, e.last, e.count, e.turns>> : e \in {x \in E : x.plate = p}}
      = {<<First(C), Final(C), Cardinality(C),
           Cardinality({t \in turns : First(C) <= t /\ t <= Final(C)})>> :
           C \in {Together(D, d) : d \in D}}

LEMMA ComputedGroups ==
  ASSUME NEW r, NEW s, DOMAIN s \subseteq Dets, NEW known, NEW p \in Plates
  PROVE  Grouped(EncountersOf(r, s, known), r, s, known, p)
<1> DEFINE D == {d \in DOMAIN s : s[d] = p}
           turns == IF r \in known THEN TurnsOf[r] ELSE {}
           es == PlateWalk(D)
           Enc(i) == [plate |-> p, route |-> r, first |-> es[i].first, last |-> es[i].last,
                      count |-> es[i].count,
                      turns |-> TurnCount(r, es[i].first, es[i].last, known)]
           Turns(f, l) == Cardinality({t \in turns : f <= t /\ t <= l})
           Row(f, l, c, t) == <<f, l, c, t>>
           left == {Row(e.first, e.last, e.count, e.turns) :
                      e \in {x \in EncountersOf(r, s, known) : x.plate = p}}
           right == {Row(First(C), Final(C), Cardinality(C), Turns(First(C), Final(C))) :
                      C \in {Together(D, d) : d \in D}}
<1>1. \A e : e \in EncountersOf(r, s, known) /\ e.plate = p <=> \E i \in DOMAIN es : e = Enc(i)
  <2>1. EncountersOf(r, s, known) =
          UNION {LET fs == PlateWalk({d \in DOMAIN s : s[d] = q}) IN
         {[plate |-> q, route |-> r, first |-> fs[i].first, last |-> fs[i].last,
           count |-> fs[i].count,
           turns |-> TurnCount(r, fs[i].first, fs[i].last, known)] : i \in DOMAIN fs}
         : q \in Plates}
    BY DEF EncountersOf
  <2>2. \A e \in EncountersOf(r, s, known) : e.plate = p => \E i \in DOMAIN es : e = Enc(i)
    <3> SUFFICES ASSUME NEW e \in EncountersOf(r, s, known), e.plate = p
                 PROVE  \E i \in DOMAIN es : e = Enc(i)
      OBVIOUS
    <3>1. PICK q \in Plates : e \in LET fs == PlateWalk({d \in DOMAIN s : s[d] = q}) IN
         {[plate |-> q, route |-> r, first |-> fs[i].first, last |-> fs[i].last,
           count |-> fs[i].count,
           turns |-> TurnCount(r, fs[i].first, fs[i].last, known)] : i \in DOMAIN fs}
      BY <2>1
    <3>2. e.plate = q
      <4> DEFINE fs == PlateWalk({d \in DOMAIN s : s[d] = q})
      <4>1. PICK i \in DOMAIN fs :
              e = [plate |-> q, route |-> r, first |-> fs[i].first, last |-> fs[i].last,
                   count |-> fs[i].count,
                   turns |-> TurnCount(r, fs[i].first, fs[i].last, known)]
        BY <3>1
      <4> QED BY <4>1
    <3> QED BY <3>1, <3>2
  <2>3. \A i \in DOMAIN es : Enc(i) \in EncountersOf(r, s, known) /\ Enc(i).plate = p
    <3> SUFFICES ASSUME NEW i \in DOMAIN es
                 PROVE  Enc(i) \in EncountersOf(r, s, known) /\ Enc(i).plate = p
      OBVIOUS
    <3>1. Enc(i) \in {Enc(k) : k \in DOMAIN es}
      OBVIOUS
    <3>2. Enc(i).plate = p
      OBVIOUS
    <3>3. {Enc(k) : k \in DOMAIN es} \subseteq EncountersOf(r, s, known)
      <4> DEFINE F(q) == LET fs == PlateWalk({d \in DOMAIN s : s[d] = q}) IN
         {[plate |-> q, route |-> r, first |-> fs[k].first, last |-> fs[k].last,
           count |-> fs[k].count,
           turns |-> TurnCount(r, fs[k].first, fs[k].last, known)] : k \in DOMAIN fs}
      <4>1. EncountersOf(r, s, known) = UNION {F(q) : q \in Plates}
        BY <2>1
      <4>2. F(p) = {Enc(k) : k \in DOMAIN es}
        OBVIOUS
      <4> HIDE DEF F
      <4>3. F(p) \subseteq EncountersOf(r, s, known)
        BY <4>1
      <4> QED BY <4>2, <4>3
    <3> HIDE DEF Enc
    <3> QED BY <3>1, <3>2, <3>3
  <2> QED BY <2>2, <2>3
<1>2. D \in SUBSET Dets
  OBVIOUS
<1>3. \A f, l : TurnCount(r, f, l, known) = Turns(f, l)
  BY FS_EmptySet DEF TurnCount
<1> HIDE DEF D, turns
<1>4. PICK b : Divided(es, b, D)
  BY <1>2, WalkDivides
<1> HIDE DEF es, Turns
<1>5. DOMAIN es = 1..Len(es)
  BY <1>4 DEF Divided
<1>6. \A i \in 1..Len(es) :
        /\ First(b[i]) = es[i].first /\ Final(b[i]) = es[i].last
        /\ Cardinality(b[i]) = es[i].count
  <2> SUFFICES ASSUME NEW i \in 1..Len(es)
               PROVE  /\ First(b[i]) = es[i].first /\ Final(b[i]) = es[i].last
                      /\ Cardinality(b[i]) = es[i].count
    OBVIOUS
  <2>1. First(b[i]) = es[i].first /\ Final(b[i]) = es[i].last
    BY <1>2, <1>4, RunEnds
  <2> QED BY <1>4, <2>1 DEF Divided, Covers
<1>8. {Together(D, d) : d \in D} = {b[i] : i \in 1..Len(es)}
  <2>1. Classes(es, b, D)
    BY <1>2, <1>4, RunsAreAll
  <2> QED BY <2>1 DEF Classes
<1> DEFINE RowAt(i) == Row(es[i].first, es[i].last, es[i].count, Turns(es[i].first, es[i].last))
<1>9. left = {RowAt(i) : i \in 1..Len(es)}
  <2>1. \A i \in DOMAIN es : /\ Enc(i).first = es[i].first /\ Enc(i).last = es[i].last
                            /\ Enc(i).count = es[i].count
                            /\ Enc(i).turns = Turns(es[i].first, es[i].last)
    BY <1>3
  <2> HIDE DEF Enc, Row
  <2>2. \A i \in DOMAIN es : Row(Enc(i).first, Enc(i).last, Enc(i).count, Enc(i).turns) = RowAt(i)
    BY <2>1
  <2> HIDE DEF RowAt
  <2>3. left = {Row(e.first, e.last, e.count, e.turns) : e \in {Enc(i) : i \in DOMAIN es}}
    <3>1. {x \in EncountersOf(r, s, known) : x.plate = p} = {Enc(i) : i \in DOMAIN es}
      BY <1>1
    <3> QED BY <3>1
  <2>4. left = {Row(Enc(i).first, Enc(i).last, Enc(i).count, Enc(i).turns) : i \in DOMAIN es}
    BY <2>3
  <2> QED BY <1>5, <2>2, <2>4
<1>10. right = {RowAt(i) : i \in 1..Len(es)}
  <2> HIDE DEF Row
  <2>1. \A i \in 1..Len(es) :
          Row(First(b[i]), Final(b[i]), Cardinality(b[i]), Turns(First(b[i]), Final(b[i]))) = RowAt(i)
    BY <1>6
  <2> HIDE DEF RowAt
  <2>2. right = {Row(First(C), Final(C), Cardinality(C), Turns(First(C), Final(C))) :
                   C \in {b[i] : i \in 1..Len(es)}}
    BY <1>8
  <2>3. right = {Row(First(b[i]), Final(b[i]), Cardinality(b[i]), Turns(First(b[i]), Final(b[i]))) :
                   i \in 1..Len(es)}
    BY <2>2
  <2> QED BY <2>1, <2>3
<1> QED BY <1>9, <1>10 DEF Grouped, Row, Turns, turns, D

-----------------------------------------------------------------------------
(* The encounters and the detections. *)

\* What a pass computes belongs to its route, and what it computes of the
\* rows that are there has a detection to show.
LEMMA FiniteImage ==
  ASSUME NEW S, IsFiniteSet(S), NEW f, f = [x \in S |-> f[x]]
  PROVE  IsFiniteSet({f[x] : x \in S})
<1>1. f \in Surjection(S, {f[x] : x \in S})
  BY DEF Surjection
<1> QED BY <1>1, FS_Surjection

LEMMA TurnsCounted ==
  ASSUME NEW r, NEW known, known \subseteq Routes, NEW a \in Nat, NEW b \in Nat
  PROVE  TurnCount(r, a, b, known) \in Nat
<1> DEFINE S == {t \in TurnsOf[r] : a <= t /\ t <= b}
<1>1. CASE r \in known
  <2>1. TurnsOf[r] \subseteq Nat
    BY <1>1, EncountersAssumption
  <2>2. IsFiniteSet(a .. b) /\ S \subseteq a .. b
    BY <2>1, FS_Interval
  <2>3. Cardinality(S) \in Nat
    <3> HIDE DEF S
    <3> QED BY <2>2, FS_Subset, FS_CardinalityType
  <2> QED BY <1>1, <2>3 DEF TurnCount
<1> QED BY <1>1 DEF TurnCount

LEMMA ComputedFinite ==
  ASSUME NEW r, NEW s, DOMAIN s \subseteq Dets, NEW known
  PROVE  IsFiniteSet(EncountersOf(r, s, known))
<1> DEFINE D(p) == {d \in DOMAIN s : s[d] = p}
           F(p) == LET es == PlateWalk(D(p)) IN
              {[plate |-> p, route |-> r, first |-> es[i].first, last |-> es[i].last,
                count |-> es[i].count,
                turns |-> TurnCount(r, es[i].first, es[i].last, known)] : i \in DOMAIN es}
<1>1. EncountersOf(r, s, known) = UNION {F(p) : p \in Plates}
  BY DEF EncountersOf
<1>2. ASSUME NEW p \in Plates PROVE IsFiniteSet(F(p))
  <2> DEFINE es == PlateWalk(D(p))
             f == [i \in DOMAIN es |->
                     [plate |-> p, route |-> r, first |-> es[i].first, last |-> es[i].last,
                      count |-> es[i].count,
                      turns |-> TurnCount(r, es[i].first, es[i].last, known)]]
  <2>1. D(p) \in SUBSET Dets
    OBVIOUS
  <2>2. IsFiniteSet(DOMAIN es)
    <3> HIDE DEF D
    <3>1. PICK b : Divided(es, b, D(p))
      BY <2>1, WalkDivides
    <3>2. DOMAIN es = 1..Len(es) /\ Len(es) \in Nat
      BY <3>1 DEF Divided
    <3> QED BY <3>2, FS_Interval
  <2>3. IsFiniteSet({f[i] : i \in DOMAIN es})
    <3>1. f = [i \in DOMAIN es |-> f[i]]
      OBVIOUS
    <3> HIDE DEF f, es
    <3> QED BY <2>2, <3>1, FiniteImage
  <2>4. {f[i] : i \in DOMAIN es} = F(p)
    OBVIOUS
  <2> QED BY <2>3, <2>4
<1> DEFINE g == [p \in Plates |-> F(p)]
<1>3. IsFiniteSet({g[p] : p \in Plates})
  <2>1. g = [p \in Plates |-> g[p]] /\ IsFiniteSet(Plates)
    BY EncountersAssumption
  <2> HIDE DEF g
  <2> QED BY <2>1, FiniteImage
<1>4. {g[p] : p \in Plates} = {F(p) : p \in Plates}
  OBVIOUS
<1>5. IsFiniteSet(UNION {F(p) : p \in Plates})
  <2> HIDE DEF F, g
  <2> QED BY <1>2, <1>3, <1>4, FS_UNION
<1> QED BY <1>1, <1>5

LEMMA ComputedPlaced ==
  ASSUME NEW r, NEW s, DOMAIN s \subseteq Dets, NEW known, known \subseteq Routes
  PROVE  Placed(EncountersOf(r, s, known), r)
BY ComputedEvidence, ComputedFinite, TurnsCounted DEF Placed

LEMMA NothingPlaced == \A r : Placed({}, r)
BY FS_EmptySet DEF Placed

LEMMA SeenDomain == \A r : DOMAIN Seen(r) \subseteq Dets
BY DEF Seen, DetsOn

LEMMA ComputedBacked ==
  ASSUME NEW r, NEW known, NEW e \in EncountersOf(r, Seen(r), known)
  PROVE  Backed(e) /\ Shown(e)
<1>1. PICK d \in DOMAIN Seen(r) : Seen(r)[d] = e.plate /\ TimeOf[d] = e.first
  BY SeenDomain, ComputedEvidence
<1>2. e.route = r /\ e.first \in Nat /\ e.last \in Nat /\ e.first <= e.last
  BY SeenDomain, ComputedEvidence
<1>3. d \in Evidence(e) /\ TimeOf[d] \in e.first .. e.last
  BY <1>1, <1>2 DEF Evidence
<1>4. d \in DetsOn(r) /\ plate[d] = e.plate
  BY <1>1 DEF Seen
<1>5. Backed(e)
  BY <1>3 DEF Backed, TimesOf
<1> QED BY <1>1, <1>2, <1>4, <1>5 DEF Shown

\* The turn rows of other routes do not matter.
LEMMA KnownOfRoute ==
  ASSUME NEW r, NEW s, NEW k, NEW l, r \in k <=> r \in l
  PROVE  EncountersOf(r, s, k) = EncountersOf(r, s, l)
<1>1. \A a, b : TurnCount(r, a, b, k) = TurnCount(r, a, b, l)
  BY DEF TurnCount
<1> DEFINE Enc(p, i, m) ==
             LET es == PlateWalk({d \in DOMAIN s : s[d] = p}) IN
             [plate |-> p, route |-> r, first |-> es[i].first, last |-> es[i].last,
              count |-> es[i].count, turns |-> TurnCount(r, es[i].first, es[i].last, m)]
           Ids(p) == DOMAIN PlateWalk({d \in DOMAIN s : s[d] = p})
           F(p, m) == {Enc(p, i, m) : i \in Ids(p)}
<1>2. \A m : EncountersOf(r, s, m) = UNION {F(p, m) : p \in Plates}
  BY DEF EncountersOf
<1>3. \A p, i : Enc(p, i, k) = Enc(p, i, l)
  BY <1>1
<1> HIDE DEF Enc, Ids
<1>4. \A p : F(p, k) = F(p, l)
  BY <1>3
<1> HIDE DEF F
<1> QED BY <1>2, <1>4

LEMMA SeenKept ==
  ASSUME NEW r, UnchangedOn(r) PROVE Seen(r)' = Seen(r)
BY DEF Seen, UnchangedOn, DetsOn

LEMMA BackedKept ==
  ASSUME NEW r, UnchangedOn(r), NEW e, e.route = r
  PROVE  Backed(e)' <=> Backed(e)
<1>1. Evidence(e)' = Evidence(e)
  BY SeenKept DEF Evidence
<1> QED BY <1>1 DEF Backed

-----------------------------------------------------------------------------
(* Where the encounters are kept. *)

\* The steps that touch neither the tables nor the events of the pipeline.
Still == UNCHANGED <<plate, announced, turned, enc, completions, held, agg, corr,
                     stale, missed>>

LEMMA StillSteps ==
  ASSUME \/ Heuristic \/ Notify \/ UNCHANGED <<vars, retention>>
         \/ \E p \in Plates : \/ AddWhitelist(p) \/ RemoveRead(p)
                              \/ AckAlert(p) \/ UnackAlert(p)
         \/ RemoveRow \/ Reevaluate \/ ListFlagged
  PROVE  Still
<1>1. CASE Heuristic
  BY <1>1 DEF Still, Heuristic, TakeUpdate, WorkerBegins, ApiBegins, Begin, EvalStep,
              ReadRow, WriteRow, EmitAlert, encVars, pipe, rows, aggregate
<1>2. CASE Notify
  BY <1>2 DEF Still, Notify, TakeAlert, CheckDedup, Send, Record, WindowEnds, encVars, pipe,
              rows, aggregate
<1>3. CASE UNCHANGED <<vars, retention>>
  BY <1>3 DEF Still, vars, encVars, pipe, rows, aggregate
<1>4. CASE \/ \E p \in Plates : \/ AddWhitelist(p) \/ RemoveRead(p)
                                \/ AckAlert(p) \/ UnackAlert(p)
           \/ RemoveRow \/ Reevaluate \/ ListFlagged
  BY <1>4 DEF Still, AddWhitelist, RemoveRead, AckAlert, UnackAlert, Acknowledge,
              RemoveRow, Reevaluate, ListFlagged, encVars, pipe, rows, aggregate
<1> QED BY <1>1, <1>2, <1>3, <1>4

\* The steps of the pipeline and the corrections, by what they write.
Sources  == \/ \E d \in Dets : StoreDetection(d)
            \/ \E r \in Routes : Announce(r) \/ TurnsStored(r)
Requests == \E h \in Handlers : \/ CorrStep(h) \/ MergeRows(h)
                                \/ \E d \in Dets, q \in Plates : EditDetection(h, d, q)
                                \/ \E p, q \in Plates : MergeRoutes(h, p, q)
Deletes  == DeleteUnflagged \/ DeleteFlagged

LEMMA PipeSteps ==
  ASSUME [RetentionNext]_<<vars, retention>>
  PROVE  \/ Still \/ Sources \/ Receive \/ Requests \/ Deletes
         \/ \E w \in AggSlots : AggStep(w)
         \/ \E h \in Handlers : MergeTx(h)
         \/ Restart \/ DeleteOrphans
<1>1. CASE Encounters
  BY <1>1 DEF Encounters, Pipeline, Sources, Requests
<1>2. CASE Operator
  BY <1>2, StillSteps DEF Operator, Requests
<1>3. CASE SweepDetections
  BY <1>3, StillSteps DEF SweepDetections, Deletes
<1> QED BY <1>1, <1>2, <1>3, Steps, StillSteps

\* Outside of a pass, a merge, a restart and the retention's last delete the
\* encounters stay.
LEMMA EncountersStay ==
  ASSUME Still \/ Sources \/ Receive \/ Requests \/ Deletes
  PROVE  enc' = enc /\ agg' = agg
<1>1. CASE Still
  BY <1>1 DEF Still
<1>2. CASE Sources
  BY <1>2 DEF Sources, StoreDetection, Announce, TurnsStored, aggregate
<1>3. CASE Receive
  BY <1>3 DEF Receive
<1>4. CASE Requests
  BY <1>4 DEF Requests, CorrStep, EditTx, EditCollect, Retrigger, Respond, MergeRows,
              EditDetection, EditLoad, MergeRoutes, aggregate
<1>5. CASE Deletes
  BY <1>5 DEF Deletes, DeleteUnflagged, DeleteFlagged, Delete, aggregate
<1> QED BY <1>1, <1>2, <1>3, <1>4, <1>5

\* The pass that agg[w] holds, and what a step of it puts in its place.
PassPlaced(a) == Placed(a.encs, a.route) /\ DOMAIN a.seen \subseteq Dets

LEMMA PassSteps ==
  ASSUME AggType, turned \subseteq Routes, NEW w \in AggSlots, AggStep(w)
  PROVE  \E new :
           /\ agg' = [agg EXCEPT ![w] = new]
           /\ agg'[w] = new /\ \A x \in AggSlots : x # w => agg'[x] = agg[x]
           /\ PassPlaced(agg[w]) => PassPlaced(new)
<1>0. agg = [x \in AggSlots |-> agg[x]]
  BY DEF AggType
<1>1. \A new : agg' = [agg EXCEPT ![w] = new] =>
        agg'[w] = new /\ \A x \in AggSlots : x # w => agg'[x] = agg[x]
  BY <1>0
<1>2. PassPlaced(AggIdle)
  <2>1. AggIdle.encs = {} /\ AggIdle.seen = <<>>
    BY DEF AggIdle
  <2> QED BY <2>1, NothingPlaced DEF PassPlaced
<1>3. agg' = [agg EXCEPT ![w] = agg[w]] \/ \E new :
        agg' = [agg EXCEPT ![w] = new] /\ (PassPlaced(agg[w]) => PassPlaced(new))
  <2>1. CASE ListDetections(w)
    <3> DEFINE new == [pc |-> "count", route |-> held, seen |-> Seen(held), encs |-> {}]
    <3>1. PassPlaced(new)
      BY SeenDomain, NothingPlaced DEF PassPlaced
    <3>2. agg' = agg \/ agg' = [agg EXCEPT ![w] = new]
      BY <2>1 DEF ListDetections
    <3>3. agg = [agg EXCEPT ![w] = agg[w]]
      BY <1>0
    <3> HIDE DEF new
    <3> QED BY <3>1, <3>2, <3>3
  <2>2. CASE CountTurns(w)
    <3> DEFINE new == [pc |-> "persist", route |-> agg[w].route, seen |-> agg[w].seen,
                       encs |-> EncountersOf(agg[w].route, agg[w].seen, turned)]
    <3>1. /\ new.route = agg[w].route /\ new.seen = agg[w].seen
          /\ new.encs = EncountersOf(agg[w].route, agg[w].seen, turned)
      OBVIOUS
    <3>2. agg' = [agg EXCEPT ![w] = AggIdle] \/ agg' = [agg EXCEPT ![w] = new]
      BY <2>2 DEF CountTurns, GiveUp
    <3> HIDE DEF new
    <3>3. PassPlaced(agg[w]) => PassPlaced(new)
      BY <3>1, ComputedPlaced DEF PassPlaced
    <3> QED BY <1>2, <3>2, <3>3
  <2>3. CASE Persist(w)
    <3> DEFINE new == [agg[w] EXCEPT !.pc = "emit"]
    <3>1. agg[w] = [pc |-> agg[w].pc, route |-> agg[w].route, seen |-> agg[w].seen,
                    encs |-> agg[w].encs]
      BY DEF AggType
    <3>2. new.route = agg[w].route /\ new.seen = agg[w].seen /\ new.encs = agg[w].encs
      BY <3>1
    <3>3. agg' = [agg EXCEPT ![w] = AggIdle] \/ agg' = [agg EXCEPT ![w] = new]
      BY <2>3 DEF Persist, GiveUp, Goto
    <3> HIDE DEF new
    <3> QED BY <1>2, <3>2, <3>3 DEF PassPlaced
  <2>4. CASE EmitUpdate(w)
    BY <1>2, <2>4 DEF EmitUpdate
  <2> QED BY <2>1, <2>2, <2>3, <2>4 DEF AggStep
<1> QED BY <1>1, <1>3

LEMMA PlacedNext ==
  ASSUME Typed, InPlace, [RetentionNext]_<<vars, retention>>
  PROVE  InPlace'
<1>0. /\ \A r \in Routes : Placed(enc[r], r)
      /\ \A w \in AggSlots : PassPlaced(agg[w])
  BY DEF InPlace, PassPlaced
<1>00. enc = [r \in Routes |-> enc[r]] /\ \A r \in Routes : EncOK(enc[r])
  BY DEF Typed, EncType
<1>000. turned' \subseteq Routes
  <2>1. CASE Sources
    BY <2>1 DEF InPlace, Sources, StoreDetection, Announce, TurnsStored
  <2>2. CASE Requests
    BY <2>2 DEF InPlace, Requests, CorrStep, EditTx, EditCollect, Retrigger, Respond,
                MergeRows, EditDetection, EditLoad, MergeRoutes, rows
  <2>3. CASE Still \/ Receive \/ Deletes \/ Restart \/ DeleteOrphans
    BY <2>3 DEF InPlace, Still, Receive, Deletes, DeleteUnflagged, DeleteFlagged, Delete,
                Restart, DeleteOrphans, rows
  <2>4. ASSUME NEW w \in AggSlots, AggStep(w) PROVE turned' \subseteq Routes
    BY <2>4 DEF InPlace, AggStep, ListDetections, CountTurns, Persist, EmitUpdate, rows
  <2>5. ASSUME NEW h \in Handlers, MergeTx(h) PROVE turned' \subseteq Routes
    BY <2>5 DEF InPlace, MergeTx
  <2> QED BY <2>1, <2>2, <2>3, <2>4, <2>5, PipeSteps
<1>1. CASE Still \/ Sources \/ Receive \/ Requests \/ Deletes
  BY <1>000, <1>1, EncountersStay DEF InPlace
<1>2. ASSUME NEW w \in AggSlots, AggStep(w) PROVE InPlace'
  <2>1. \A x \in AggSlots : PassPlaced(agg'[x])
    BY <1>0, <1>2, PassSteps DEF Typed, InPlace
  <2>2. enc' = enc \/ enc' = [enc EXCEPT ![agg[w].route] = agg[w].encs]
    BY <1>2 DEF AggStep, ListDetections, CountTurns, Persist, EmitUpdate
  <2>3. Placed(agg[w].encs, agg[w].route)
    BY <1>0 DEF PassPlaced
  <2>4. \A r \in Routes : Placed(enc'[r], r)
    BY <1>0, <1>00, <2>2, <2>3
  <2> QED BY <1>000, <2>1, <2>4 DEF InPlace, PassPlaced
<1>3. ASSUME NEW h \in Handlers, MergeTx(h) PROVE InPlace'
  <2> DEFINE p == corr[h].from
             q == corr[h].to
  <2>1. /\ agg' = agg
        /\ enc' = enc \/ enc' = [r \in Routes |-> Renamed(enc[r], p, q)]
    BY <1>3 DEF MergeTx
  <2>2. ASSUME NEW r \in Routes PROVE Placed(Renamed(enc[r], p, q), r)
    <3> DEFINE g == [e \in enc[r] |-> [e EXCEPT !.plate = IF @ = p THEN q ELSE @]]
    <3>1. IsFiniteSet(enc[r])
      BY <1>0 DEF Placed
    <3>2. {g[e] : e \in enc[r]} = Renamed(enc[r], p, q)
      BY DEF Renamed
    <3>3. IsFiniteSet(Renamed(enc[r], p, q))
      <4>1. g = [e \in enc[r] |-> g[e]]
        OBVIOUS
      <4> HIDE DEF g
      <4> QED BY <3>1, <3>2, <4>1, FiniteImage
    <3>4. ASSUME NEW e \in enc[r], NEW f, f = [e EXCEPT !.plate = IF @ = p THEN q ELSE @]
          PROVE  f.route = r /\ f.first \in Nat /\ f.last \in Nat /\ f.turns \in Nat
      <4>1. e.route = r /\ e.first \in Nat /\ e.last \in Nat /\ e.turns \in Nat
        BY <1>0 DEF Placed
      <4>2. e = [plate |-> e.plate, route |-> e.route, first |-> e.first, last |-> e.last,
                 count |-> e.count, turns |-> e.turns]
        BY <1>00 DEF EncOK
      <4> QED BY <3>4, <4>1, <4>2
    <3>5. \A f \in Renamed(enc[r], p, q) :
            f.route = r /\ f.first \in Nat /\ f.last \in Nat /\ f.turns \in Nat
      BY <3>4 DEF Renamed
    <3> QED BY <3>3, <3>5 DEF Placed
  <2> HIDE DEF p, q
  <2>3. \A r \in Routes : Placed(enc'[r], r)
    BY <1>0, <2>1, <2>2
  <2> QED BY <1>0, <1>000, <2>1, <2>3 DEF InPlace, PassPlaced
<1>4. CASE Restart
  <2>1. enc' = enc /\ \A w \in AggSlots : agg'[w] = AggIdle
    BY <1>4 DEF Restart
  <2>2. PassPlaced(AggIdle)
    <3>1. AggIdle.encs = {} /\ AggIdle.seen = <<>>
      BY DEF AggIdle
    <3> QED BY <3>1, NothingPlaced DEF PassPlaced
  <2> QED BY <1>0, <1>000, <2>1, <2>2 DEF InPlace, PassPlaced
<1>5. CASE DeleteOrphans
  <2>1. agg' = agg /\ (enc' = enc \/ enc' = [r \in Routes |-> {e \in enc[r] : Shown(e)}])
    BY <1>5 DEF DeleteOrphans
  <2>2. \A r \in Routes : enc'[r] \subseteq enc[r]
    BY <2>1
  <2>3. \A r \in Routes : Placed(enc'[r], r)
    BY <1>0, <2>2, FS_Subset DEF Placed
  <2> QED BY <1>0, <1>000, <2>1, <2>3 DEF InPlace, PassPlaced
<1> QED BY <1>1, <1>2, <1>3, <1>4, <1>5, PipeSteps

-----------------------------------------------------------------------------
(* What is on its way to a route. *)

InChannel(c, r) == \E i \in DOMAIN c : c[i] = r

Names(c, r) == \/ c.pc = "collect" /\ r = RouteOf[c.det]
               \/ c.pc = "send" /\ r \in c.routes

LEMMA PendingParts ==
  ASSUME NEW r
  PROVE  /\ Pending(r) <=> \/ r = held \/ InChannel(completions, r)
                           \/ \E h \in Handlers : Names(corr[h], r)
         /\ Pending(r)' <=> \/ r = held' \/ InChannel(completions', r)
                            \/ \E h \in Handlers : Names(corr'[h], r)
BY DEF Pending, InChannel, Names

LEMMA SendReaches ==
  ASSUME EncType, NEW r \in Routes, SendCompletion(r)
  PROVE  /\ InChannel(completions', r) \/ r \in stale'
         /\ \A x : InChannel(completions, x) => InChannel(completions', x)
         /\ stale \subseteq stale'
<1>1. completions \in Seq(Routes)
  BY DEF EncType
<1>2. CASE completions' = Append(completions, r) /\ UNCHANGED stale
  <2>1. /\ DOMAIN completions = 1..Len(completions) /\ Len(completions) \in Nat
        /\ DOMAIN completions' = 1..(Len(completions) + 1)
        /\ completions'[Len(completions) + 1] = r
        /\ \A i \in 1..Len(completions) : completions'[i] = completions[i]
    BY <1>1, <1>2
  <2> QED BY <1>2, <2>1 DEF InChannel
<1>3. CASE stale' = stale \cup {r} /\ UNCHANGED completions
  BY <1>3
<1> QED BY <1>2, <1>3 DEF SendCompletion

\* The stored detections of a route keep their plates ...
Steady(r) == \A d \in DetsOn(r) : plate[d] \in Plates => plate'[d] = plate[d]

\* ... and what a step leaves of a route that is kept afterwards.
Stays(r) == /\ Kept(r) /\ Steady(r) /\ (r \in turned' <=> r \in turned)
            /\ r \in announced' => r \in announced /\ UnchangedOn(r)

LEMMA StaysClean ==
  ASSUME NEW r, Kept(r)' => Stays(r), Clean(r)'
  PROVE  Clean(r) /\ UnchangedOn(r) /\ (r \in turned' <=> r \in turned)
BY DEF Clean, Stays

LEMMA SteadyUnchanged == \A r : UnchangedOn(r) => Steady(r)
BY DEF UnchangedOn, Steady

\* What a step of the detector or the turn detector changes of a route, it
\* has an event for or records.
LEMMA KeptSources ==
  ASSUME EncType, Sources, NEW r \in Routes, Kept(r)'
  PROVE  Stays(r)
<1>1. CASE \E d \in Dets : StoreDetection(d)
  <2>1. PICK d \in Dets : StoreDetection(d)
    BY <1>1
  <2>2. UNCHANGED <<announced, turned, held, completions, corr, missed>>
    BY <2>1 DEF StoreDetection, aggregate
  <2>3. r \in announced => RouteOf[d] # r
    BY <2>1 DEF StoreDetection, Kept
  <2>4. stale \subseteq stale'
    BY <2>1 DEF StoreDetection
  <2>5. plate[d] \notin Plates /\ \A x \in Dets : x # d => plate'[x] = plate[x]
    BY <2>1, EncountersAssumption DEF StoreDetection, EncType
  <2>6. Steady(r)
    BY <2>5 DEF Steady, DetsOn
  <2>7. r \in announced => UnchangedOn(r)
    BY <2>3, <2>5 DEF UnchangedOn, DetsOn
  <2>8. Kept(r)
    BY <2>2, <2>4, PendingParts DEF Kept
  <2> QED BY <2>2, <2>6, <2>7, <2>8 DEF Stays
<1>2. CASE \E q \in Routes : Announce(q)
  <2>1. PICK q \in Routes : Announce(q)
    BY <1>2
  <2>2. UNCHANGED <<plate, turned, held, corr, missed>> /\ SendCompletion(q)
        /\ announced' = announced \cup {q}
    BY <2>1 DEF Announce, aggregate
  <2>3. r # q
    BY <2>2, SendReaches, PendingParts DEF Kept
  <2>4. Pending(r) => Pending(r)'
    BY <2>2, SendReaches, PendingParts
  <2>5. Kept(r)
    BY <2>2, <2>3, <2>4, SendReaches DEF Kept
  <2> QED BY <2>2, <2>3, <2>5 DEF UnchangedOn, Steady, Stays
<1>3. CASE \E q \in Routes : TurnsStored(q)
  <2>1. PICK q \in Routes : TurnsStored(q)
    BY <1>3
  <2>2. /\ UNCHANGED <<plate, announced, held, completions, corr, missed>>
        /\ turned' = turned \cup {q} /\ stale' = stale \cup {q}
    BY <2>1 DEF TurnsStored, aggregate
  <2>3. r # q
    BY <2>2 DEF Kept
  <2> QED BY <2>2, <2>3, PendingParts DEF Kept, UnchangedOn, Steady, Stays
<1> QED BY <1>1, <1>2, <1>3 DEF Sources

\* The head of the channel becomes the held event, or is recorded.
LEMMA KeptReceive ==
  ASSUME EncType, Receive, NEW r \in Routes, Kept(r)'
  PROVE  Stays(r)
<1>1. /\ UNCHANGED <<plate, announced, turned, corr, missed>> /\ held = NoRoute
      /\ completions # <<>> /\ completions' = Tail(completions)
      /\ \/ held' = Head(completions) /\ UNCHANGED stale
         \/ UNCHANGED held /\ stale' = stale \cup {Head(completions)}
  BY DEF Receive, rows
<1>2. r # Head(completions)
  BY <1>1, PendingParts, SteadyUnchanged DEF Kept, Stays
<1>3. completions \in Seq(Routes) /\ Len(completions) \in Nat
  BY DEF EncType
<1>4. InChannel(completions, r) => InChannel(completions', r)
  <2> SUFFICES ASSUME NEW i \in DOMAIN completions, completions[i] = r
               PROVE  InChannel(completions', r)
    BY DEF InChannel
  <2>1. i \in 1..Len(completions) /\ i # 1
    BY <1>1, <1>2, <1>3
  <2>2. i - 1 \in DOMAIN completions' /\ completions'[i - 1] = completions[i]
    BY <1>1, <1>3, <2>1
  <2> QED BY <2>2 DEF InChannel
<1>5. r # held
  BY <1>1, EncountersAssumption
<1> QED BY <1>1, <1>4, <1>5, PendingParts DEF Kept, UnchangedOn, Steady, Stays

\* Replacing one correction: what it named before, it names afterwards.
LEMMA NamesKept ==
  ASSUME CorrType, NEW h \in Handlers, NEW new, corr' = [corr EXCEPT ![h] = new],
         NEW r, NEW S, Names(corr[h], r) => Names(new, r) \/ S
  PROVE  /\ (\E g \in Handlers : Names(corr[g], r)) =>
              (\E g \in Handlers : Names(corr'[g], r)) \/ S
         /\ Names(new, r) => \E g \in Handlers : Names(corr'[g], r)
<1>1. corr'[h] = new /\ \A g \in Handlers : g # h => corr'[g] = corr[g]
  BY DEF CorrType
<1> QED BY <1>1

LEMMA KeptCorrStep ==
  ASSUME EncType, CorrType, NEW h \in Handlers, CorrStep(h), NEW r \in Routes, Kept(r)'
  PROVE  Stays(r)
<1>0. /\ UNCHANGED <<announced, turned, held, missed>>
      /\ corr[h] \in CorrRec /\ CorrOK(corr[h])
  BY DEF CorrStep, EditTx, EditCollect, Retrigger, Respond, rows, aggregate, CorrType
<1>1. ~Names(CorrIdle, r)
  BY DEF Names, CorrIdle
<1>2. CASE EditTx(h)
  <2> DEFINE new == [corr[h] EXCEPT !.pc = "collect"]
             d == corr[h].det
  <2>1. UNCHANGED <<completions, stale>> /\ corr[h].pc = "edit" /\ d \in Dets
    BY <1>0, <1>2 DEF EditTx, CorrOK
  <2>2. ~Names(corr[h], r)
    BY <2>1 DEF Names
  <2>3. CASE plate' = plate /\ corr' = [corr EXCEPT ![h] = CorrIdle]
    <3>1. (\E g \in Handlers : Names(corr[g], r)) => \E g \in Handlers : Names(corr'[g], r)
      BY <2>2, <2>3, NamesKept
    <3> QED BY <1>0, <2>1, <2>3, <3>1, PendingParts DEF Kept, UnchangedOn, Steady, Stays
  <2>4. CASE /\ \E v : plate' = [plate EXCEPT ![d] = v]
             /\ corr' = [corr EXCEPT ![h] = new]
    <3>1. new.pc = "collect" /\ new.det = d
      BY <1>0 DEF CorrRec
    <3> HIDE DEF new
    <3>2. /\ (\E g \in Handlers : Names(corr[g], r)) => \E g \in Handlers : Names(corr'[g], r)
          /\ Names(new, r) => \E g \in Handlers : Names(corr'[g], r)
      BY <2>2, <2>4, NamesKept
    <3>3. ~Names(new, r)
      BY <3>2, PendingParts DEF Kept
    <3>4. RouteOf[d] # r
      BY <3>1, <3>3 DEF Names
    <3>5. UnchangedOn(r)
      <4> HIDE DEF d
      <4> QED BY <2>4, <3>4 DEF UnchangedOn, DetsOn, EncType
    <3> QED BY <1>0, <2>1, <3>2, <3>5, PendingParts, SteadyUnchanged DEF Kept, Stays
  <2>5. \/ plate' = plate /\ corr' = [corr EXCEPT ![h] = CorrIdle]
        \/ /\ \E v : plate' = [plate EXCEPT ![d] = v]
           /\ corr' = [corr EXCEPT ![h] = new]
    BY <1>2 DEF EditTx
  <2> QED BY <2>3, <2>4, <2>5
<1>3. CASE EditCollect(h)
  <2>1. PICK found \in SUBSET Routes :
          corr' = [corr EXCEPT ![h] = [corr[h] EXCEPT !.pc = "send",
                                          !.routes = {RouteOf[corr[h].det]} \cup found]]
    BY <1>3 DEF EditCollect
  <2> DEFINE new == [corr[h] EXCEPT !.pc = "send",
                                    !.routes = {RouteOf[corr[h].det]} \cup found]
  <2>2. new.pc = "send" /\ RouteOf[corr[h].det] \in new.routes
    BY <1>0 DEF CorrRec
  <2> HIDE DEF new
  <2>3. corr[h].pc = "collect" /\ UNCHANGED <<plate, completions, stale>>
    BY <1>3 DEF EditCollect, rows
  <2>4. Names(corr[h], r) => Names(new, r)
    BY <2>2, <2>3 DEF Names
  <2>5. corr' = [corr EXCEPT ![h] = new]
    BY <2>1 DEF new
  <2>6. (\E g \in Handlers : Names(corr[g], r)) => \E g \in Handlers : Names(corr'[g], r)
    BY <2>4, <2>5, NamesKept
  <2> QED BY <1>0, <2>3, <2>6, PendingParts DEF Kept, UnchangedOn, Steady, Stays
<1>4. CASE Retrigger(h)
  <2>1. PICK q \in corr[h].routes :
          /\ \/ SendCompletion(q)
             \/ stale' = stale \cup {q} /\ UNCHANGED completions
          /\ corr' = [corr EXCEPT ![h].routes = @ \ {q}]
    BY <1>4 DEF Retrigger
  <2>2. corr[h].pc = "send" /\ plate' = plate /\ q \in Routes
    BY <1>0, <1>4, <2>1 DEF Retrigger, rows, CorrRec
  <2> DEFINE new == [corr[h] EXCEPT !.routes = @ \ {q}]
  <2>3. new.pc = "send" /\ new.routes = corr[h].routes \ {q}
    BY <1>0, <2>2 DEF CorrRec
  <2>4. corr' = [corr EXCEPT ![h] = new]
    BY <2>1
  <2> HIDE DEF new
  <2>5. Names(corr[h], r) => Names(new, r) \/ r = q
    BY <2>2, <2>3 DEF Names
  <2>6. (\E g \in Handlers : Names(corr[g], r)) =>
          (\E g \in Handlers : Names(corr'[g], r)) \/ r = q
    BY <2>4, <2>5, NamesKept
  <2>7. /\ InChannel(completions', q) \/ q \in stale'
        /\ InChannel(completions, r) => InChannel(completions', r)
        /\ stale \subseteq stale'
    BY <2>1, <2>2, SendReaches
  <2>8. r # q
    BY <2>7, PendingParts DEF Kept
  <2> QED BY <1>0, <2>2, <2>6, <2>7, <2>8, PendingParts DEF Kept, UnchangedOn, Steady, Stays
<1>5. CASE Respond(h)
  <2>1. /\ corr' = [corr EXCEPT ![h] = CorrIdle] /\ corr[h].pc = "send"
        /\ corr[h].routes = {} /\ UNCHANGED <<plate, completions, stale>>
    BY <1>5 DEF Respond, rows
  <2>2. ~Names(corr[h], r)
    BY <2>1 DEF Names
  <2>3. (\E g \in Handlers : Names(corr[g], r)) => \E g \in Handlers : Names(corr'[g], r)
    BY <2>1, <2>2, NamesKept
  <2> QED BY <1>0, <2>1, <2>3, PendingParts DEF Kept, UnchangedOn, Steady, Stays
<1> QED BY <1>2, <1>3, <1>4, <1>5 DEF CorrStep

\* The corrections hand the routes they changed on, one step after the other.
LEMMA KeptRequests ==
  ASSUME EncType, CorrType, Requests, NEW r \in Routes, Kept(r)'
  PROVE  Stays(r)
<1>1. PICK h \in Handlers : \/ CorrStep(h) \/ MergeRows(h)
                            \/ \E d \in Dets, q \in Plates : EditDetection(h, d, q)
                            \/ \E p, q \in Plates : MergeRoutes(h, p, q)
  BY DEF Requests
<1>2. CASE ~CorrStep(h)
  <2>1. /\ UNCHANGED <<plate, announced, turned, held, completions, stale, missed>>
        /\ corr[h].pc \in {"idle", "rows"}
        /\ \E new : corr' = [corr EXCEPT ![h] = new]
    BY <1>1, <1>2 DEF EditDetection, EditLoad, MergeRoutes, MergeRows, rows, aggregate
  <2>2. ~Names(corr[h], r)
    BY <2>1 DEF Names
  <2>3. (\E g \in Handlers : Names(corr[g], r)) => \E g \in Handlers : Names(corr'[g], r)
    BY <2>1, <2>2, NamesKept
  <2> QED BY <2>1, <2>3, PendingParts DEF Kept, UnchangedOn, Steady, Stays
<1> QED BY <1>1, <1>2, KeptCorrStep

LEMMA KeptDeletes ==
  ASSUME EncType, Deletes \/ Still, NEW r \in Routes, Kept(r)'
  PROVE  Stays(r)
<1>1. CASE Still
  BY <1>1, PendingParts DEF Still, Kept, UnchangedOn, Steady, Stays
<1>2. CASE Deletes
  <2>1. PICK D, next : D \in SUBSET Dets /\ Delete(D, next)
    <3>1. \A t : Older(t) \subseteq Dets
      BY DEF Older
    <3> QED BY <1>2, <3>1 DEF Deletes, DeleteUnflagged, DeleteFlagged
  <2>2. /\ UNCHANGED <<announced, turned, held, completions, corr, missed>>
        /\ \/ UNCHANGED <<plate, stale>>
           \/ /\ plate' = [d \in Dets |-> IF d \in D THEN Pruned ELSE plate[d]]
              /\ stale' = stale \cup {RouteOf[d] : d \in D}
    BY <2>1 DEF Delete, aggregate
  <2>3. Kept(r)
    BY <2>2, PendingParts DEF Kept
  <2>4. UnchangedOn(r)
    BY <2>2 DEF Kept, UnchangedOn, DetsOn
  <2> QED BY <2>2, <2>3, <2>4, SteadyUnchanged DEF Stays
<1> QED BY <1>1, <1>2

-----------------------------------------------------------------------------
(* With one slot, what a settled route's encounters are. *)

LEMMA RightKept ==
  ASSUME NEW r \in Routes, Right(r),
         Clean(r)' => Clean(r) /\ UnchangedOn(r) /\ (r \in turned' <=> r \in turned),
         enc'[r] = enc[r], agg' = agg
  PROVE  Right(r)'
<1> SUFFICES ASSUME Clean(r)'
             PROVE  /\ Busy(r)' \/ enc'[r] = EncountersOf(r, Seen(r)', turned')
                    /\ \A w \in AggSlots : agg'[w].route = r =>
                         /\ agg'[w].pc = "count" => agg'[w].seen = Seen(r)'
                         /\ agg'[w].pc = "persist" =>
                              agg'[w].encs = EncountersOf(r, Seen(r)', turned')
  BY DEF Right
<1>1. Seen(r)' = Seen(r)
  BY SeenKept
<1>2. EncountersOf(r, Seen(r), turned') = EncountersOf(r, Seen(r), turned)
  BY KnownOfRoute
<1>3. Busy(r)' <=> Busy(r)
  BY DEF Busy
<1> QED BY <1>1, <1>2, <1>3 DEF Right

\* A step of the only slot.
LEMMA RightAgg ==
  ASSUME Typed, FreshInv, NEW w, AggSlots = {w}, AggStep(w), NEW r \in Routes, Clean(r)'
  PROVE  Right(r)'
<1> DEFINE a == agg[w]
<1>1. UNCHANGED <<plate, announced, turned, completions, corr>> /\ Seen(r)' = Seen(r)
  <2>1. UNCHANGED <<plate, announced, turned, completions, corr>>
    BY DEF AggStep, ListDetections, CountTurns, Persist, EmitUpdate, rows
  <2> QED BY <2>1 DEF Seen
<1>2. /\ enc = [x \in Routes |-> enc[x]] /\ agg = [x \in AggSlots |-> agg[x]]
      /\ a = [pc |-> a.pc, route |-> a.route, seen |-> a.seen, encs |-> a.encs]
  BY DEF Typed, EncType, AggType
<1>3. \A new : agg' = [agg EXCEPT ![w] = new] => agg'[w] = new
  BY <1>2
<1>4. /\ Busy(r) <=> a.route = r /\ a.pc \in {"count", "persist"}
      /\ Busy(r)' <=> agg'[w].route = r /\ agg'[w].pc \in {"count", "persist"}
  BY DEF Busy
<1>5. Right(r)' <=>
        /\ Busy(r)' \/ enc'[r] = EncountersOf(r, Seen(r), turned)
        /\ agg'[w].route = r =>
             /\ agg'[w].pc = "count" => agg'[w].seen = Seen(r)
             /\ agg'[w].pc = "persist" => agg'[w].encs = EncountersOf(r, Seen(r), turned)
  BY <1>1 DEF Right
<1>6. Clean(r) =>
        /\ Busy(r) \/ enc[r] = EncountersOf(r, Seen(r), turned)
        /\ a.route = r =>
             /\ a.pc = "count" => a.seen = Seen(r)
             /\ a.pc = "persist" => a.encs = EncountersOf(r, Seen(r), turned)
  BY DEF FreshInv, Right
<1>7. AggIdle.pc = "idle"
  BY DEF AggIdle
<1>8. (held' = held /\ stale \subseteq stale' /\ missed' = missed) => Clean(r)
  BY <1>1, PendingParts DEF Clean, Kept
<1>9. CASE ListDetections(w)
  <2>1. a.pc = "idle" /\ held # NoRoute /\ held' = NoRoute /\ enc' = enc
    BY <1>9 DEF ListDetections
  <2>2. r # NoRoute
    BY EncountersAssumption
  <2>3. r # held /\ r \notin stale \cup missed => Clean(r)
    BY <1>1, PendingParts DEF Clean, Kept
  <2>4. CASE agg' = agg /\ stale' = stale \cup {held} /\ missed' = missed
    <3>1. r # held /\ Clean(r)
      BY <2>3, <2>4 DEF Clean, Kept
    <3> QED BY <1>4, <1>5, <1>6, <2>1, <2>4, <3>1
  <2>5. CASE /\ stale' = stale \ {held} /\ missed' = missed \ {held}
             /\ agg' = [agg EXCEPT ![w] = [pc |-> "count", route |-> held,
                                           seen |-> Seen(held), encs |-> {}]]
    <3>1. agg'[w] = [pc |-> "count", route |-> held, seen |-> Seen(held), encs |-> {}]
      BY <1>3, <2>5
    <3>2. agg'[w].pc = "count" /\ agg'[w].route = held /\ agg'[w].seen = Seen(held)
      BY <3>1
    <3>3. CASE r = held
      BY <1>4, <1>5, <3>2, <3>3
    <3>4. CASE r # held
      <4>1. Clean(r)
        BY <2>3, <2>5, <3>4 DEF Clean, Kept
      <4> QED BY <1>4, <1>5, <1>6, <2>1, <3>2, <3>4, <4>1
    <3> QED BY <3>3, <3>4
  <2> QED BY <1>9, <2>4, <2>5 DEF ListDetections
<1>10. CASE CountTurns(w)
  <2>1. a.pc = "count" /\ held' = held /\ enc' = enc /\ missed' = missed
    BY <1>10 DEF CountTurns
  <2>2. CASE agg' = [agg EXCEPT ![w] = AggIdle] /\ stale' = stale \cup {a.route}
    <3>1. Clean(r) /\ r # a.route
      BY <1>8, <2>1, <2>2 DEF Clean, Kept
    <3> QED BY <1>3, <1>4, <1>5, <1>6, <1>7, <2>1, <2>2, <3>1
  <2>3. CASE /\ stale' = stale
             /\ agg' = [agg EXCEPT ![w] =
                  [pc |-> "persist", route |-> a.route, seen |-> a.seen,
                   encs |-> EncountersOf(a.route, a.seen, turned)]]
    <3>1. agg'[w] = [pc |-> "persist", route |-> a.route, seen |-> a.seen,
                     encs |-> EncountersOf(a.route, a.seen, turned)]
      BY <1>3, <2>3
    <3>2. /\ agg'[w].pc = "persist" /\ agg'[w].route = a.route
          /\ agg'[w].encs = EncountersOf(a.route, a.seen, turned)
      BY <3>1
    <3>3. Clean(r)
      BY <1>8, <2>1, <2>3
    <3>4. CASE r = a.route
      BY <1>4, <1>5, <1>6, <2>1, <3>2, <3>3, <3>4
    <3>5. CASE r # a.route
      BY <1>4, <1>5, <1>6, <2>1, <3>2, <3>3, <3>5
    <3> QED BY <3>4, <3>5
  <2> QED BY <1>10, <2>2, <2>3 DEF CountTurns, GiveUp
<1>11. CASE Persist(w)
  <2>1. a.pc = "persist" /\ held' = held /\ missed' = missed
    BY <1>11 DEF Persist
  <2>2. CASE /\ agg' = [agg EXCEPT ![w] = AggIdle] /\ stale' = stale \cup {a.route}
             /\ enc' = enc
    <3>1. Clean(r) /\ r # a.route
      BY <1>8, <2>1, <2>2 DEF Clean, Kept
    <3> QED BY <1>3, <1>4, <1>5, <1>6, <1>7, <2>1, <2>2, <3>1
  <2>3. CASE /\ stale' = stale /\ enc' = [enc EXCEPT ![a.route] = a.encs]
             /\ agg' = [agg EXCEPT ![w].pc = "emit"]
    <3> DEFINE new == [a EXCEPT !.pc = "emit"]
    <3>1. new.pc = "emit" /\ new.route = a.route
      BY <1>2
    <3>2. agg' = [agg EXCEPT ![w] = new]
      BY <2>3
    <3> HIDE DEF new
    <3>3. agg'[w].pc = "emit"
      BY <1>3, <3>1, <3>2
    <3>4. Clean(r)
      BY <1>8, <2>1, <2>3
    <3>5. enc'[r] = IF r = a.route THEN a.encs ELSE enc[r]
      BY <1>2, <2>3
    <3>6. CASE r = a.route
      BY <1>5, <1>6, <2>1, <3>3, <3>4, <3>5, <3>6
    <3>7. CASE r # a.route
      BY <1>4, <1>5, <1>6, <3>3, <3>4, <3>5, <3>7
    <3> QED BY <3>6, <3>7
  <2> QED BY <1>11, <2>2, <2>3 DEF Persist, GiveUp, Goto
<1>12. CASE EmitUpdate(w)
  <2>1. /\ a.pc = "emit" /\ held' = held /\ missed' = missed /\ enc' = enc /\ stale' = stale
        /\ agg' = [agg EXCEPT ![w] = AggIdle]
    BY <1>12 DEF EmitUpdate
  <2>2. Clean(r) /\ agg'[w].pc = "idle"
    BY <1>3, <1>7, <1>8, <2>1
  <2> QED BY <1>4, <1>5, <1>6, <2>1, <2>2
<1> QED BY <1>9, <1>10, <1>11, <1>12 DEF AggStep

\* A merge that leaves the plate's encounters out of a route.
LEMMA RenamedSame ==
  ASSUME NEW E, EncOK(E), NEW p, NEW q, \A e \in E : e.plate # p
  PROVE  Renamed(E, p, q) = E
<1>1. ASSUME NEW e \in E PROVE [e EXCEPT !.plate = IF @ = p THEN q ELSE @] = e
  <2>1. e = [plate |-> e.plate, route |-> e.route, first |-> e.first, last |-> e.last,
             count |-> e.count, turns |-> e.turns]
    BY DEF EncOK
  <2>2. e.plate # p
    OBVIOUS
  <2>3. [e EXCEPT !.plate = IF @ = p THEN q ELSE @] = [e EXCEPT !.plate = @]
    BY <2>2
  <2> QED BY <2>1, <2>3
<1> DEFINE F(e) == [e EXCEPT !.plate = IF @ = p THEN q ELSE @]
<1>2. Renamed(E, p, q) = {F(e) : e \in E}
  BY DEF Renamed
<1>3. \A e \in E : F(e) = e
  BY <1>1
<1> HIDE DEF F
<1> QED BY <1>2, <1>3

\* A merge names, or records, every route on which it changes something.
LEMMA MergeStays ==
  ASSUME Typed, NEW h \in Handlers, MergeTx(h), NEW r \in Routes, Kept(r)'
  PROVE  Kept(r) /\ UnchangedOn(r) /\ enc'[r] = enc[r] /\ agg' = agg
<1> DEFINE p == corr[h].from
           q == corr[h].to
           new == [corr[h] EXCEPT !.pc = "send"]
<1>1. /\ UNCHANGED <<announced, turned, held, agg, completions, stale>>
      /\ corr[h] \in CorrRec /\ corr[h].pc = "merge"
  BY DEF MergeTx, Typed, CorrType
<1>2. ~Names(corr[h], r) /\ ~Names(CorrIdle, r)
  BY <1>1 DEF Names, CorrIdle
<1>3. new.pc = "send" /\ new.routes = corr[h].routes
  BY <1>1 DEF CorrRec
<1> HIDE DEF new
<1>4. CASE UNCHANGED <<plate, enc, missed>> /\ corr' = [corr EXCEPT ![h] = CorrIdle]
  <2>1. (\E g \in Handlers : Names(corr[g], r)) => \E g \in Handlers : Names(corr'[g], r)
    BY <1>2, <1>4, NamesKept DEF Typed
  <2> QED BY <1>1, <1>4, <2>1, PendingParts DEF Kept, UnchangedOn
<1>5. CASE /\ plate' = [d \in Dets |-> IF plate[d] = p THEN q ELSE plate[d]]
           /\ enc' = [x \in Routes |-> Renamed(enc[x], p, q)]
           /\ missed' = missed \cup ((RoutesDetecting(p) \cup RoutesMeeting(p))
                                      \ corr[h].routes)
           /\ corr' = [corr EXCEPT ![h] = new]
  <2>1. /\ (\E g \in Handlers : Names(corr[g], r)) => \E g \in Handlers : Names(corr'[g], r)
        /\ Names(new, r) => \E g \in Handlers : Names(corr'[g], r)
    BY <1>2, <1>5, NamesKept DEF Typed
  <2>2. r \notin corr[h].routes
    BY <1>3, <2>1, PendingParts DEF Kept, Names
  <2>3. r \notin RoutesDetecting(p) /\ r \notin RoutesMeeting(p)
    BY <1>5, <2>2 DEF Kept
  <2> HIDE DEF p, q
  <2>4. UnchangedOn(r)
    BY <1>5, <2>3 DEF UnchangedOn, DetsOn, RoutesDetecting
  <2>5. EncOK(enc[r]) /\ \A e \in enc[r] : e.plate # p
    BY <2>3 DEF RoutesMeeting, PlatesIn, Typed, EncType
  <2>6. enc'[r] = enc[r]
    BY <1>5, <2>5, RenamedSame
  <2>7. Kept(r)
    BY <1>1, <1>5, <2>1, PendingParts DEF Kept
  <2> QED BY <1>1, <2>4, <2>6, <2>7
<1> QED BY <1>4, <1>5 DEF MergeTx, new

LEMMA RightMerge ==
  ASSUME Typed, FreshInv, NEW h \in Handlers, MergeTx(h), NEW r \in Routes
  PROVE  Right(r)'
<1> SUFFICES ASSUME Clean(r)' PROVE Right(r)'
  BY DEF Right
<1>1. Kept(r)' /\ UNCHANGED <<announced, turned>>
  BY DEF Clean, MergeTx
<1>2. Kept(r) /\ UnchangedOn(r) /\ enc'[r] = enc[r] /\ agg' = agg
  BY <1>1, MergeStays
<1>3. Clean(r)
  BY <1>1, <1>2 DEF Clean
<1> QED BY <1>1, <1>2, <1>3, RightKept DEF FreshInv

LEMMA RightRestart ==
  ASSUME FreshInv, Restart, NEW r \in Routes
  PROVE  Right(r)'
<1> SUFFICES ASSUME Clean(r)' PROVE Right(r)'
  BY DEF Right
<1>1. /\ UNCHANGED <<plate, announced, turned, enc, missed>>
      /\ stale' = stale \cup {x \in Routes : Pending(x) \/ Busy(x)}
      /\ \A w \in AggSlots : agg'[w] = AggIdle
  BY DEF Restart, rows
<1>2. Clean(r) /\ ~Busy(r)
  BY <1>1 DEF Clean, Kept
<1>3. enc[r] = EncountersOf(r, Seen(r), turned)
  BY <1>2 DEF FreshInv, Right
<1>4. Seen(r)' = Seen(r)
  BY <1>1 DEF Seen
<1>5. AggIdle.pc = "idle"
  BY DEF AggIdle
<1> QED BY <1>1, <1>3, <1>4, <1>5 DEF Right

\* The encounters of a settled route all have a detection to show.
LEMMA RightOrphans ==
  ASSUME Typed, FreshInv, DeleteOrphans, NEW r \in Routes
  PROVE  Right(r)'
<1> SUFFICES ASSUME Clean(r)' PROVE Right(r)'
  BY DEF Right
<1>1. /\ UNCHANGED <<plate, announced, turned, held, agg, completions, corr, stale, missed>>
      /\ enc' = enc \/ enc' = [x \in Routes |-> {e \in enc[x] : Shown(e)}]
  BY DEF DeleteOrphans, rows
<1>2. Clean(r) /\ UnchangedOn(r)
  BY <1>1, PendingParts DEF Clean, Kept, UnchangedOn
<1>3. CASE enc'[r] = enc[r]
  BY <1>1, <1>2, <1>3, RightKept DEF FreshInv
<1>4. CASE enc'[r] # enc[r]
  <2>1. enc'[r] = {e \in enc[r] : Shown(e)}
    BY <1>1, <1>4
  <2>2. enc[r] # EncountersOf(r, Seen(r), turned)
    BY <1>4, <2>1, ComputedBacked
  <2>3. Busy(r)
    BY <1>2, <2>2 DEF FreshInv, Right
  <2>4. Seen(r)' = Seen(r) /\ (Busy(r)' <=> Busy(r))
    BY <1>1 DEF Seen, Busy
  <2> QED BY <1>1, <1>2, <2>3, <2>4 DEF FreshInv, Right
<1> QED BY <1>3, <1>4

LEMMA FreshNext ==
  ASSUME Typed, FreshInv, NEW w, AggSlots = {w}, [RetentionNext]_<<vars, retention>>
  PROVE  FreshInv'
<1> SUFFICES ASSUME NEW r \in Routes PROVE Right(r)'
  BY DEF FreshInv
<1>0. EncType /\ CorrType /\ Right(r)
  BY DEF Typed, FreshInv
<1>1. CASE Still \/ Sources \/ Receive \/ Requests \/ Deletes
  <2>1. Clean(r)' => Clean(r) /\ UnchangedOn(r) /\ (r \in turned' <=> r \in turned)
    <3>1. Kept(r)' => Stays(r)
      BY <1>0, <1>1, KeptSources, KeptReceive, KeptRequests, KeptDeletes
    <3> QED BY <3>1, StaysClean
  <2> QED BY <1>0, <1>1, <2>1, EncountersStay, RightKept
<1>2. CASE AggStep(w)
  <2>1. CASE Clean(r)'
    BY <1>2, <2>1, RightAgg
  <2> QED BY <2>1 DEF Right
<1>3. CASE \E h \in Handlers : MergeTx(h)
  BY <1>3, RightMerge
<1> QED BY <1>1, <1>2, <1>3, PipeSteps, RightRestart, RightOrphans

-----------------------------------------------------------------------------
(* With any number of slots, what the retention leaves. *)

LEMMA EvidentKept ==
  ASSUME InPlace, NEW r \in Routes, Evident(r), UnchangedOn(r), enc'[r] \subseteq enc[r],
         \A w \in AggSlots : agg'[w] = agg[w] \/ agg'[w].pc \notin {"count", "persist"}
  PROVE  Evident(r)'
<1>1. Seen(r)' = Seen(r)
  BY SeenKept
<1>2. ASSUME NEW e \in enc'[r] PROVE Backed(e)'
  <2>1. e.route = r /\ Backed(e)
    BY DEF InPlace, Placed, Evident
  <2> QED BY <2>1, BackedKept
<1>3. ASSUME NEW w \in AggSlots, agg'[w].route = r
      PROVE  /\ agg'[w].pc = "count" => agg'[w].seen = Seen(r)'
             /\ agg'[w].pc = "persist" => \A e \in agg'[w].encs : Backed(e)'
  <2>1. CASE agg'[w] = agg[w]
    <3>1. agg[w].pc = "count" => agg[w].seen = Seen(r)
      BY <1>3, <2>1 DEF Evident
    <3>2. ASSUME agg[w].pc = "persist", NEW e \in agg[w].encs PROVE Backed(e)'
      <4>1. e.route = r /\ Backed(e)
        BY <1>3, <2>1, <3>2 DEF InPlace, Placed, Evident
      <4> QED BY <4>1, BackedKept
    <3> QED BY <1>1, <2>1, <3>1, <3>2
  <2>2. CASE agg'[w].pc \notin {"count", "persist"}
    BY <2>2
  <2> QED BY <2>1, <2>2
<1> QED BY <1>2, <1>3 DEF Evident

LEMMA EvidentAgg ==
  ASSUME Typed, InPlace, NEW w \in AggSlots, AggStep(w), NEW r \in Routes, Evident(r)
  PROVE  Evident(r)'
<1> DEFINE a == agg[w]
<1>1. UNCHANGED <<plate, turned>>
  BY DEF AggStep, ListDetections, CountTurns, Persist, EmitUpdate, rows
<1>2. /\ UnchangedOn(r) /\ Seen(r)' = Seen(r) /\ \A e : Backed(e)' <=> Backed(e)
  BY <1>1 DEF UnchangedOn, Seen, Backed, Evidence
<1>3. /\ enc = [x \in Routes |-> enc[x]] /\ agg = [x \in AggSlots |-> agg[x]]
      /\ a = [pc |-> a.pc, route |-> a.route, seen |-> a.seen, encs |-> a.encs]
  BY DEF Typed, EncType, AggType
<1>4. \A x \in AggSlots : x # w => agg'[x] = agg[x]
  BY PassSteps DEF Typed, InPlace
<1>5. \A new : agg' = [agg EXCEPT ![w] = new] => agg'[w] = new
  BY <1>3
<1>6. CASE enc' = enc /\ agg'[w].pc \notin {"count", "persist"}
  BY <1>2, <1>4, <1>6, EvidentKept
<1>7. CASE enc' = enc /\ agg' = agg
  BY <1>2, <1>7, EvidentKept
<1>8. AggIdle.pc = "idle"
  BY DEF AggIdle
<1>9. CASE ListDetections(w)
  <2> DEFINE new == [pc |-> "count", route |-> held, seen |-> Seen(held), encs |-> {}]
  <2>1. enc' = enc /\ (agg' = agg \/ agg' = [agg EXCEPT ![w] = new])
    BY <1>9 DEF ListDetections
  <2>2. CASE agg' = [agg EXCEPT ![w] = new]
    <3>1. agg'[w].pc = "count" /\ agg'[w].route = held /\ agg'[w].seen = Seen(held)
      BY <1>5, <2>2
    <3> QED BY <1>2, <1>4, <2>1, <3>1 DEF Evident
  <2> QED BY <1>7, <2>1, <2>2
<1>10. CASE CountTurns(w)
  <2> DEFINE new == [pc |-> "persist", route |-> a.route, seen |-> a.seen,
                     encs |-> EncountersOf(a.route, a.seen, turned)]
  <2>1. /\ a.pc = "count" /\ enc' = enc
        /\ agg' = [agg EXCEPT ![w] = AggIdle] \/ agg' = [agg EXCEPT ![w] = new]
    BY <1>10 DEF CountTurns, GiveUp
  <2>2. CASE agg' = [agg EXCEPT ![w] = new]
    <3>1. /\ agg'[w].pc = "persist" /\ agg'[w].route = a.route
          /\ agg'[w].encs = EncountersOf(a.route, a.seen, turned)
      BY <1>5, <2>2
    <3>2. a.route = r => a.seen = Seen(r)
      BY <2>1 DEF Evident
    <3>3. a.route = r => \A e \in agg'[w].encs : Backed(e)
      BY <3>1, <3>2, ComputedBacked
    <3> QED BY <1>2, <1>4, <2>1, <3>1, <3>3 DEF Evident
  <2> QED BY <1>5, <1>6, <1>8, <2>1, <2>2
<1>11. CASE Persist(w)
  <2> DEFINE new == [a EXCEPT !.pc = "emit"]
  <2>1. /\ a.pc = "persist"
        /\ \/ agg' = [agg EXCEPT ![w] = AggIdle] /\ enc' = enc
           \/ agg' = [agg EXCEPT ![w] = new] /\ enc' = [enc EXCEPT ![a.route] = a.encs]
    BY <1>11 DEF Persist, GiveUp, Goto
  <2>2. new.pc = "emit"
    BY <1>3
  <2> HIDE DEF new
  <2>3. CASE agg' = [agg EXCEPT ![w] = new] /\ enc' = [enc EXCEPT ![a.route] = a.encs]
    <3>1. agg'[w].pc = "emit"
      BY <1>5, <2>2, <2>3
    <3>2. enc'[r] = IF r = a.route THEN a.encs ELSE enc[r]
      BY <1>3, <2>3
    <3>3. \A e \in enc'[r] : Backed(e)
      BY <2>1, <3>2 DEF Evident
    <3> QED BY <1>2, <1>4, <3>1, <3>3 DEF Evident
  <2> QED BY <1>5, <1>6, <1>8, <2>1, <2>3
<1>12. CASE EmitUpdate(w)
  <2>1. enc' = enc /\ agg' = [agg EXCEPT ![w] = AggIdle]
    BY <1>12 DEF EmitUpdate
  <2> QED BY <1>5, <1>6, <1>8, <2>1
<1> QED BY <1>9, <1>10, <1>11, <1>12 DEF AggStep

\* A merge that leaves a swept route's detections alone has nothing to
\* rename there.
LEMMA EvidentMerge ==
  ASSUME Typed, InPlace, NEW h \in Handlers, MergeTx(h), NEW r \in Routes, Evident(r),
         UnchangedOn(r)
  PROVE  Evident(r)'
<1> DEFINE p == corr[h].from
           q == corr[h].to
<1>1. agg' = agg /\ p # q
  BY DEF MergeTx, Typed, CorrType, CorrOK
<1> HIDE DEF p, q
<1>2. CASE enc' = enc
  BY <1>1, <1>2, EvidentKept
<1>3. CASE /\ plate' = [d \in Dets |-> IF plate[d] = p THEN q ELSE plate[d]]
           /\ enc' = [x \in Routes |-> Renamed(enc[x], p, q)]
  <2>1. ASSUME NEW e \in enc[r], e.plate = p PROVE FALSE
    <3>1. Backed(e) /\ e.route = r
      BY DEF Evident, InPlace, Placed
    <3>2. PICK d \in DOMAIN Seen(r) : Seen(r)[d] = p
      BY <2>1, <3>1 DEF Backed, TimesOf, Evidence
    <3>3. d \in DetsOn(r) /\ d \in Dets /\ plate[d] = p
      BY <3>2 DEF Seen, DetsOn
    <3>4. plate'[d] = q /\ plate'[d] = plate[d]
      BY <1>3, <3>3 DEF UnchangedOn
    <3> QED BY <1>1, <3>3, <3>4
  <2>2. EncOK(enc[r])
    BY DEF Typed, EncType
  <2>3. enc'[r] = enc[r]
    BY <1>3, <2>1, <2>2, RenamedSame
  <2> QED BY <1>1, <2>3, EvidentKept
<1> QED BY <1>2, <1>3 DEF MergeTx, p, q

LEMMA EvidentOrphans ==
  ASSUME Typed, InPlace, NEW r \in Routes, plate' = plate, agg' = agg, ~Busy(r),
         enc'[r] = {e \in enc[r] : Shown(e)}
  PROVE  Evident(r)'
<1>1. ASSUME NEW e \in enc'[r] PROVE Backed(e)
  <2>1. /\ e \in enc[r] /\ e.route = r /\ e.first \in Nat /\ e.last \in Nat
        /\ e.plate \in Plates /\ Shown(e)
    BY DEF InPlace, Placed, Typed, EncType, EncOK
  <2>2. PICK d \in DetsOn(r) :
          plate[d] = e.plate /\ e.first <= TimeOf[d] /\ TimeOf[d] <= e.last
    BY <2>1 DEF Shown
  <2>3. TimeOf[d] \in Nat
    BY EncountersAssumption DEF DetsOn
  <2>4. d \in Evidence(e)
    BY <2>1, <2>2 DEF Evidence, Seen
  <2>5. TimeOf[d] \in e.first .. e.last
    BY <2>1, <2>2, <2>3
  <2> QED BY <2>4, <2>5 DEF Backed, TimesOf
<1>2. \A e : Backed(e)' <=> Backed(e)
  BY DEF Backed, Evidence, Seen
<1> QED BY <1>1, <1>2 DEF Evident, Busy

LEMMA SweptNext ==
  ASSUME Typed, InPlace, SweptInv, [RetentionNext]_<<vars, retention>>
  PROVE  SweptInv'
<1> SUFFICES ASSUME NEW r \in swept' PROVE Evident(r)'
  BY DEF SweptInv
<1>1. CASE DeleteOrphans
  <2>1. UNCHANGED <<plate, agg>>
    BY <1>1 DEF DeleteOrphans, rows
  <2>2. CASE enc' = enc /\ swept' = swept
    <3>1. r \in Routes /\ Evident(r) /\ UnchangedOn(r)
      BY <2>1, <2>2 DEF Typed, SweepType, SweptInv, UnchangedOn
    <3> QED BY <2>1, <2>2, <3>1, EvidentKept
  <2>3. CASE /\ enc' = [x \in Routes |-> {e \in enc[x] : Shown(e)}]
             /\ swept' = {x \in Routes : Thinned(x) /\ ~Busy(x)}
    BY <2>1, <2>3, EvidentOrphans
  <2> QED BY <1>1, <2>2, <2>3 DEF DeleteOrphans
<1>2. CASE ~DeleteOrphans
  <2>1. r \in swept /\ UnchangedOn(r)
    BY <1>2 DEF RetentionNext, retention, vars, encVars, pipe, rows, UnchangedOn
  <2>2. r \in Routes /\ Evident(r)
    BY <2>1 DEF Typed, SweepType, SweptInv
  <2>3. CASE Still \/ Sources \/ Receive \/ Requests \/ Deletes
    BY <2>1, <2>2, <2>3, EncountersStay, EvidentKept
  <2>4. CASE Restart
    <3>1. enc' = enc /\ \A w \in AggSlots : agg'[w].pc = "idle"
      BY <2>4 DEF Restart, AggIdle
    <3> QED BY <2>1, <2>2, <3>1, EvidentKept
  <2> QED BY <1>2, <2>1, <2>2, <2>3, <2>4, PipeSteps, EvidentAgg, EvidentMerge
<1> QED BY <1>1, <1>2

-----------------------------------------------------------------------------
(* With one slot, what the encounters of a kept route rest on. *)

\* What a step of a slot does, by its outcome.
Listed(w) ==
  /\ agg[w].pc = "idle" /\ held # NoRoute /\ held' = NoRoute /\ enc' = enc
  /\ stale' = stale \ {held} /\ missed' = missed \ {held}
  /\ agg'[w].pc = "count" /\ agg'[w].route = held /\ agg'[w].seen = Seen(held)

NotListed(w) ==
  /\ held # NoRoute /\ held' = NoRoute /\ enc' = enc
  /\ stale' = stale \cup {held} /\ missed' = missed /\ agg'[w] = agg[w]

Counted(w) ==
  /\ agg[w].pc = "count" /\ enc' = enc /\ UNCHANGED <<held, stale, missed>>
  /\ agg'[w].pc = "persist" /\ agg'[w].route = agg[w].route
  /\ agg'[w].encs = EncountersOf(agg[w].route, agg[w].seen, turned)

GaveUp(w) ==
  /\ agg[w].pc \in {"count", "persist"} /\ enc' = enc /\ UNCHANGED <<held, missed>>
  /\ agg'[w].pc = "idle" /\ stale' = stale \cup {agg[w].route}

Persisted(w) ==
  /\ agg[w].pc = "persist" /\ UNCHANGED <<held, stale, missed>>
  /\ agg'[w].pc = "emit" /\ agg'[w].route = agg[w].route /\ agg'[w].encs = agg[w].encs
  /\ \A r \in Routes : enc'[r] = IF r = agg[w].route THEN agg[w].encs ELSE enc[r]

Emitted(w) ==
  /\ agg[w].pc = "emit" /\ enc' = enc /\ UNCHANGED <<held, stale, missed>>
  /\ agg'[w].pc = "idle"

LEMMA SlotMoves ==
  ASSUME EncType, AggType, NEW w \in AggSlots, AggStep(w)
  PROVE  /\ UNCHANGED <<plate, announced, turned, completions, corr>>
         /\ \A x \in AggSlots : x # w => agg'[x] = agg[x]
         /\ \/ Listed(w) \/ NotListed(w) \/ Counted(w) \/ GaveUp(w)
            \/ Persisted(w) \/ Emitted(w)
<1>1. /\ enc = [x \in Routes |-> enc[x]] /\ agg = [x \in AggSlots |-> agg[x]]
      /\ agg[w] = [pc |-> agg[w].pc, route |-> agg[w].route, seen |-> agg[w].seen,
                   encs |-> agg[w].encs]
  BY DEF EncType, AggType
<1>2. \A new : agg' = [agg EXCEPT ![w] = new] =>
        agg'[w] = new /\ \A x \in AggSlots : x # w => agg'[x] = agg[x]
  BY <1>1
<1>3. UNCHANGED <<plate, announced, turned, completions, corr>>
  BY DEF AggStep, ListDetections, CountTurns, Persist, EmitUpdate, rows
<1>4. AggIdle.pc = "idle"
  BY DEF AggIdle
<1>5. CASE ListDetections(w)
  <2> DEFINE new == [pc |-> "count", route |-> held, seen |-> Seen(held), encs |-> {}]
  <2>1. /\ agg[w].pc = "idle" /\ held # NoRoute /\ held' = NoRoute /\ enc' = enc
        /\ \/ /\ stale' = stale \ {held} /\ missed' = missed \ {held}
              /\ agg' = [agg EXCEPT ![w] = new]
           \/ stale' = stale \cup {held} /\ missed' = missed /\ agg' = agg
    BY <1>5 DEF ListDetections
  <2>2. new.pc = "count" /\ new.route = held /\ new.seen = Seen(held)
    OBVIOUS
  <2> HIDE DEF new
  <2> QED BY <1>2, <1>3, <2>1, <2>2 DEF Listed, NotListed
<1>6. CASE CountTurns(w)
  <2> DEFINE new == [pc |-> "persist", route |-> agg[w].route, seen |-> agg[w].seen,
                     encs |-> EncountersOf(agg[w].route, agg[w].seen, turned)]
  <2>1. /\ agg[w].pc = "count" /\ held' = held /\ enc' = enc /\ missed' = missed
        /\ \/ stale' = stale /\ agg' = [agg EXCEPT ![w] = new]
           \/ stale' = stale \cup {agg[w].route} /\ agg' = [agg EXCEPT ![w] = AggIdle]
    BY <1>6 DEF CountTurns, GiveUp
  <2>2. /\ new.pc = "persist" /\ new.route = agg[w].route
        /\ new.encs = EncountersOf(agg[w].route, agg[w].seen, turned)
    OBVIOUS
  <2> HIDE DEF new
  <2> QED BY <1>2, <1>3, <1>4, <2>1, <2>2 DEF Counted, GaveUp
<1>7. CASE Persist(w)
  <2> DEFINE new == [agg[w] EXCEPT !.pc = "emit"]
  <2>1. /\ agg[w].pc = "persist" /\ held' = held /\ missed' = missed
        /\ \/ /\ stale' = stale /\ agg' = [agg EXCEPT ![w] = new]
              /\ enc' = [enc EXCEPT ![agg[w].route] = agg[w].encs]
           \/ /\ stale' = stale \cup {agg[w].route} /\ agg' = [agg EXCEPT ![w] = AggIdle]
              /\ enc' = enc
    BY <1>7 DEF Persist, GiveUp, Goto
  <2>2. new.pc = "emit" /\ new.route = agg[w].route /\ new.encs = agg[w].encs
    BY <1>1
  <2> HIDE DEF new
  <2>3. enc' = [enc EXCEPT ![agg[w].route] = agg[w].encs] =>
          \A r \in Routes : enc'[r] = IF r = agg[w].route THEN agg[w].encs ELSE enc[r]
    BY <1>1
  <2> QED BY <1>2, <1>3, <1>4, <2>1, <2>2, <2>3 DEF Persisted, GaveUp
<1>8. CASE EmitUpdate(w)
  <2>1. /\ agg[w].pc = "emit" /\ held' = held /\ missed' = missed /\ enc' = enc /\ stale' = stale
        /\ agg' = [agg EXCEPT ![w] = AggIdle]
    BY <1>8 DEF EmitUpdate
  <2> QED BY <1>2, <1>3, <1>4, <2>1 DEF Emitted
<1> QED BY <1>5, <1>6, <1>7, <1>8 DEF AggStep

LEMMA ShownKept ==
  ASSUME NEW r, Steady(r), NEW e, e.route = r, e.plate \in Plates, Shown(e)
  PROVE  Shown(e)'
BY DEF Shown, Steady

LEMMA SeenStays ==
  ASSUME NEW r, Steady(r), NEW d \in DOMAIN Seen(r)
  PROVE  d \in DOMAIN Seen(r)' /\ Seen(r)'[d] = Seen(r)[d]
BY DEF Seen, Steady

\* A step that leaves the route's detections their plates and adds neither
\* encounters nor a pass.
LEMMA AttestedKept ==
  ASSUME Typed, InPlace, NEW r \in Routes, Attested(r), enc'[r] \subseteq enc[r],
         Kept(r)' => /\ Kept(r) /\ Steady(r)
                     /\ agg' = agg \/ (~Busy(r) /\ \A w \in AggSlots : agg'[w].pc = "idle")
  PROVE  Attested(r)'
<1> SUFFICES ASSUME Kept(r)'
             PROVE  /\ Busy(r)' \/ \A e \in enc'[r] : Shown(e)'
                    /\ \A w \in AggSlots : agg'[w].route = r =>
                         /\ agg'[w].pc = "count" =>
                              \A d \in DOMAIN agg'[w].seen :
                                d \in DOMAIN Seen(r)' /\ Seen(r)'[d] = agg'[w].seen[d]
                         /\ agg'[w].pc = "persist" => \A e \in agg'[w].encs : Shown(e)'
  BY DEF Attested
<1>1. Kept(r) /\ Steady(r)
  OBVIOUS
<1>2. ~Busy(r) => \A e \in enc'[r] : Shown(e)'
  <2> SUFFICES ASSUME ~Busy(r), NEW e \in enc'[r] PROVE Shown(e)'
    OBVIOUS
  <2>1. e.route = r /\ e.plate \in Plates /\ Shown(e)
    BY <1>1 DEF Attested, InPlace, Placed, Typed, EncType, EncOK
  <2> QED BY <1>1, <2>1, ShownKept
<1>3. CASE ~Busy(r) /\ \A w \in AggSlots : agg'[w].pc = "idle"
  BY <1>2, <1>3
<1>4. CASE agg' = agg
  <2>1. Busy(r)' <=> Busy(r)
    BY <1>4 DEF Busy
  <2>2. ASSUME NEW w \in AggSlots, agg[w].route = r, agg[w].pc = "count",
               NEW d \in DOMAIN agg[w].seen
        PROVE  d \in DOMAIN Seen(r)' /\ Seen(r)'[d] = agg[w].seen[d]
    <3>1. d \in DOMAIN Seen(r) /\ Seen(r)[d] = agg[w].seen[d]
      BY <1>1, <2>2 DEF Attested
    <3> QED BY <1>1, <3>1, SeenStays
  <2>3. ASSUME NEW w \in AggSlots, agg[w].route = r, agg[w].pc = "persist",
               NEW e \in agg[w].encs
        PROVE  Shown(e)'
    <3>1. Shown(e)
      BY <1>1, <2>3 DEF Attested
    <3>2. e.route = r /\ e.plate \in Plates
      BY <2>3 DEF InPlace, Placed, Typed, AggType, EncOK
    <3> QED BY <1>1, <3>1, <3>2, ShownKept
  <2> QED BY <1>2, <1>4, <2>1, <2>2, <2>3
<1> QED BY <1>1, <1>3, <1>4

\* A pass computes encounters that have a detection to show.
LEMMA AttestedAgg ==
  ASSUME Typed, InPlace, AttestedInv, NEW w, AggSlots = {w}, AggStep(w), NEW r \in Routes
  PROVE  Attested(r)'
<1> SUFFICES ASSUME Kept(r)' PROVE Attested(r)'
  BY DEF Attested
<1>0. EncType /\ AggType /\ w \in AggSlots
  BY DEF Typed
<1>1. /\ UNCHANGED <<plate, announced, turned, completions, corr>>
      /\ \/ Listed(w) \/ NotListed(w) \/ Counted(w) \/ GaveUp(w)
         \/ Persisted(w) \/ Emitted(w)
  BY <1>0, SlotMoves
<1>2. Seen(r)' = Seen(r) /\ \A e : Shown(e)' <=> Shown(e)
  BY <1>1 DEF Seen, Shown
<1>3. /\ Busy(r) <=> agg[w].route = r /\ agg[w].pc \in {"count", "persist"}
      /\ Busy(r)' <=> agg'[w].route = r /\ agg'[w].pc \in {"count", "persist"}
  BY DEF Busy
<1>4. Attested(r)' <=>
        /\ Busy(r)' \/ \A e \in enc'[r] : Shown(e)
        /\ agg'[w].route = r =>
             /\ agg'[w].pc = "count" =>
                  \A d \in DOMAIN agg'[w].seen :
                    d \in DOMAIN Seen(r) /\ Seen(r)[d] = agg'[w].seen[d]
             /\ agg'[w].pc = "persist" => \A e \in agg'[w].encs : Shown(e)
  BY <1>2 DEF Attested
<1>5. Kept(r) =>
        /\ Busy(r) \/ \A e \in enc[r] : Shown(e)
        /\ agg[w].route = r =>
             /\ agg[w].pc = "count" =>
                  \A d \in DOMAIN agg[w].seen :
                    d \in DOMAIN Seen(r) /\ Seen(r)[d] = agg[w].seen[d]
             /\ agg[w].pc = "persist" => \A e \in agg[w].encs : Shown(e)
  BY DEF AttestedInv, Attested
<1>6. r # NoRoute
  BY EncountersAssumption
<1>7. held' = held /\ stale \subseteq stale' /\ missed' = missed => Kept(r)
  BY <1>1, PendingParts DEF Kept
<1>8. r # held /\ r \notin stale \cup missed => Kept(r)
  <2>1. Pending(r) => r = held \/ Pending(r)'
    BY <1>1, PendingParts
  <2> QED BY <2>1 DEF Kept
<1>9. CASE Listed(w)
  <2>1. CASE r = held
    BY <1>3, <1>4, <1>9, <2>1 DEF Listed
  <2>2. CASE r # held
    <3>1. Kept(r)
      BY <1>8, <1>9, <2>2 DEF Listed, Kept
    <3> QED BY <1>3, <1>4, <1>5, <1>9, <2>2, <3>1 DEF Listed
  <2> QED BY <2>1, <2>2
<1>10. CASE NotListed(w)
  <2>1. r # held /\ Kept(r)
    BY <1>8, <1>10 DEF NotListed, Kept
  <2> QED BY <1>3, <1>4, <1>5, <1>10, <2>1 DEF NotListed
<1>11. CASE Counted(w)
  <2>1. Kept(r)
    BY <1>7, <1>11 DEF Counted
  <2>2. CASE agg[w].route = r
    <3>1. ASSUME NEW e \in EncountersOf(r, agg[w].seen, turned) PROVE Shown(e)
      <4>1. DOMAIN agg[w].seen \subseteq Dets
        BY <1>0 DEF InPlace
      <4>2. /\ e.route = r /\ e.first \in Nat /\ e.last \in Nat /\ e.first <= e.last
            /\ \E d \in DOMAIN agg[w].seen : agg[w].seen[d] = e.plate /\ TimeOf[d] = e.first
        BY <4>1, ComputedEvidence
      <4>3. PICK d \in DOMAIN agg[w].seen : agg[w].seen[d] = e.plate /\ TimeOf[d] = e.first
        BY <4>2
      <4>4. d \in DOMAIN Seen(r) /\ Seen(r)[d] = e.plate
        BY <1>5, <1>11, <2>1, <2>2, <4>3 DEF Counted
      <4>5. d \in DetsOn(r) /\ plate[d] = e.plate
        BY <4>4 DEF Seen
      <4> QED BY <4>2, <4>3, <4>5 DEF Shown
    <3> QED BY <1>3, <1>4, <1>11, <2>2, <3>1 DEF Counted
  <2>3. CASE agg[w].route # r
    BY <1>3, <1>4, <1>5, <1>11, <2>1, <2>3 DEF Counted
  <2> QED BY <2>2, <2>3
<1>12. CASE GaveUp(w)
  <2>1. Kept(r) /\ r # agg[w].route
    BY <1>7, <1>12 DEF GaveUp, Kept
  <2> QED BY <1>3, <1>4, <1>5, <1>12, <2>1 DEF GaveUp
<1>13. CASE Persisted(w)
  <2>1. Kept(r)
    BY <1>7, <1>13 DEF Persisted
  <2> QED BY <1>3, <1>4, <1>5, <1>13, <2>1 DEF Persisted
<1>14. CASE Emitted(w)
  <2>1. Kept(r)
    BY <1>7, <1>14 DEF Emitted
  <2> QED BY <1>3, <1>4, <1>5, <1>14, <2>1 DEF Emitted
<1> QED BY <1>1, <1>9, <1>10, <1>11, <1>12, <1>13, <1>14

LEMMA AttestedNext ==
  ASSUME Typed, InPlace, AttestedInv, NEW w, AggSlots = {w},
         [RetentionNext]_<<vars, retention>>
  PROVE  AttestedInv'
<1> SUFFICES ASSUME NEW r \in Routes PROVE Attested(r)'
  BY DEF AttestedInv
<1>0. EncType /\ CorrType /\ Attested(r)
  BY DEF Typed, AttestedInv
<1>1. CASE Still \/ Sources \/ Receive \/ Requests \/ Deletes
  <2>1. Kept(r)' => Stays(r)
    BY <1>0, <1>1, KeptSources, KeptReceive, KeptRequests, KeptDeletes
  <2>2. enc' = enc /\ agg' = agg
    BY <1>1, EncountersStay
  <2> QED BY <1>0, <2>1, <2>2, AttestedKept DEF Stays
<1>2. CASE AggStep(w)
  BY <1>2, AttestedAgg
<1>3. CASE \E h \in Handlers : MergeTx(h)
  <2>1. Kept(r)' => Kept(r) /\ UnchangedOn(r) /\ enc'[r] = enc[r] /\ agg' = agg
    BY <1>3, MergeStays
  <2> SUFFICES ASSUME Kept(r)' PROVE Attested(r)'
    BY DEF Attested
  <2> QED BY <1>0, <2>1, SteadyUnchanged, AttestedKept
<1>4. CASE Restart
  <2>1. /\ UNCHANGED <<plate, enc, missed>>
        /\ stale' = stale \cup {x \in Routes : Pending(x) \/ Busy(x)}
        /\ \A x \in AggSlots : agg'[x] = AggIdle
    BY <1>4 DEF Restart, rows
  <2>2. Kept(r)' => Kept(r) /\ ~Busy(r) /\ Steady(r)
    BY <2>1 DEF Kept, Steady
  <2>3. AggIdle.pc = "idle"
    BY DEF AggIdle
  <2> QED BY <1>0, <2>1, <2>2, <2>3, AttestedKept
<1>5. CASE DeleteOrphans
  <2>1. /\ UNCHANGED <<plate, held, agg, completions, corr, stale, missed>>
        /\ enc' = enc \/ enc' = [x \in Routes |-> {e \in enc[x] : Shown(e)}]
    BY <1>5 DEF DeleteOrphans, rows
  <2>2. Kept(r)' => Kept(r) /\ Steady(r)
    BY <2>1, PendingParts DEF Kept, Steady
  <2>3. enc'[r] \subseteq enc[r]
    BY <2>1
  <2> QED BY <1>0, <2>1, <2>2, <2>3, AttestedKept
<1> QED BY <1>1, <1>2, <1>3, <1>4, <1>5, PipeSteps

LEMMA AttestedInit == RetentionInit => AttestedInv
<1> SUFFICES ASSUME RetentionInit, NEW r \in Routes PROVE Attested(r)
  BY DEF AttestedInv
<1>1. /\ \A w \in AggSlots : agg[w] = AggIdle
      /\ enc = [x \in Routes |-> IF x \in Done THEN EncountersOf(x, Seen(x), turned) ELSE {}]
  BY DEF RetentionInit, AlertsInit, EncInit
<1>2. AggIdle.pc = "idle"
  BY DEF AggIdle
<1>3. \A e \in enc[r] : Shown(e)
  BY <1>1, ComputedBacked
<1> QED BY <1>1, <1>2, <1>3 DEF Attested

-----------------------------------------------------------------------------
(* The encounters that stay as they are until their plate is named. *)

\* The retention takes encounters only from routes that an event or a pass
\* is still on its way to, or that it has thinned itself.
SparesCalm == DeleteOrphans => \A r \in Routes : Calm(r) => enc'[r] = enc[r]

\* With one slot, the encounters of a calm route have something to show.
LEMMA CalmSpared == ASSUME InPlace, Typed, AttestedInv PROVE SparesCalm
<1> SUFFICES ASSUME DeleteOrphans, NEW r \in Routes, Calm(r) PROVE enc'[r] = enc[r]
  BY DEF SparesCalm
<1>1. enc' = enc \/ enc' = [x \in Routes |-> {e \in enc[x] : Shown(e)}]
  BY DEF DeleteOrphans
<1>2. \A e \in enc[r] : Shown(e)
  BY DEF AttestedInv, Attested, Calm
<1> QED BY <1>1, <1>2

\* A route comes to rest only through a pass that is about to name the
\* plates of its encounters.
LEMMA CalmSteps ==
  ASSUME Typed, SparesCalm,
         [RetentionNext]_<<vars, retention>>, NEW r \in Routes, Calm(r)'
  PROVE  \/ Calm(r) /\ enc'[r] = enc[r]
         \/ \E x \in AggSlots : agg'[x].pc = "emit" /\ enc'[r] = agg'[x].encs
<1>0. EncType /\ CorrType /\ AggType /\ Kept(r)' /\ ~Busy(r)'
  BY DEF Typed, Calm
<1>1. agg' = agg => ~Busy(r)
  BY <1>0 DEF Busy
<1>2. CASE Still \/ Sources \/ Receive \/ Requests \/ Deletes
  <2>1. Stays(r)
    BY <1>0, <1>2, KeptSources, KeptReceive, KeptRequests, KeptDeletes
  <2>2. enc' = enc /\ agg' = agg
    BY <1>2, EncountersStay
  <2> QED BY <1>1, <2>1, <2>2 DEF Stays, Calm
<1>3. ASSUME NEW w \in AggSlots, AggStep(w)
      PROVE  \/ Calm(r) /\ enc'[r] = enc[r]
             \/ \E x \in AggSlots : agg'[x].pc = "emit" /\ enc'[r] = agg'[x].encs
  <2>1. /\ UNCHANGED <<plate, announced, turned, completions, corr>>
        /\ \A x \in AggSlots : x # w => agg'[x] = agg[x]
        /\ \/ Listed(w) \/ NotListed(w) \/ Counted(w) \/ GaveUp(w)
           \/ Persisted(w) \/ Emitted(w)
    BY <1>0, <1>3, SlotMoves
  <2>2. /\ Busy(r) => agg[w].route = r /\ agg[w].pc \in {"count", "persist"}
        /\ ~(agg'[w].route = r /\ agg'[w].pc \in {"count", "persist"})
    BY <1>0, <2>1 DEF Busy
  <2>3. held' = held /\ stale \subseteq stale' /\ missed' = missed => Kept(r)
    BY <1>0, <2>1, PendingParts DEF Kept
  <2>4. r # held /\ r \notin stale \cup missed => Kept(r)
    <3>1. Pending(r) => r = held \/ Pending(r)'
      BY <2>1, PendingParts
    <3> QED BY <1>0, <3>1 DEF Kept
  <2>5. CASE Listed(w)
    <3>1. r # held /\ ~Busy(r)
      BY <1>0, <2>2, <2>5 DEF Listed
    <3>2. Kept(r)
      BY <1>0, <2>4, <2>5, <3>1 DEF Listed, Kept
    <3> QED BY <2>5, <3>1, <3>2 DEF Listed, Calm
  <2>6. CASE NotListed(w)
    <3>1. r # held /\ Kept(r)
      BY <1>0, <2>4, <2>6 DEF NotListed, Kept
    <3> QED BY <1>0, <2>2, <2>6, <3>1 DEF NotListed, Calm
  <2>7. CASE Counted(w)
    BY <1>0, <2>2, <2>3, <2>7 DEF Counted, Calm
  <2>8. CASE GaveUp(w)
    <3>1. Kept(r) /\ r # agg[w].route
      BY <1>0, <2>3, <2>8 DEF GaveUp, Kept
    <3> QED BY <2>2, <2>8, <3>1 DEF GaveUp, Calm
  <2>9. CASE Persisted(w)
    <3>1. Kept(r)
      BY <2>3, <2>9 DEF Persisted
    <3> QED BY <2>1, <2>2, <2>9, <3>1 DEF Persisted, Calm
  <2>10. CASE Emitted(w)
    BY <2>2, <2>3, <2>10 DEF Emitted, Calm
  <2> QED BY <2>1, <2>5, <2>6, <2>7, <2>8, <2>9, <2>10
<1>4. CASE \E h \in Handlers : MergeTx(h)
  BY <1>0, <1>1, <1>4, MergeStays DEF Calm
<1>5. CASE Restart
  BY <1>0, <1>5 DEF Restart, Kept, Calm, rows
<1>6. CASE DeleteOrphans
  <2>1. /\ UNCHANGED <<plate, held, agg, completions, corr, stale, missed>>
    BY <1>6 DEF DeleteOrphans, rows
  <2>2. Calm(r)
    BY <1>0, <1>1, <2>1, PendingParts DEF Kept, Calm
  <2> QED BY <1>6, <2>2 DEF SparesCalm
<1> QED BY <1>2, <1>3, <1>4, <1>5, <1>6, PipeSteps

-----------------------------------------------------------------------------
(* The scores. *)

\* A finite set of numbers has a greatest one.
IsTop(S, x) == x \in S /\ \A y \in S : x >= y

Topless(U) == {S \in SUBSET U : S # {} /\ ~\E x \in S : IsTop(S, x)}

LEMMA Greatest ==
  ASSUME NEW U, IsFiniteSet(U), U \subseteq Int, U # {}
  PROVE  Max(U) \in U /\ \A y \in U : Max(U) >= y
<1>1. Topless(U) = {}
  <2> SUFFICES ASSUME Topless(U) # {} PROVE FALSE
    OBVIOUS
  <2>0. Topless(U) \subseteq SUBSET U
    BY DEF Topless
  <2>1. PICK m \in Topless(U) : \A S \in Topless(U) : ~(S \subseteq m /\ S # m)
    BY <2>0, SmallestFinite
  <2>2. m \subseteq U /\ m # {} /\ ~\E x \in m : IsTop(m, x)
    BY DEF Topless
  <2>3. PICK x \in m : TRUE
    BY <2>2
  <2>4. m # {x}
    BY <2>2 DEF IsTop
  <2>5. m \ {x} # {} /\ m \ {x} \subseteq U
    BY <2>2, <2>3, <2>4
  <2>6. m \ {x} \notin Topless(U)
    BY <2>1, <2>3
  <2>7. PICK y \in m \ {x} : IsTop(m \ {x}, y)
    BY <2>5, <2>6 DEF Topless
  <2>8. x \in Int /\ y \in Int /\ \A z \in m : z \in Int
    BY <2>2, <2>3
  <2>9. CASE y >= x
    BY <2>2, <2>7, <2>8, <2>9 DEF IsTop
  <2>10. CASE ~(y >= x)
    <3>1. \A z \in m \ {x} : y >= z
      BY <2>7 DEF IsTop
    <3>2. \A z \in m : x >= z
      BY <2>8, <2>10, <3>1
    <3> QED BY <2>2, <2>3, <3>2 DEF IsTop
  <2> QED BY <2>8, <2>9, <2>10
<1>2. \E x \in U : IsTop(U, x)
  BY <1>1 DEF Topless
<1> QED BY <1>2 DEF Max, IsTop

\* What the rules can be applied to.
Scored(E) == /\ IsFiniteSet(E)
             /\ \A e \in E : e.turns \in Int /\ e.first \in Int /\ e.last \in Int

\* The encounters of some of the routes of E.
Part(D, E) == /\ D \subseteq E
              /\ \A d \in D, e \in E : d.route = e.route => e \in D

\* The greatest of finitely many measures, none of them below 0.
Most(E, f) == Max({0} \cup {f[e] : e \in E})

LEMMA MostGrows ==
  ASSUME NEW E, IsFiniteSet(E), NEW D, D \subseteq E, NEW f, f \in [E -> Int]
  PROVE  /\ Most(D, f) \in Nat /\ Most(E, f) \in Nat
         /\ Most(D, f) <= Most(E, f)
<1> DEFINE U(S) == {0} \cup {f[e] : e \in S}
<1>1. ASSUME NEW S, S \subseteq E
      PROVE  IsFiniteSet(U(S)) /\ U(S) \subseteq Int /\ U(S) # {} /\ 0 \in U(S)
  <2>1. IsFiniteSet(S)
    BY <1>1, FS_Subset
  <2> DEFINE g == [x \in S |-> f[x]]
  <2>2. IsFiniteSet({g[x] : x \in S})
    <3>1. g = [x \in S |-> g[x]]
      OBVIOUS
    <3> HIDE DEF g
    <3> QED BY <2>1, <3>1, FiniteImage
  <2>3. {g[x] : x \in S} = {f[x] : x \in S}
    OBVIOUS
  <2>4. IsFiniteSet({f[x] : x \in S} \cup {0})
    BY <2>2, <2>3, FS_AddElement
  <2>5. U(S) = {f[x] : x \in S} \cup {0}
    OBVIOUS
  <2>6. IsFiniteSet(U(S))
    BY <2>4, <2>5
  <2>7. U(S) \subseteq Int
    BY <1>1
  <2> QED BY <2>6, <2>7
<1>2. U(D) \subseteq U(E)
  OBVIOUS
<1> HIDE DEF U
<1>3. /\ Max(U(D)) \in U(D) /\ \A y \in U(D) : Max(U(D)) >= y
      /\ Max(U(E)) \in U(E) /\ \A y \in U(E) : Max(U(E)) >= y
  BY <1>1, Greatest
<1>4. Max(U(D)) >= 0 /\ Max(U(E)) >= 0 /\ Max(U(E)) >= Max(U(D))
  BY <1>1, <1>2, <1>3
<1>5. Max(U(D)) \in Int /\ Max(U(E)) \in Int
  BY <1>1, <1>3
<1> QED BY <1>4, <1>5 DEF Most, U

LEMMA TurnPointsGrow ==
  ASSUME PointsRise, NEW E, Scored(E), NEW D, D \subseteq E
  PROVE  /\ TurnPoints(D) \in Nat /\ TurnPoints(E) \in Nat
         /\ TurnPoints(D) <= TurnPoints(E)
<1> DEFINE f == [e \in E |-> e.turns - T.turnsMin]
           Capped(x) == IF T.turnsCap > 0 THEN Min({2 * x, T.turnsCap}) ELSE 2 * x
<1>1. f \in [E -> Int] /\ IsFiniteSet(E)
  BY DEF Scored, PointsRise
<1>2. ASSUME NEW S, S \subseteq E PROVE TurnPoints(S) = Capped(Most(S, f))
  <2>1. {e.turns - T.turnsMin : e \in S} = {f[e] : e \in S}
    BY <1>2
  <2> QED BY <2>1 DEF TurnPoints, Most
<1> HIDE DEF f
<1>3. /\ Most(D, f) \in Nat /\ Most(E, f) \in Nat /\ Most(D, f) <= Most(E, f)
  BY <1>1, MostGrows
<1>4. \A a, b \in Int : Min({a, b}) = IF a <= b THEN a ELSE b
  BY DEF Min
<1>5. T.turnsCap \in Int
  BY DEF PointsRise
<1>6. \A x \in Nat : Capped(x) = IF T.turnsCap > 0 /\ T.turnsCap < 2 * x
                                 THEN T.turnsCap ELSE 2 * x
  BY <1>4, <1>5
<1> HIDE DEF Capped
<1>7. /\ Capped(Most(D, f)) \in Nat /\ Capped(Most(E, f)) \in Nat
      /\ Capped(Most(D, f)) <= Capped(Most(E, f))
  BY <1>3, <1>5, <1>6
<1> QED BY <1>2, <1>7

LEMMA PersistencePointsGrow ==
  ASSUME PointsRise, NEW E, Scored(E), NEW D, D \subseteq E
  PROVE  /\ PersistencePoints(D) \in Nat /\ PersistencePoints(E) \in Nat
         /\ PersistencePoints(D) <= PersistencePoints(E)
<1> DEFINE f == [e \in E |-> e.last - e.first]
           Tier(x) == IF x >= T.persistHigh THEN T.persistHighPoints
                      ELSE IF x >= T.persistMid THEN T.persistMidPoints ELSE 0
<1>1. f \in [E -> Int] /\ IsFiniteSet(E)
  BY DEF Scored
<1>2. ASSUME NEW S, S \subseteq E
      PROVE  PersistencePoints(S) = IF S = {} THEN 0 ELSE Tier(Most(S, f))
  <2>1. {e.last - e.first : e \in S} = {f[e] : e \in S}
    BY <1>2
  <2> QED BY <2>1 DEF PersistencePoints, Most
<1> HIDE DEF f
<1>3. /\ Most(D, f) \in Nat /\ Most(E, f) \in Nat /\ Most(D, f) <= Most(E, f)
  BY <1>1, MostGrows
<1>4. /\ T.persistHigh \in Int /\ T.persistMid \in Int
      /\ T.persistHighPoints \in Nat /\ T.persistMidPoints \in Nat
      /\ T.persistMidPoints <= T.persistHighPoints
  BY DEF PointsRise
<1>5. /\ Tier(Most(D, f)) \in Nat /\ Tier(Most(E, f)) \in Nat
      /\ Tier(Most(D, f)) <= Tier(Most(E, f))
  BY <1>3, <1>4
<1> HIDE DEF Tier
<1>6. D # {} => E # {}
  OBVIOUS
<1> QED BY <1>2, <1>5, <1>6

LEMMA CountGrows ==
  ASSUME NEW S, IsFiniteSet(S), NEW R, R \subseteq S
  PROVE  /\ Cardinality(R) \in Nat /\ Cardinality(S) \in Nat
         /\ Cardinality(R) <= Cardinality(S)
BY FS_Subset, FS_CardinalityType

LEMMA RoutePointsGrow ==
  ASSUME PointsRise, NEW E, Scored(E), NEW D, D \subseteq E
  PROVE  /\ RoutePoints(D) \in Nat /\ RoutePoints(E) \in Nat
         /\ RoutePoints(D) <= RoutePoints(E)
         /\ AreaPoints(D) \in Nat /\ AreaPoints(E) \in Nat
         /\ AreaPoints(D) <= AreaPoints(E)
<1>1. IsFiniteSet(RoutesIn(E)) /\ RoutesIn(D) \subseteq RoutesIn(E)
  <2> DEFINE f == [e \in E |-> e.route]
  <2>1. IsFiniteSet({f[e] : e \in E})
    <3>1. f = [x \in E |-> f[x]] /\ IsFiniteSet(E)
      BY DEF Scored
    <3> HIDE DEF f
    <3> QED BY <3>1, FiniteImage
  <2>2. {f[e] : e \in E} = RoutesIn(E)
    BY DEF RoutesIn
  <2> QED BY <2>1, <2>2 DEF RoutesIn
<1> DEFINE A(R) == {AreaOf[r] : r \in R} \ {NoArea}
<1>2. IsFiniteSet(A(RoutesIn(E))) /\ A(RoutesIn(D)) \subseteq A(RoutesIn(E))
  <2> DEFINE f == [r \in RoutesIn(E) |-> AreaOf[r]]
  <2>1. IsFiniteSet({f[r] : r \in RoutesIn(E)})
    <3>1. f = [x \in RoutesIn(E) |-> f[x]]
      OBVIOUS
    <3> HIDE DEF f
    <3> QED BY <1>1, <3>1, FiniteImage
  <2>2. A(RoutesIn(E)) \subseteq {f[r] : r \in RoutesIn(E)}
    OBVIOUS
  <2>3. IsFiniteSet(A(RoutesIn(E)))
    <3> HIDE DEF A, f
    <3> QED BY <2>1, <2>2, FS_Subset
  <2> QED BY <1>1, <2>3
<1>3. ASSUME NEW S PROVE
        AreaPoints(S) = IF Cardinality(A(RoutesIn(S))) >= T.areasMin THEN T.areasPoints ELSE 0
  BY DEF AreaPoints
<1> HIDE DEF A
<1>4. /\ Cardinality(RoutesIn(D)) \in Nat /\ Cardinality(RoutesIn(E)) \in Nat
      /\ Cardinality(RoutesIn(D)) <= Cardinality(RoutesIn(E))
  BY <1>1, CountGrows
<1>5. /\ Cardinality(A(RoutesIn(D))) \in Nat /\ Cardinality(A(RoutesIn(E))) \in Nat
      /\ Cardinality(A(RoutesIn(D))) <= Cardinality(A(RoutesIn(E)))
  BY <1>2, CountGrows
<1>6. /\ T.routesMid \in Int /\ T.routesHigh \in Int /\ T.areasMin \in Int
      /\ T.routesMidPoints \in Nat /\ T.routesHighPoints \in Nat /\ T.areasPoints \in Nat
  BY DEF PointsRise
<1>7. /\ AreaPoints(D) \in Nat /\ AreaPoints(E) \in Nat /\ AreaPoints(D) <= AreaPoints(E)
  BY <1>3, <1>5, <1>6
<1>8. /\ RoutePoints(D) \in Nat /\ RoutePoints(E) \in Nat /\ RoutePoints(D) <= RoutePoints(E)
  BY <1>4, <1>6 DEF RoutePoints
<1> QED BY <1>7, <1>8

LEMMA TimingPointsGrow ==
  ASSUME PointsRise, NEW E, NEW D, Part(D, E)
  PROVE  /\ TimingPoints(D) \in Nat /\ TimingPoints(E) \in Nat
         /\ TimingPoints(D) <= TimingPoints(E)
<1>1. ASSUME NEW r \in RoutesIn(D) PROVE r \in RoutesIn(E) /\ FirstOn(D, r) = FirstOn(E, r)
  <2>1. PICK d \in D : d.route = r
    BY DEF RoutesIn
  <2>2. {x \in D : x.route = r} = {x \in E : x.route = r}
    BY <2>1 DEF Part
  <2>3. r \in RoutesIn(E)
    BY <2>1 DEF Part, RoutesIn
  <2> QED BY <2>2, <2>3 DEF FirstOn
<1>2. T.timingPoints \in Nat
  BY DEF PointsRise
<1> DEFINE Close(S) == \E r, q \in RoutesIn(S) :
                          r # q /\ FirstOn(S, r) <= FirstOn(S, q)
                          /\ FirstOn(S, q) - FirstOn(S, r) <= T.timingWindow
<1>3. \A S : TimingPoints(S) = IF Close(S) THEN T.timingPoints ELSE 0
  BY DEF TimingPoints
<1>4. Close(D) => Close(E)
  BY <1>1
<1> HIDE DEF Close
<1> QED BY <1>2, <1>3, <1>4

\* Score is monotonic in routes: a plate scores no more without some of them.
\* It may score more without a single encounter, because the first sighting
\* of a route then moves.
THEOREM ScoreGrows ==
  ASSUME PointsRise, NEW E, Scored(E), NEW D, Part(D, E)
  PROVE  ScoreOf(D, FALSE) <= ScoreOf(E, FALSE)
<1>1. D \subseteq E
  BY DEF Part
<1>2. Total(D) \in Nat /\ Total(E) \in Nat /\ Total(D) <= Total(E)
  BY <1>1, TurnPointsGrow, PersistencePointsGrow, RoutePointsGrow, TimingPointsGrow
  DEF Total
<1>3. \A i \in 1..4 : T.buckets[i] \in Int
  BY DEF PointsRise
<1> QED BY <1>2, <1>3 DEF ScoreOf, SeverityFor

\* A plate without encounters does not score.
LEMMA ScoreNothing ==
  ASSUME PointsRise PROVE ScoreOf({}, FALSE) = 0
<1>1. RoutesIn({}) = {}
  BY DEF RoutesIn
<1>2. Cardinality({}) = 0
  BY FS_EmptySet
<1>3. T.routesMid > 0 /\ T.areasMin > 0 /\ T.routesMid \in Int /\ T.areasMin \in Int
      /\ T.turnsCap \in Int
  BY DEF PointsRise
<1>4. RoutePoints({}) = 0
  BY <1>1, <1>2, <1>3 DEF RoutePoints
<1>5. AreaPoints({}) = 0
  <2>1. {AreaOf[r] : r \in RoutesIn({})} \ {NoArea} = {}
    BY <1>1
  <2> QED BY <1>2, <1>3, <2>1 DEF AreaPoints
<1>6. TimingPoints({}) = 0
  BY <1>1 DEF TimingPoints
<1>7. PersistencePoints({}) = 0
  BY DEF PersistencePoints
<1>8. TurnPoints({}) = 0
  <2>1. {0} \cup {e.turns - T.turnsMin : e \in {}} = {0}
    OBVIOUS
  <2>2. Max({0}) = 0
    BY DEF Max
  <2>3. T.turnsCap > 0 => Min({0, T.turnsCap}) = 0
    BY <1>3 DEF Min
  <2> QED BY <2>1, <2>2, <2>3 DEF TurnPoints
<1>9. Total({}) = 0
  BY <1>4, <1>5, <1>6, <1>7, <1>8 DEF Total
<1>10. \A i \in 1..4 : T.buckets[i] \in Nat \ {0}
  BY DEF PointsRise
<1> QED BY <1>9, <1>10 DEF ScoreOf, SeverityFor

-----------------------------------------------------------------------------
(* No row is missed. *)

LEMMA ScoreValues ==
  \A E : ScoreOf(E, FALSE) \in 0..5 /\ ScoreOf(E, FALSE) # 1
BY DEF ScoreOf, SeverityFor

LEMMA EncounterRoutes ==
  ASSUME InPlace, NEW p, NEW e \in EncountersWith(p)
  PROVE  e.route \in Routes /\ e \in enc[e.route] /\ e.plate = p
BY DEF EncountersWith, InPlace, Placed

LEMMA EncountersScored ==
  ASSUME Typed, InPlace, NEW p
  PROVE  Scored(EncountersWith(p)) /\ Part(Standing(p), EncountersWith(p))
<1>1. IsFiniteSet(Routes)
  <2>1. RouteOf = [d \in Dets |-> RouteOf[d]] /\ IsFiniteSet(Dets)
    BY EncountersAssumption
  <2> QED BY <2>1, FiniteImage DEF Routes
<1>2. IsFiniteSet({enc[r] : r \in Routes})
  BY <1>1, FiniteImage DEF Typed, EncType
<1>3. \A E \in {enc[r] : r \in Routes} : IsFiniteSet(E)
  BY DEF InPlace, Placed
<1>4. IsFiniteSet(UNION {enc[r] : r \in Routes})
  BY <1>2, <1>3, FS_UNION
<1>5. IsFiniteSet(EncountersWith(p))
  <2>1. EncountersWith(p) \subseteq UNION {enc[r] : r \in Routes}
    BY DEF EncountersWith
  <2> QED BY <1>4, <2>1, FS_Subset
<1>6. \A e \in EncountersWith(p) : e.turns \in Int /\ e.first \in Int /\ e.last \in Int
  BY EncounterRoutes DEF InPlace, Placed
<1> QED BY <1>5, <1>6 DEF Scored, Part, Standing

LEMMA PartScored ==
  ASSUME NEW E, Scored(E), NEW D, Part(D, E)
  PROVE  Scored(D)
BY FS_Subset DEF Scored, Part

\* Of a plate that is not about to be named, routes can only be lost.
LEMMA StandingSteps ==
  ASSUME Typed, InPlace, SparesCalm,
         [RetentionNext]_<<vars, retention>>, NEW p \in Plates, ~Coming(p)'
  PROVE  Part(Standing(p)', Standing(p))
<1>1. InPlace'
  BY PlacedNext
<1>2. ASSUME NEW e \in Standing(p)'
      PROVE  e \in Standing(p) /\ enc'[e.route] = enc[e.route]
  <2>1. /\ e.route \in Routes /\ e \in enc'[e.route] /\ e.plate = p /\ Calm(e.route)'
    BY <1>1, <1>2 DEF Standing, EncountersWith, InPlace, Placed
  <2>2. ASSUME NEW x \in AggSlots, agg'[x].pc = "emit", enc'[e.route] = agg'[x].encs
        PROVE  FALSE
    <3>1. p \in PlatesIn(agg'[x].encs)
      BY <2>1, <2>2 DEF PlatesIn
    <3> QED BY <2>2, <3>1 DEF Coming, Emitting
  <2>3. Calm(e.route) /\ enc'[e.route] = enc[e.route]
    BY <2>1, <2>2, CalmSteps
  <2> QED BY <2>1, <2>3 DEF Standing, EncountersWith
<1>3. ASSUME NEW d \in Standing(p)', NEW e \in Standing(p), d.route = e.route
      PROVE  e \in Standing(p)'
  <2>1. e.route \in Routes /\ e \in enc[e.route] /\ e.plate = p
    BY EncounterRoutes DEF Standing
  <2>2. e \in enc'[e.route] /\ Calm(e.route)'
    BY <1>2, <1>3, <2>1 DEF Standing
  <2> QED BY <2>1, <2>2 DEF Standing, EncountersWith
<1> QED BY <1>2, <1>3 DEF Part

\* A row loses severity, or a whitelisted one its kind, only where an
\* evaluation is owed, or with the plate.
LEMMA RowsStay ==
  ASSUME Typed, [RetentionNext]_<<vars, retention>>, NEW p \in Plates, p \notin owed'
  PROVE  \/ wl'[p].kind = "whitelist"
         \/ wl[p].kind # "whitelist" /\ wl'[p].sev >= wl[p].sev
         \/ EncountersWith(p)' = {}
<1> USE DEF Typed
<1>0. /\ wl \in [Plates -> Rows] /\ wl[p].sev \in Int
      /\ wl[p].sev >= wl[p].sev
  BY DEF RowType, Rows
<1>1. ASSUME NEW e \in Evaluators, WriteRow(e), wl' # wl
      PROVE  \/ wl'[p] = wl[p]
             \/ wl[p].kind # "whitelist" /\ wl'[p].sev >= wl[p].sev
  <2> DEFINE q == eval[e].plate
             new == IF Increased(e) THEN Alerted(wl[q], eval[e].sev)
                    ELSE PreserveAck(wl[q], eval[e].sev)
  <2>1. q \in Plates /\ new \in Rows /\ wl' = [wl EXCEPT ![q] = new]
    BY <1>1, WriteFacts
  <2>2. owed' = IF new.sev < wl[q].sev \/ wl[q].kind = "whitelist"
                THEN owed \cup {q} ELSE owed
    BY <1>1 DEF WriteRow
  <2>3. new.sev \in Int
    BY <2>1 DEF Rows
  <2> HIDE DEF q, new
  <2> QED BY <1>0, <2>1, <2>2, <2>3
<1>2. ASSUME NEW q \in Plates, AddWhitelist(q)
      PROVE  wl'[p] = wl[p] \/ wl'[p].kind = "whitelist"
  <2>1. wl' = [wl EXCEPT ![q] = [kind |-> "whitelist", sev |-> 0, acked |-> FALSE]]
    BY <1>2 DEF AddWhitelist
  <2> QED BY <1>0, <2>1
<1>3. ASSUME NEW q \in Plates, AckAlert(q) \/ UnackAlert(q)
      PROVE  wl'[p].kind = wl[p].kind /\ wl'[p].sev = wl[p].sev
  BY <1>0, <1>3 DEF AckAlert, UnackAlert, Acknowledge, Rows
<1>4. CASE RemoveRow
  BY <1>0, <1>4 DEF RemoveRow
<1>5. ASSUME NEW h \in Handlers, MergeTx(h), wl' # wl
      PROVE  \/ wl'[p] = wl[p] \/ wl'[p].kind = "whitelist"
             \/ wl[p].kind # "whitelist" /\ wl'[p].sev >= wl[p].sev
             \/ EncountersWith(p)' = {}
  <2> DEFINE f == corr[h].from
             q == corr[h].to
  <2>1. /\ corr[h].pc = "merge" /\ wl' = MergedWatchlist(h) /\ ~Collides(h)
        /\ owed' = owed \cup Lowers(q, wl'[q])
        /\ enc' = [r \in Routes |-> Renamed(enc[r], f, q)]
    BY <1>5 DEF MergeTx
  <2>2. /\ f \in Plates /\ q \in Plates /\ f # q /\ wl' \in [Plates -> Rows]
        /\ \A x \in Plates : x # f /\ x # q => wl'[x] = wl[x]
        /\ \/ mrows[h][2] = NoRow /\ mrows[h][1] # NoRow /\ wl[f] = NoRow /\ wl'[q] = wl[q]
           \/ mrows[h][2] = NoRow /\ mrows[h][1] # NoRow /\ wl[f] # NoRow /\ wl'[q] = wl[f]
           \/ wl'[q] = NoRow /\ wl[q] = NoRow
           \/ wl'[q] = MergedRow(wl[q], mrows[h][1], mrows[h][2])
    BY <1>5, <2>1, MergedFacts
  <2>3. CASE p = f
    <3>1. ASSUME NEW r \in Routes, NEW e \in enc[r]
          PROVE  [e EXCEPT !.plate = IF @ = f THEN q ELSE @].plate # f
      <4>1. e = [plate |-> e.plate, route |-> e.route, first |-> e.first, last |-> e.last,
                 count |-> e.count, turns |-> e.turns]
        BY DEF EncType, EncOK
      <4>2. [e EXCEPT !.plate = IF @ = f THEN q ELSE @].plate = IF e.plate = f THEN q ELSE e.plate
        BY <4>1
      <4> QED BY <2>2, <4>2
    <3> HIDE DEF f, q
    <3>2. \A r \in Routes : \A e \in enc'[r] : e.plate # f
      BY <2>1, <3>1 DEF Renamed
    <3> QED BY <2>3, <3>2 DEF EncountersWith
  <2>4. CASE p = q
    <3>1. wl'[q].sev >= wl[q].sev
      <4>1. wl[q].sev \in Int /\ wl'[q].sev \in Int
        BY <1>0, <2>2 DEF Rows
      <4>2. ~(wl'[q].sev < wl[q].sev)
        BY <2>1, <2>4 DEF Lowers
      <4> QED BY <4>1, <4>2
    <3>2. MergedRow(wl[q], mrows[h][1], mrows[h][2]).kind = wl[q].kind
      BY DEF MergedRow
    <3>3. mrows[h][2] = NoRow /\ mrows[h][1] # NoRow /\ wl[f] # NoRow => wl[q] = NoRow
      BY <2>1 DEF Collides
    <3>4. NoRow.kind = "none"
      BY DEF NoRow
    <3>5. wl[q].kind = "whitelist" => wl'[q].kind = "whitelist"
      BY <2>2, <3>2, <3>3, <3>4
    <3> QED BY <2>4, <3>1, <3>5
  <2>5. CASE p # f /\ p # q
    BY <2>2, <2>5
  <2> QED BY <2>3, <2>4, <2>5
<1>6. CASE wl' = wl
  BY <1>0, <1>6
<1> QED BY <1>0, <1>1, <1>2, <1>3, <1>4, <1>5, <1>6, RowsKept

\* An evaluation goes on to write what it has computed, unless it need not
\* or another one is owed.
LEMMA EvaluatorsStay ==
  ASSUME Typed, [RetentionNext]_<<vars, retention>>, NEW e \in Evaluators,
         eval[e].pc \in {"read", "write"}, eval[e].plate \notin owed'
  PROVE  LET p == eval[e].plate IN
         \/ /\ eval'[e].plate = p /\ eval'[e].pc \in {"read", "write"}
            /\ eval'[e].sev = eval[e].sev
         \/ wl'[p].kind = "whitelist" \/ eval[e].sev < 2 \/ wl'[p].sev >= eval[e].sev
<1> DEFINE p == eval[e].plate
<1>1. /\ EvalType /\ RowType /\ p \in Plates /\ eval[e] \in EvalRec /\ eval[e].sev \in 0..5
      /\ wl \in [Plates -> Rows] /\ wl[p].sev \in 0..5
  BY DEF Typed, EvalType, EvalRec, RowType, Rows
<1>2. CASE ReadRow(e)
  <2>1. ~Fail(e)
    BY <1>2 DEF Fail
  <2>3. CASE ~(wl[p].kind = "whitelist" \/ eval[e].sev < 2)
    <3> DEFINE row == wl[p]
               new == [eval[e] EXCEPT !.pc = "write", !.row = row]
    <3>1. eval' = [eval EXCEPT ![e].pc = "write", ![e].row = row]
      BY <1>2, <2>1, <2>3 DEF ReadRow
    <3>2. new.pc = "write" /\ new.plate = eval[e].plate /\ new.sev = eval[e].sev
      BY <1>1 DEF EvalRec
    <3>3. eval' = [eval EXCEPT ![e] = new]
      BY <1>1, <3>1 DEF EvalType
    <3> HIDE DEF new
    <3>4. eval'[e] = new
      BY <1>1, <3>3 DEF EvalType
    <3> QED BY <3>2, <3>4
  <2>4. CASE wl[p].kind = "whitelist" \/ eval[e].sev < 2
    <3>1. wl'[p].kind = wl[p].kind
      BY <1>2 DEF ReadRow
    <3> QED BY <2>4, <3>1
  <2> QED BY <2>3, <2>4
<1>3. CASE WriteRow(e)
  <2> DEFINE new == IF Increased(e) THEN Alerted(wl[p], eval[e].sev)
                    ELSE PreserveAck(wl[p], eval[e].sev)
  <2>1. ~Fail(e)
    BY <1>3 DEF Fail
  <2>2. wl' = [wl EXCEPT ![p] = new]
    BY <1>3, <2>1 DEF WriteRow
  <2>3. new.sev >= eval[e].sev
    BY <1>1 DEF Alerted, PreserveAck, Higher
  <2> HIDE DEF p, new
  <2> QED BY <1>1, <2>2, <2>3 DEF p
<1>4. ASSUME NEW x \in Evaluators, EvalStep(x), x # e PROVE eval'[e] = eval[e]
  BY <1>1, <1>4, EvalStepFacts, EvalUpdate
<1>5. EmitAlert(e) => eval[e].pc = "emit"
  BY DEF EmitAlert
<1>6. ASSUME NEW x \in Evaluators, NEW q, Begin(x, q) PROVE eval'[e] = eval[e]
  BY <1>1, <1>6 DEF Begin, EvalType
<1>7. CASE \E x \in Evaluators : EvalStep(x)
  BY <1>2, <1>3, <1>4, <1>5, <1>7 DEF EvalStep
<1>8. CASE Heuristic /\ ~\E x \in Evaluators : EvalStep(x)
  <2>1. TakeUpdate => eval' = eval
    BY DEF TakeUpdate
  <2>2. ASSUME NEW x \in EvalSlots, NEW q \in todo, WorkerBegins(x, q)
        PROVE  eval'[e] = eval[e]
    BY <1>6, <2>2 DEF WorkerBegins, Evaluators
  <2>3. ASSUME NEW q \in queue, ApiBegins(q) PROVE eval'[e] = eval[e]
    BY <1>6, <2>3 DEF ApiBegins, Evaluators
  <2> QED BY <1>8, <2>1, <2>2, <2>3 DEF Heuristic
<1>9. CASE Operator
  <2>1. eval' = eval \/ \E q : eval' = Late(q)
    BY <1>9 DEF Operator, AddWhitelist, RemoveRead, AckAlert, UnackAlert, Acknowledge,
                RemoveRow, Reevaluate, EditDetection, MergeRoutes, MergeRows, MergeTx,
                heuristic
  <2> QED BY <1>1, <2>1, LateFacts
<1>10. CASE Restart
  <2>1. p \in InFlight
    BY DEF InFlight
  <2>2. p # NoPlate
    BY <1>1, EncountersAssumption
  <2> QED BY <1>10, <2>1, <2>2 DEF Restart
<1>11. CASE Encounters \/ Notify \/ SweepDetections \/ DeleteOrphans
            \/ UNCHANGED <<vars, retention>>
  <2>1. eval' = eval
    BY <1>11 DEF Encounters, Notify, TakeAlert, CheckDedup, Send, Record, WindowEnds,
                 SweepDetections, ListFlagged, DeleteUnflagged, DeleteFlagged, Delete,
                 DeleteOrphans, vars, heuristic
  <2> QED BY <2>1
<1> QED BY Steps, <1>7, <1>8, <1>9, <1>10, <1>11

\* A plate that was named, or owed an evaluation, and is no longer, is being
\* evaluated.
Begun(p) == \E e \in Evaluators : /\ eval'[e].plate = p /\ eval'[e].pc = "read"
                                  /\ eval'[e].sev = ScoreOf(EncountersWith(p), FALSE)

LEMMA BeginNames ==
  ASSUME EvalType, NEW e \in Evaluators, NEW q, Begin(e, q), NEW p, p \notin owed'
  PROVE  IF p = q THEN Begun(p) ELSE p \notin owed
<1>1. CASE Fine /\ owed' = owed \ {q} /\ p = q
  <2> DEFINE new == [pc |-> "read", plate |-> q, sev |-> ScoreOf(EncountersWith(q), FALSE),
                     row |-> NoRow, late |-> FALSE]
  <2>1. eval' = [eval EXCEPT ![e] = new]
    BY <1>1 DEF Begin
  <2>2. /\ new.plate = q /\ new.pc = "read"
        /\ new.sev = ScoreOf(EncountersWith(q), FALSE)
    OBVIOUS
  <2> HIDE DEF new
  <2>3. eval'[e] = new
    BY <2>1 DEF EvalType
  <2> QED BY <1>1, <2>2, <2>3 DEF Begun
<1> QED BY <1>1 DEF Begin

LEMMA UpdateSends ==
  ASSUME AggType, NEW x \in AggSlots, AggStep(x)
  PROVE  /\ \A i \in DOMAIN updates : i \in DOMAIN updates' /\ updates'[i] = updates[i]
         /\ agg[x].pc = "emit" =>
              /\ agg'[x].pc = "idle"
              /\ updates' = updates \/ \E i \in DOMAIN updates' : updates'[i] = Emitting(x)
<1>1. updates \in Seq(SUBSET Plates)
  BY DEF AggType
<1>2. CASE EmitUpdate(x)
  <2> DEFINE S == PlatesIn(agg[x].encs)
  <2>1. S = Emitting(x) /\ agg[x].pc = "emit" /\ agg' = [agg EXCEPT ![x] = AggIdle]
        /\ (updates' = updates \/ updates' = Append(updates, S))
    BY <1>2 DEF EmitUpdate, Emitting
  <2>2. agg'[x].pc = "idle"
    BY <2>1 DEF AggType, AggIdle
  <2> HIDE DEF S
  <2>3. CASE updates' = Append(updates, S)
    <3>1. /\ DOMAIN updates = 1..Len(updates) /\ Len(updates) \in Nat
          /\ DOMAIN updates' = 1..(Len(updates) + 1)
          /\ updates'[Len(updates) + 1] = S
          /\ \A i \in 1..Len(updates) : updates'[i] = updates[i]
      BY <1>1, <2>3
    <3>2. Len(updates) + 1 \in DOMAIN updates'
      BY <3>1
    <3> QED BY <2>1, <2>2, <3>1, <3>2
  <2> QED BY <2>1, <2>2, <2>3
<1>3. CASE ~EmitUpdate(x)
  BY <1>3 DEF AggStep, ListDetections, CountTurns, Persist
<1> QED BY <1>2, <1>3

LEMMA NamedSteps ==
  ASSUME Typed, [RetentionNext]_<<vars, retention>>, NEW p \in Plates,
         p \in owed \/ Coming(p), p \notin owed', ~Coming(p)'
  PROVE  Begun(p) /\ enc' = enc
<1>0. /\ AggType /\ EncType /\ EvalType /\ updates \in Seq(SUBSET Plates)
  BY DEF Typed, AggType
<1>1. Coming(p) <=> \/ p \in todo \/ \E i \in DOMAIN updates : p \in updates[i]
                    \/ \E x \in AggSlots : p \in Emitting(x)
  BY DEF Coming
<1>2. ASSUME todo' = todo, updates' = updates, agg' = agg, owed \subseteq owed'
      PROVE  FALSE
  BY <1>2 DEF Coming, Emitting
<1>3. CASE Encounters
  <2>1. UNCHANGED <<todo, eval>> /\ owed \subseteq owed'
    BY <1>3 DEF Encounters, heuristic
  <2>2. p \notin todo /\ Coming(p)
    BY <2>1 DEF Coming
  <2>3. CASE \E x \in AggSlots : AggStep(x)
    <3>1. PICK x \in AggSlots : AggStep(x)
      BY <2>3
    <3>2. /\ \A y \in AggSlots : y # x => agg'[y] = agg[y]
          /\ Listed(x) \/ NotListed(x) \/ Counted(x) \/ GaveUp(x) \/ Persisted(x) \/ Emitted(x)
      BY <1>0, <3>1, SlotMoves
    <3>3. /\ \A i \in DOMAIN updates : i \in DOMAIN updates' /\ updates'[i] = updates[i]
          /\ agg[x].pc = "emit" =>
              /\ agg'[x].pc = "idle"
              /\ updates' = updates \/ \E i \in DOMAIN updates' : updates'[i] = Emitting(x)
      BY <1>0, <3>1, UpdateSends
    <3>4. \A i \in DOMAIN updates : p \notin updates[i]
      BY <3>3 DEF Coming
    <3>5. PICK y \in AggSlots : p \in Emitting(y)
      BY <2>2, <3>4 DEF Coming
    <3>6. y = x
      BY <3>2, <3>5 DEF Coming, Emitting
    <3>7. agg[x].pc = "emit"
      BY <3>5, <3>6 DEF Emitting
    <3>8. ~\E i \in DOMAIN updates' : updates'[i] = Emitting(x)
      BY <3>5, <3>6 DEF Coming
    <3>9. agg'[x].pc = "idle" /\ updates' = updates
      BY <3>3, <3>7, <3>8
    <3>10. p \in owed'
      BY <1>3, <3>5, <3>6, <3>9 DEF Encounters
    <3> QED BY <3>10
  <2>4. CASE ~\E x \in AggSlots : AggStep(x)
    <3>1. agg' = agg /\ updates' = updates
      BY <1>3, <2>4 DEF Encounters, Pipeline, StoreDetection, Announce, TurnsStored, Receive,
                        CorrStep, EditTx, EditCollect, Retrigger, Respond, aggregate
    <3> QED BY <1>2, <2>1, <3>1
  <2> QED BY <2>3, <2>4
<1>4. CASE TakeUpdate
  <2>1. /\ todo = {} /\ updates # <<>> /\ updates' = Tail(updates) /\ agg' = agg
        /\ owed \subseteq owed' /\ (todo' = Head(updates) \/ Head(updates) \subseteq owed')
    BY <1>4 DEF TakeUpdate, aggregate
  <2>2. p \notin Head(updates)
    BY <2>1 DEF Coming
  <2>3. \A i \in DOMAIN updates : p \notin updates[i]
    <3> SUFFICES ASSUME NEW i \in DOMAIN updates, p \in updates[i] PROVE FALSE
      OBVIOUS
    <3>1. i \in 1..Len(updates) /\ Len(updates) \in Nat /\ Head(updates) = updates[1]
      BY <1>0
    <3>2. i # 1
      BY <2>2, <3>1
    <3>3. i - 1 \in DOMAIN updates' /\ updates'[i - 1] = updates[i]
      BY <1>0, <2>1, <3>1, <3>2
    <3> QED BY <3>3 DEF Coming
  <2> QED BY <2>1, <2>3 DEF Coming, Emitting
<1>5. ASSUME NEW e \in Evaluators, NEW q, Begin(e, q), q \in todo => todo' = todo \ {q},
             q \notin todo => todo' = todo
      PROVE  Begun(p) /\ enc' = enc
  <2>1. UNCHANGED <<enc, agg, updates>>
    BY <1>5 DEF Begin, pipe, aggregate
  <2>2. CASE p # q
    <3>1. p \in todo => p \in todo'
      BY <1>5, <2>2
    <3>2. ~Coming(p)
      BY <2>1, <3>1 DEF Coming, Emitting
    <3> QED BY <1>0, <1>5, <2>2, <3>2, BeginNames
  <2>3. CASE p = q
    BY <1>0, <1>5, <2>1, <2>3, BeginNames
  <2> QED BY <2>2, <2>3
<1>6. ASSUME NEW e \in EvalSlots, NEW q \in todo, WorkerBegins(e, q)
      PROVE  Begun(p) /\ enc' = enc
  BY <1>5, <1>6 DEF WorkerBegins, Evaluators
<1>7. ASSUME NEW q \in queue, ApiBegins(q)
      PROVE  Begun(p) /\ enc' = enc
  <2>1. /\ Api \in Evaluators /\ Begin(Api, q) /\ todo' = todo
        /\ UNCHANGED <<enc, agg, updates>>
    BY <1>7 DEF ApiBegins, Evaluators, Begin, pipe, aggregate
  <2>2. ~Coming(p)
    BY <2>1 DEF Coming, Emitting
  <2> QED BY <1>0, <2>1, <2>2, BeginNames
<1>8. ASSUME NEW e \in Evaluators, EvalStep(e) PROVE FALSE
  <2>1. UNCHANGED <<todo, agg, updates>> /\ owed \subseteq owed'
    BY <1>8 DEF EvalStep, ReadRow, WriteRow, EmitAlert, Fail, pipe, encVars, aggregate, ghosts
  <2> QED BY <1>2, <2>1
<1>9. CASE Operator
  <2>1. UNCHANGED <<todo, agg, updates>> /\ owed \subseteq owed'
    BY <1>9 DEF Operator, AddWhitelist, RemoveRead, AckAlert, UnackAlert, Acknowledge,
                RemoveRow, Reevaluate, EditDetection, EditLoad, MergeRoutes, MergeRows, MergeTx,
                heuristic, encVars, pipe, aggregate, ghosts
  <2> QED BY <1>2, <2>1
<1>10. CASE Restart
  <2>1. p \in todo => p \in InFlight
    BY DEF InFlight
  <2>2. ASSUME NEW i \in DOMAIN updates, p \in updates[i] PROVE p \in InFlight
    <3>1. p \in UNION {updates[j] : j \in DOMAIN updates}
      BY <2>2
    <3> QED BY <3>1 DEF InFlight
  <2>3. ASSUME NEW x \in AggSlots, p \in Emitting(x) PROVE p \in InFlight
    <3>1. p \in UNION {Emitting(y) : y \in AggSlots}
      BY <2>3
    <3> QED BY <3>1 DEF InFlight
  <2>4. p \in InFlight \/ p \in owed
    BY <1>1, <2>1, <2>2, <2>3
  <2>5. p # NoPlate
    BY EncountersAssumption
  <2> QED BY <1>10, <2>4, <2>5 DEF Restart
<1>11. CASE Notify \/ SweepDetections \/ DeleteOrphans \/ UNCHANGED <<vars, retention>>
  <2>1. UNCHANGED <<todo, agg, updates, owed>>
    BY <1>11 DEF Notify, TakeAlert, CheckDedup, Send, Record, WindowEnds,
                 SweepDetections, ListFlagged, DeleteUnflagged, DeleteFlagged, Delete,
                 DeleteOrphans, vars, heuristic, encVars, pipe, aggregate, ghosts
  <2> QED BY <1>2, <2>1
<1>12. CASE Heuristic
  BY <1>4, <1>6, <1>7, <1>8, <1>12 DEF Heuristic
<1> QED BY Steps, <1>3, <1>9, <1>10, <1>11, <1>12

\* The score of what stays of a plate is at most the plate's.
LEMMA StandingScored ==
  ASSUME PointsRise, Typed, InPlace, NEW p
  PROVE  /\ Scored(EncountersWith(p)) /\ Scored(Standing(p))
         /\ ScoreOf(Standing(p), FALSE) <= ScoreOf(EncountersWith(p), FALSE)
<1>1. Scored(EncountersWith(p)) /\ Part(Standing(p), EncountersWith(p))
  BY EncountersScored
<1>2. Scored(Standing(p))
  BY <1>1, PartScored
<1>3. ScoreOf(Standing(p), FALSE) <= ScoreOf(EncountersWith(p), FALSE)
  BY ONLY PointsRise, <1>1, ScoreGrows
<1> QED BY <1>1, <1>2, <1>3

\* What covers a score covers a lower one.
LEMMA CoveredLower ==
  ASSUME Typed, NEW p \in Plates, NEW s \in 0..5, NEW t \in 0..5, t <= s, Covered(p, s)
  PROVE  Covered(p, t)
<1>1. wl[p].sev \in Int /\ \A e \in Evaluators : eval[e].sev \in Int
  BY DEF Typed, RowType, Rows, EvalType, EvalRec
<1> QED BY <1>1 DEF Covered

\* The step that begins the evaluation of a plate covers it.
LEMMA CoverBegun ==
  ASSUME PointsRise, Typed, InPlace, NEW p \in Plates, Begun(p), enc' = enc
  PROVE  Covered(p, ScoreOf(Standing(p), FALSE))'
<1>1. EncountersWith(p)' = EncountersWith(p)
  BY DEF EncountersWith
<1>2. Part(Standing(p)', EncountersWith(p))
  BY <1>1 DEF Part, Standing
<1>3. Scored(EncountersWith(p))
  BY EncountersScored
<1>4. ScoreOf(Standing(p)', FALSE) <= ScoreOf(EncountersWith(p), FALSE)
  BY ONLY PointsRise, <1>2, <1>3, ScoreGrows
<1>5. ScoreOf(Standing(p)', FALSE) \in 0..5 /\ ScoreOf(EncountersWith(p), FALSE) \in 0..5
  BY ScoreValues
<1>6. PICK e \in Evaluators : /\ eval'[e].plate = p /\ eval'[e].pc = "read"
                              /\ eval'[e].sev = ScoreOf(EncountersWith(p), FALSE)
  BY DEF Begun
<1> QED BY <1>4, <1>5, <1>6 DEF Covered

\* Where the plate is not named, what covered it covers it still.
LEMMA CoverStays ==
  ASSUME PointsRise, Typed, InPlace, [RetentionNext]_<<vars, retention>>, NEW p \in Plates,
         p \notin owed', Part(Standing(p)', Standing(p)),
         Covered(p, ScoreOf(Standing(p), FALSE))
  PROVE  Covered(p, ScoreOf(Standing(p), FALSE))'
<1> DEFINE s == ScoreOf(Standing(p), FALSE)
           t == ScoreOf(Standing(p)', FALSE)
<1>1. t <= s
  <2>1. Scored(Standing(p))
    BY StandingScored
  <2> QED BY ONLY PointsRise, <2>1, Part(Standing(p)', Standing(p)), ScoreGrows
<1>2. s \in 0..5 /\ t \in 0..5 /\ t # 1
  BY ScoreValues
<1>3. ScoreOf({}, FALSE) = 0
  BY ScoreNothing
<1>4. /\ wl[p].sev \in 0..5 /\ wl'[p].sev \in 0..5
      /\ \A e \in Evaluators : eval[e].sev \in 0..5 /\ eval[e] \in EvalRec
  <2>1. Typed'
    BY TypedNext
  <2> QED BY <2>1 DEF Typed, RowType, Rows, EvalType, EvalRec
<1>5. \A n \in Int : n = 0 => wl'[p].sev >= n
  BY <1>4
<1>6. EncountersWith(p)' = {} => t = 0
  BY <1>3 DEF Standing
<1>7. SUFFICES \/ wl'[p].kind = "whitelist" \/ wl'[p].sev >= t
               \/ \E e \in Evaluators : /\ eval'[e].plate = p
                                        /\ eval'[e].pc \in {"read", "write"}
                                        /\ eval'[e].sev >= t
  BY DEF Covered
<1> HIDE DEF s, t
<1>8. CASE wl[p].kind = "whitelist" \/ wl[p].sev >= s
  BY <1>1, <1>2, <1>4, <1>5, <1>6, <1>8, RowsStay
<1>9. ASSUME NEW e \in Evaluators, eval[e].plate = p, eval[e].pc \in {"read", "write"},
             eval[e].sev >= s
      PROVE  \/ wl'[p].kind = "whitelist" \/ wl'[p].sev >= t
             \/ eval'[e].plate = p /\ eval'[e].pc \in {"read", "write"} /\ eval'[e].sev >= t
  <2>1. \/ /\ eval'[e].plate = p /\ eval'[e].pc \in {"read", "write"}
           /\ eval'[e].sev = eval[e].sev
        \/ wl'[p].kind = "whitelist" \/ eval[e].sev < 2 \/ wl'[p].sev >= eval[e].sev
    BY <1>9, EvaluatorsStay
  <2> QED BY <1>1, <1>2, <1>4, <1>5, <1>9, <2>1
<1>10. \/ wl[p].kind = "whitelist" \/ wl[p].sev >= s
       \/ \E e \in Evaluators : /\ eval[e].plate = p /\ eval[e].pc \in {"read", "write"}
                                /\ eval[e].sev >= s
  BY DEF Covered, s
<1> QED BY <1>8, <1>9, <1>10

LEMMA CoverNext ==
  ASSUME PointsRise, Typed, InPlace, CoverInv, SparesCalm,
         [RetentionNext]_<<vars, retention>>
  PROVE  CoverInv'
<1> SUFFICES ASSUME NEW p \in Plates, p \notin owed', ~Coming(p)'
             PROVE  Covered(p, ScoreOf(Standing(p), FALSE))'
  BY DEF CoverInv
<1>1. CASE p \in owed \/ Coming(p)
  BY <1>1, NamedSteps, CoverBegun
<1>2. CASE p \notin owed /\ ~Coming(p)
  <2>1. Covered(p, ScoreOf(Standing(p), FALSE))
    BY <1>2 DEF CoverInv
  <2>2. Part(Standing(p)', Standing(p))
    BY StandingSteps
  <2> QED BY <2>1, <2>2, CoverStays
<1> QED BY <1>1, <1>2

-----------------------------------------------------------------------------
(* The theorems. *)

LEMMA EncountersInit == RetentionInit => InPlace /\ FreshInv /\ SweptInv
<1> SUFFICES ASSUME RetentionInit PROVE InPlace /\ FreshInv /\ SweptInv
  OBVIOUS
<1>1. /\ announced = Done /\ swept = {} /\ \A w \in AggSlots : agg[w] = AggIdle
      /\ enc = [r \in Routes |-> IF r \in Done THEN EncountersOf(r, Seen(r), turned) ELSE {}]
      /\ turned \subseteq Routes
  BY EncountersAssumption DEF RetentionInit, AlertsInit, EncInit
<1>2. AggIdle.pc = "idle" /\ AggIdle.encs = {} /\ AggIdle.seen = <<>>
  BY DEF AggIdle
<1>3. \A r \in Routes : Placed(enc[r], r)
  <2> SUFFICES ASSUME NEW r \in Routes PROVE Placed(enc[r], r)
    OBVIOUS
  <2>1. Placed(EncountersOf(r, Seen(r), turned), r)
    BY <1>1, SeenDomain, ComputedPlaced
  <2>2. Placed({}, r)
    BY NothingPlaced
  <2> QED BY <1>1, <2>1, <2>2
<1>4. InPlace
  <2>1. \A w \in AggSlots : agg[w].encs = {} /\ agg[w].seen = <<>>
    BY <1>1, <1>2
  <2>2. DOMAIN <<>> \subseteq Dets
    OBVIOUS
  <2> QED BY <1>1, <1>3, <2>1, <2>2, NothingPlaced DEF InPlace
<1>5. FreshInv
  BY <1>1, <1>2 DEF FreshInv, Right, Clean, Kept
<1> QED BY <1>1, <1>4, <1>5 DEF SweptInv

\* However many passes run at a time, a route from which the retention has
\* taken the orphans keeps no encounter without a detection to show, nor does
\* a pass that reads it afterwards write one, until a detection changes.
THEOREM AlertsSwept == RetentionSpec => [](\A r \in swept : \A e \in enc[r] : Backed(e))
<1> DEFINE Inv == Typed /\ InPlace /\ SweptInv
<1>1. RetentionInit => Inv
  BY TypedInit, EncountersInit
<1>2. Inv /\ [RetentionNext]_<<vars, retention>> => Inv'
  BY TypedNext, PlacedNext, SweptNext
<1>3. Inv => \A r \in swept : \A e \in enc[r] : Backed(e)
  BY DEF SweptInv, Evident
<1> QED BY <1>1, <1>2, <1>3, PTL DEF RetentionSpec

\* With one aggregator slot, the encounters of a route that nothing is on
\* its way to are those of its detections, and those of a route that the
\* retention thinned have a detection to show.
THEOREM AlertsEncounters ==
  ASSUME NEW w, AggSlots = {w}
  PROVE  RetentionSpec => []EncountersTrue
<1> DEFINE Inv == Typed /\ InPlace /\ FreshInv /\ SweptInv
<1>1. RetentionInit => Inv
  BY TypedInit, EncountersInit
<1>2. Inv /\ [RetentionNext]_<<vars, retention>> => Inv'
  BY TypedNext, PlacedNext, FreshNext, SweptNext
<1>3. Inv => EncountersTrue
  <2>1. FreshInv => EncountersFresh
    BY DEF FreshInv, Right, Clean, Kept, EncountersFresh, Settled
  <2>2. SweptInv =>
          \A r \in swept : \A e \in enc[r] : TimesOf(Evidence(e)) \cap (e.first .. e.last) # {}
    BY DEF SweptInv, Evident, Backed
  <2> QED BY <2>1, <2>2 DEF EncountersTrue
<1> QED BY <1>1, <1>2, <1>3, PTL DEF RetentionSpec

\* A pass groups the detections it has read by the gap, whatever happens
\* around it.
LEMMA GroupsStep ==
  ASSUME Typed, InPlace, [RetentionNext]_<<vars, retention>>, NEW w \in AggSlots,
         agg[w].pc = "count", agg'[w].pc = "persist"
  PROVE  agg'[w].encs = EncountersOf(agg[w].route, agg[w].seen, turned)
<1>1. agg'[w] # agg[w] /\ agg'[w] # AggIdle
  BY DEF AggIdle
<1>2. \E x \in AggSlots : AggStep(x)
  <2>1. CASE Still \/ Sources \/ Receive \/ Requests \/ Deletes
    BY <1>1, <2>1, EncountersStay
  <2>2. CASE \/ \E h \in Handlers : MergeTx(h)
             \/ Restart \/ DeleteOrphans
    BY <1>1, <2>2 DEF MergeTx, Restart, DeleteOrphans
  <2> QED BY <2>1, <2>2, PipeSteps
<1>3. AggStep(w)
  BY <1>1, <1>2, PassSteps DEF Typed, InPlace
<1>4. agg = [x \in AggSlots |-> agg[x]]
  BY DEF Typed, AggType
<1> DEFINE new == [pc |-> "persist", route |-> agg[w].route, seen |-> agg[w].seen,
                   encs |-> EncountersOf(agg[w].route, agg[w].seen, turned)]
<1>5. agg' = [agg EXCEPT ![w] = AggIdle] \/ agg' = [agg EXCEPT ![w] = new]
  BY <1>3 DEF AggStep, ListDetections, CountTurns, GiveUp, Persist, EmitUpdate
<1>6. new.encs = EncountersOf(agg[w].route, agg[w].seen, turned)
  OBVIOUS
<1> HIDE DEF new
<1>7. agg'[w] = new
  BY <1>1, <1>4, <1>5
<1> QED BY <1>6, <1>7

\* GroupsByGap: for any detections, also several at one time, a pass cuts
\* them where the gap is exceeded and nowhere else, and counts each once.
THEOREM AlertsGroups == RetentionSpec => GroupsByGap
<1> DEFINE Inv == Typed /\ InPlace
           Groups == \A w \in AggSlots : agg[w].pc = "count" /\ agg'[w].pc = "persist" =>
             \A p \in Plates :
               LET D == {d \in DOMAIN agg[w].seen : agg[w].seen[d] = p}
                   turns == IF agg[w].route \in turned THEN TurnsOf[agg[w].route] ELSE {}
               IN  {<<e.first, e.last, e.count, e.turns>> :
                      e \in {x \in agg'[w].encs : x.plate = p}}
                   = {<<First(C), Final(C), Cardinality(C),
                        Cardinality({t \in turns : First(C) <= t /\ t <= Final(C)})>> :
                        C \in {Together(D, d) : d \in D}}
<1>1. RetentionInit => Inv
  BY TypedInit, EncountersInit
<1>2. Inv /\ [RetentionNext]_<<vars, retention>> => Inv'
  BY TypedNext, PlacedNext
<1>3. Inv /\ [RetentionNext]_<<vars, retention>> => [Groups]_encVars
  <2> SUFFICES ASSUME Typed, InPlace, [RetentionNext]_<<vars, retention>>,
                      NEW w \in AggSlots, agg[w].pc = "count", agg'[w].pc = "persist",
                      NEW p \in Plates
               PROVE
      LET D == {d \in DOMAIN agg[w].seen : agg[w].seen[d] = p}
          turns == IF agg[w].route \in turned THEN TurnsOf[agg[w].route] ELSE {}
      IN  {<<e.first, e.last, e.count, e.turns>> :
             e \in {x \in agg'[w].encs : x.plate = p}}
          = {<<First(C), Final(C), Cardinality(C),
               Cardinality({t \in turns : First(C) <= t /\ t <= Final(C)})>> :
               C \in {Together(D, d) : d \in D}}
    OBVIOUS
  <2>1. DOMAIN agg[w].seen \subseteq Dets
    BY DEF InPlace
  <2>2. agg'[w].encs = EncountersOf(agg[w].route, agg[w].seen, turned)
    BY GroupsStep
  <2>3. Grouped(agg'[w].encs, agg[w].route, agg[w].seen, turned, p)
    BY <2>1, <2>2, ComputedGroups
  <2> QED BY <2>3 DEF Grouped
<1>4. [][Groups]_encVars => GroupsByGap
  BY DEF GroupsByGap
<1> QED BY <1>1, <1>2, <1>3, <1>4, PTL DEF RetentionSpec
LEMMA CoverInit == ASSUME PointsRise PROVE RetentionInit => CoverInv
<1> SUFFICES ASSUME RetentionInit, NEW p \in Plates
             PROVE  Covered(p, ScoreOf(Standing(p), FALSE))
  BY DEF CoverInv
<1> DEFINE s == ScoreOf(EncountersWith(p), FALSE)
<1>1. Typed /\ InPlace
  BY TypedInit, EncountersInit
<1>2. ScoreOf(Standing(p), FALSE) <= s
  BY <1>1, StandingScored
<1>3. ScoreOf(Standing(p), FALSE) \in 0..5 /\ s \in 0..5 /\ s # 1
  BY ScoreValues
<1>4. wl[p] = IF s < 2 THEN NoRow ELSE [kind |-> "alerted", sev |-> s, acked |-> FALSE]
  BY DEF RetentionInit, AlertsInit
<1> HIDE DEF s
<1>5. wl[p].sev = s
  BY <1>3, <1>4 DEF NoRow
<1> QED BY <1>2, <1>3, <1>5 DEF Covered

\* When all is quiet nothing comes, and every route is calm that an event
\* could still name.
LEMMA CoverQuiet ==
  ASSUME CoverInv, InPlace PROVE NoneUnderAlerted
<1> SUFFICES ASSUME Quiet, NEW p \in Plates, p \notin owed, wl[p].kind # "whitelist",
                    RoutesMeeting(p) \cap (stale \cup missed) = {}
             PROVE  wl[p].sev >= ScoreOf(EncountersWith(p), FALSE)
  BY DEF NoneUnderAlerted
<1>1. ~Coming(p)
  BY DEF Quiet, Coming, Emitting
<1>2. Covered(p, ScoreOf(Standing(p), FALSE))
  BY <1>1 DEF CoverInv
<1>3. ASSUME NEW e \in EncountersWith(p) PROVE Calm(e.route)
  <2>1. e.route \in Routes /\ e \in enc[e.route] /\ e.plate = p
    BY EncounterRoutes
  <2>2. e.route \in RoutesMeeting(p)
    BY <2>1 DEF RoutesMeeting, PlatesIn
  <2> QED BY <2>1, <2>2 DEF Quiet, Calm, Kept
<1>4. Standing(p) = EncountersWith(p)
  BY <1>3 DEF Standing
<1> QED BY <1>2, <1>4 DEF Covered, Quiet

\* The heuristic misses no plate, however many passes of the aggregator run
\* at a time, as long as the retention finds nothing to take from a calm
\* route.  Under thresholds by which more encounters never score less,
\* whenever nothing is on its way a plate is on the watchlist with at least
\* the severity of its encounters, unless it is whitelisted, one of its
\* routes was not aggregated again, or its last evaluation was lost.
THEOREM AlertsNoneUnderSlots ==
  ASSUME PointsRise
  PROVE  RetentionSpec /\ [][SparesCalm]_<<vars, retention>> => []NoneUnderAlerted
<1> DEFINE Inv == Typed /\ InPlace /\ CoverInv
<1>1. RetentionInit => Inv
  BY TypedInit, EncountersInit, CoverInit
<1>2. Inv /\ [RetentionNext]_<<vars, retention>> /\ [SparesCalm]_<<vars, retention>> => Inv'
  <2> SUFFICES ASSUME Inv, [RetentionNext]_<<vars, retention>>,
                      [SparesCalm]_<<vars, retention>>
               PROVE  Inv'
    OBVIOUS
  <2>1. SparesCalm
    BY DEF SparesCalm, vars, pipe, encVars, aggregate
  <2> QED BY <2>1, TypedNext, PlacedNext, CoverNext
<1>3. Inv => NoneUnderAlerted
  BY CoverQuiet
<1> QED BY <1>1, <1>2, <1>3, PTL DEF RetentionSpec

\* With one slot the retention takes encounters only from routes that
\* something is on its way to, or that it has thinned: the encounters of the
\* others have a detection to show.
THEOREM AlertsSpared ==
  ASSUME NEW w, AggSlots = {w}
  PROVE  RetentionSpec => [][SparesCalm]_<<vars, retention>>
<1> DEFINE Inv == Typed /\ InPlace /\ AttestedInv
<1>1. RetentionInit => Inv
  BY TypedInit, EncountersInit, AttestedInit
<1>2. Inv /\ [RetentionNext]_<<vars, retention>> => Inv'
  BY TypedNext, PlacedNext, AttestedNext
<1>3. Inv => [SparesCalm]_<<vars, retention>>
  BY CalmSpared
<1> QED BY <1>1, <1>2, <1>3, PTL DEF RetentionSpec

\* The heuristic misses no plate: with one slot, the default, nothing is
\* asked of the retention.
THEOREM AlertsNoneUnder ==
  ASSUME NEW w, AggSlots = {w}, PointsRise
  PROVE  RetentionSpec => []NoneUnderAlerted
<1>1. RetentionSpec => [][SparesCalm]_<<vars, retention>>
  BY AlertsSpared
<1>2. RetentionSpec /\ [][SparesCalm]_<<vars, retention>> => []NoneUnderAlerted
  BY AlertsNoneUnderSlots
<1> QED BY <1>1, <1>2
=============================================================================
