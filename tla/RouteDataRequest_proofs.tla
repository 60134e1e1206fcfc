----------------------- MODULE RouteDataRequest_proofs -----------------------
(***************************************************************************)
(* For any number of segments, requests, handlers and retries: a row says   *)
(* 'dispatched' only of files the device was told of or has sent, and       *)
(* 'complete' only when as many files are there as it asked for.            *)
(***************************************************************************)
EXTENDS RouteDataRequest, FiniteSetTheorems, TLAPS

\* A larger set of files has at least as many members.
LEMMA CountGrows ==
    ASSUME NEW A, NEW B \in SUBSET Files, A \subseteq B
    PROVE  /\ Cardinality(A) \in Nat /\ Cardinality(B) \in Nat
           /\ Cardinality(A) <= Cardinality(B)
<1>1. IsFiniteSet(Files)
  BY RequestAssumption, FS_Product DEF Files
<1>2. IsFiniteSet(B)
  BY <1>1, FS_Subset
<1>3. IsFiniteSet(A) /\ Cardinality(A) <= Cardinality(B)
  BY <1>2, FS_Subset
<1> QED BY <1>2, <1>3, FS_CardinalityType

\* An UPDATE of the status leaves the rest of the table alone.
LEMMA SetStatusFacts ==
    ASSUME rows \in [Ids -> RowRec], NEW i \in Ids, NEW s \in Statuses, SetStatus(i, s)
    PROVE  /\ rows' \in [Ids -> RowRec]
           /\ rows'[i].status = s
           /\ \A j \in Ids : /\ j # i => rows'[j] = rows[j]
                             /\ rows'[j].kind = rows[j].kind
                             /\ rows'[j].files = rows[j].files
<1> DEFINE new == [rows[i] EXCEPT !.status = s]
<1>1. /\ new \in RowRec /\ new.status = s
      /\ new.kind = rows[i].kind /\ new.files = rows[i].files
  BY DEF RowRec
<1>2. rows' = [rows EXCEPT ![i] = new]
  BY DEF SetStatus
<1> HIDE DEF new
<1> QED BY <1>1, <1>2

\* ... the window included.
LEMMA SetStatusRecent ==
    ASSUME rows \in [Ids -> RowRec], NEW i \in Ids, NEW s \in Statuses, SetStatus(i, s)
    PROVE  \A j \in Ids : rows'[j].recent = rows[j].recent
<1> DEFINE new == [rows[i] EXCEPT !.status = s]
<1>1. new.recent = rows[i].recent
  BY DEF RowRec
<1>2. rows' = [rows EXCEPT ![i] = new]
  BY DEF SetStatus
<1> HIDE DEF new
<1> QED BY <1>1, <1>2

\* What every step leaves alone: the kind and the files of a row, and every
\* segment, flag and request to the device there is.
Growing ==
    /\ rows' \in [Ids -> RowRec]
    /\ inserted' \in 0 .. MaxRows /\ inserted <= inserted'
    /\ \A i \in 1 .. inserted : /\ rows'[i].kind = rows[i].kind
                                /\ rows'[i].files = rows[i].files
    /\ known \subseteq known' /\ known' \subseteq Segs
    /\ uploaded \subseteq uploaded' /\ uploaded' \subseteq covered'
    /\ covered \subseteq covered' /\ covered' \subseteq Files

\* More uploads take no file away.
LEMMA EnoughStays ==
    ASSUME RequestInv, Growing, NEW i \in 1 .. inserted, HasEnough(rows[i])
    PROVE  HasEnough(rows[i])'
<1> DEFINE k == rows[i].kind
           A == {f \in Files : f[1] \in known /\ f[2] \in FilesForKind[k]} \cap uploaded
           B == {f \in Files : f[1] \in known' /\ f[2] \in FilesForKind[k]} \cap uploaded'
           n == Cardinality(rows[i].files)
<1>0. i \in Ids
  BY RequestAssumption DEF RequestInv, TypeOK, Ids
<1>1. rows[i] \in RowRec /\ rows[i].files \in SUBSET Files
  BY <1>0 DEF RequestInv, TypeOK, RowRec
<1>2. Cardinality(A) >= n
  BY DEF HasEnough, Wanted
<1>3. HasEnough(rows[i])' <=> Cardinality(B) >= n
  BY DEF HasEnough, Wanted, Growing
<1>4. A \subseteq B /\ B \in SUBSET Files
  BY DEF Growing
<1> HIDE DEF A, B
<1>5. Cardinality(A) \in Nat /\ Cardinality(B) \in Nat /\ Cardinality(A) <= Cardinality(B)
  BY <1>4, CountGrows
<1>6. n \in Nat
  BY <1>1, CountGrows
<1> HIDE DEF n
<1> QED BY <1>2, <1>3, <1>5, <1>6

\* What a growing step preserves of the parts it does not touch.
LEMMA Frame ==
    ASSUME RequestInv, Growing
    PROVE  /\ \A i \in 1 .. inserted : RowNumbered(rows[i])'
           /\ \A i \in 1 .. inserted : rows'[i].status = rows[i].status =>
                 /\ rows'[i].status = "dispatched" => rows'[i].files \subseteq covered'
                 /\ rows'[i].status = "complete" => HasEnough(rows[i])'
           /\ post' = post => PostCovered'
           /\ poll' = poll => PollCounted'
           /\ d' = d => DispatcherCovered'
<1> USE DEF RequestInv
<1>0. inserted \in 0 .. MaxRows /\ 1 .. inserted \subseteq Ids
  BY RequestAssumption DEF TypeOK, Ids
<1>1. ASSUME NEW i \in 1 .. inserted PROVE RowNumbered(rows[i])'
  <2>1. RowNumbered(rows[i])
    BY <1>0 DEF RowsNumbered, Ids
  <2> QED BY <2>1 DEF RowNumbered, Growing
<1>2. ASSUME NEW i \in 1 .. inserted, rows'[i].status = rows[i].status
      PROVE  /\ rows'[i].status = "dispatched" => rows'[i].files \subseteq covered'
             /\ rows'[i].status = "complete" => HasEnough(rows[i])'
  <2>1. CASE rows[i].status = "dispatched"
    BY <1>0, <1>2, <2>1 DEF DispatchedMeansAsked, Growing
  <2>2. CASE rows[i].status = "complete"
    <3>1. HasEnough(rows[i])
      BY <1>0, <2>2 DEF CompleteMeansEnough
    <3> QED BY <1>2, <2>2, <3>1, EnoughStays
  <2> QED BY <1>2, <2>1, <2>2
<1>3. ASSUME post' = post PROVE PostCovered'
  BY <1>3 DEF PostCovered, RowNumbered, Growing
<1>4. ASSUME poll' = poll PROVE PollCounted'
  <2> SUFFICES ASSUME NEW q \in Pollers, poll[q].pc # "idle"
               PROVE  /\ poll[q].id \in 1 .. inserted'
                      /\ poll[q].pc = "write" => HasEnough(rows[poll[q].id])'
    BY <1>4 DEF PollCounted
  <2>1. poll[q].id \in 1 .. inserted
    BY DEF PollCounted
  <2>2. poll[q].pc = "write" => HasEnough(rows[poll[q].id])
    BY DEF PollCounted
  <2> QED BY <1>0, <1>4, <2>1, <2>2, EnoughStays DEF Growing
<1>5. ASSUME d' = d PROVE DispatcherCovered'
  BY <1>0, <1>5 DEF DispatcherCovered, Growing
<1> QED BY <1>1, <1>2, <1>3, <1>4, <1>5

\* What a step establishes about the table.
RowsOK == DispatchedMeansAsked /\ CompleteMeansEnough /\ RowsNumbered

\* A step that leaves the rows alone.
LEMMA RowsSame ==
    ASSUME RequestInv, Growing, UNCHANGED <<rows, inserted>>
    PROVE  RowsOK'
<1>1. /\ \A i \in 1 .. inserted : RowNumbered(rows[i])'
      /\ \A i \in 1 .. inserted :
            /\ rows[i].status = "dispatched" => rows[i].files \subseteq covered'
            /\ rows[i].status = "complete" => HasEnough(rows[i])'
  BY Frame
<1>2. \A i \in Ids : i \notin 1 .. inserted => rows[i].status = "none"
  BY RequestAssumption DEF RequestInv, RowsNumbered, TypeOK, Ids
<1>3. \A i \in Ids : i <= inserted => i \in 1 .. inserted
  BY RequestAssumption DEF RequestInv, TypeOK, Ids
<1>4. DispatchedMeansAsked' /\ CompleteMeansEnough'
  BY <1>1, <1>2, <1>3 DEF DispatchedMeansAsked, CompleteMeansEnough
<1>5. \A i \in Ids : IF i <= inserted' THEN RowNumbered(rows[i])' ELSE rows'[i].status = "none"
  BY <1>1, <1>3 DEF RequestInv, RowsNumbered
<1>6. RowsNumbered'
  BY <1>5 DEF Growing, RowsNumbered
<1> QED BY <1>4, <1>6 DEF RowsOK

\* A step that only writes the status of one row.
LEMMA RowSet ==
    ASSUME RequestInv, NEW i \in 1 .. inserted, NEW s \in Statuses, SetStatus(i, s),
           UNCHANGED <<inserted, known, uploaded, covered>>,
           s = "dispatched" => rows[i].files \subseteq covered,
           s = "complete" => HasEnough(rows[i])
    PROVE  Growing /\ RowsOK'
<1>0. i \in Ids /\ inserted \in 0 .. MaxRows
  BY RequestAssumption DEF RequestInv, TypeOK, Ids
<1>1. /\ rows' \in [Ids -> RowRec]
      /\ rows'[i].status = s
      /\ \A j \in Ids : /\ j # i => rows'[j] = rows[j]
                        /\ rows'[j].kind = rows[j].kind
                        /\ rows'[j].files = rows[j].files
  BY <1>0, SetStatusFacts DEF RequestInv, TypeOK
<1>2. \A j \in 1 .. inserted : j \in Ids
  BY <1>0, RequestAssumption DEF Ids
<1>3. Growing
  <2>1. uploaded \subseteq covered /\ covered \subseteq Files /\ known \subseteq Segs
    BY DEF RequestInv, TypeOK, RowsNumbered
  <2>2. inserted <= inserted'
    BY <1>0
  <2> QED BY <1>0, <1>1, <1>2, <2>1, <2>2 DEF Growing
<1>4. \A j \in Ids : j \notin 1 .. inserted => rows'[j].status = "none"
  BY <1>0, <1>1, RequestAssumption DEF RequestInv, RowsNumbered, Ids
<1>5. ASSUME NEW j \in 1 .. inserted
      PROVE  /\ RowNumbered(rows[j])'
             /\ rows'[j].status = "dispatched" => rows'[j].files \subseteq covered'
             /\ rows'[j].status = "complete" => HasEnough(rows[j])'
  <2>1. CASE j = i
    <3>1. RowNumbered(rows[j])'
      BY <1>3, Frame
    <3>2. s = "complete" => HasEnough(rows[i])'
      BY <1>3, EnoughStays
    <3> QED BY <1>0, <1>1, <2>1, <3>1, <3>2
  <2>2. CASE j # i
    <3>1. rows'[j].status = rows[j].status
      BY <1>1, <1>2, <2>2
    <3> QED BY <1>3, <3>1, Frame
  <2> QED BY <2>1, <2>2
<1>6. \A j \in Ids : j <= inserted' => j \in 1 .. inserted
  BY <1>0 DEF Ids
<1>7. DispatchedMeansAsked' /\ CompleteMeansEnough'
  BY <1>4, <1>5 DEF DispatchedMeansAsked, CompleteMeansEnough
<1>8. \A j \in Ids : IF j <= inserted' THEN RowNumbered(rows[j])' ELSE rows'[j].status = "none"
  BY <1>0, <1>4, <1>5, <1>6 DEF Ids
<1>9. RowsNumbered'
  BY <1>3, <1>8 DEF Growing, RowsNumbered
<1> QED BY <1>3, <1>7, <1>9 DEF RowsOK

\* A step that leaves rows, segments and flags alone is growing when it only
\* adds to what the device was told.
LEMMA QuietStep ==
    ASSUME RequestInv, UNCHANGED <<rows, inserted, known, uploaded>>,
           covered \subseteq covered', covered' \subseteq Files
    PROVE  Growing /\ RowsOK'
<1>1. inserted \in 0 .. MaxRows
  BY DEF RequestInv, TypeOK
<1>2. Growing
  BY <1>1, RequestAssumption DEF RequestInv, TypeOK, RowsNumbered, Growing
<1> QED BY <1>2, RowsSame

-----------------------------------------------------------------------------
\* The invariant by the goroutine it speaks of.
PostOK  == post \in [Posters -> PostRec] /\ PostCovered
PollOK  == poll \in [Pollers -> PollRec] /\ PollCounted
DispOK  == d \in DispRec /\ DispatcherCovered
RetryOK == attempts \in [Ids -> 0 .. MaxAttempts - 1] /\ faults \in 0 .. MaxFaults

LEMMA Parts ==
    ASSUME Growing, RowsOK', PostOK', PollOK', DispOK', RetryOK'
    PROVE  RequestInv'
<1>1. TypeOK'
  BY DEF Growing, PostOK, PollOK, DispOK, RetryOK, TypeOK
<1> QED BY <1>1 DEF RowsOK, PostOK, PollOK, DispOK, RequestInv

LEMMA Untouched ==
    ASSUME RequestInv, Growing
    PROVE  /\ post' = post => PostOK'
           /\ poll' = poll => PollOK'
           /\ d' = d => DispOK'
           /\ attempts' = attempts /\ (Fault \/ faults' = faults) => RetryOK'
<1>1. post' = post => PostOK'
  BY Frame DEF RequestInv, TypeOK, PostOK
<1>2. poll' = poll => PollOK'
  BY Frame DEF RequestInv, TypeOK, PollOK
<1>3. d' = d => DispOK'
  BY Frame DEF RequestInv, TypeOK, DispOK
<1>4. attempts' = attempts /\ (Fault \/ faults' = faults) => RetryOK'
  BY RequestAssumption DEF RequestInv, TypeOK, RetryOK, Fault
<1> QED BY <1>1, <1>2, <1>3, <1>4

\* A step of one handler of POST ...
LEMMA PostStep ==
    ASSUME RequestInv, Growing, NEW p \in Posters, NEW r \in PostRec,
           post' = [post EXCEPT ![p] = r],
           r.outcome = "ok" => r.items \subseteq covered',
           r.pc = "insert" => r.outcome # "none",
           r.pc # "idle" => /\ r.kind \in Kinds
                            /\ \A f \in r.items : f[1] \in known' /\ f[2] \in FilesForKind[r.kind]
    PROVE  PostOK'
<1>1. post' \in [Posters -> PostRec]
  BY DEF RequestInv, TypeOK
<1>2. ASSUME NEW x \in Posters
      PROVE  /\ post'[x].outcome = "ok" => post'[x].items \subseteq covered'
             /\ post'[x].pc = "insert" => post'[x].outcome # "none"
             /\ post'[x].pc # "idle" =>
                   /\ post'[x].kind \in Kinds
                   /\ \A f \in post'[x].items :
                         f[1] \in known' /\ f[2] \in FilesForKind[post'[x].kind]
  <2>1. CASE x = p
    BY <2>1 DEF RequestInv, TypeOK
  <2>2. CASE x # p
    <3>1. post'[x] = post[x]
      BY <2>2 DEF RequestInv, TypeOK
    <3>2. /\ post[x].outcome = "ok" => post[x].items \subseteq covered
          /\ post[x].pc = "insert" => post[x].outcome # "none"
          /\ post[x].pc # "idle" =>
                /\ post[x].kind \in Kinds
                /\ \A f \in post[x].items :
                      f[1] \in known /\ f[2] \in FilesForKind[post[x].kind]
      BY DEF RequestInv, PostCovered, RowNumbered
    <3> QED BY <3>1, <3>2 DEF Growing
  <2> QED BY <2>1, <2>2
<1>3. PostCovered'
  BY <1>2 DEF PostCovered, RowNumbered
<1> QED BY <1>1, <1>3 DEF PostOK

\* ... and of one of GET.
LEMMA PollStep ==
    ASSUME RequestInv, Growing, NEW q \in Pollers, NEW r \in PollRec,
           poll' = [poll EXCEPT ![q] = r],
           r.pc # "idle" => r.id \in 1 .. inserted,
           r.pc = "write" => HasEnough(rows[r.id])
    PROVE  PollOK'
<1>0. inserted \in 0 .. MaxRows /\ inserted' \in 0 .. MaxRows /\ inserted <= inserted'
  BY DEF RequestInv, TypeOK, Growing
<1>1. poll' \in [Pollers -> PollRec]
  BY DEF RequestInv, TypeOK
<1>2. \A j \in 1 .. inserted : HasEnough(rows[j]) => HasEnough(rows[j])'
  BY EnoughStays
<1>3. ASSUME NEW x \in Pollers
      PROVE  /\ poll'[x].pc # "idle" => poll'[x].id \in 1 .. inserted'
             /\ \A j \in 1 .. inserted :
                   poll'[x].pc = "write" /\ poll'[x].id = j => HasEnough(rows[j])'
             /\ poll'[x].pc # "idle" => poll'[x].id \in 1 .. inserted
  <2>1. CASE x = q
    <3>1. poll'[x] = r
      BY <2>1 DEF RequestInv, TypeOK
    <3> QED BY <1>0, <1>2, <3>1
  <2>2. CASE x # q
    <3>1. poll'[x] = poll[x]
      BY <2>2 DEF RequestInv, TypeOK
    <3>2. /\ poll[x].pc # "idle" => poll[x].id \in 1 .. inserted
          /\ poll[x].pc = "write" => HasEnough(rows[poll[x].id])
      BY DEF RequestInv, PollCounted
    <3> QED BY <1>0, <1>2, <3>1, <3>2
  <2> QED BY <2>1, <2>2
<1>4. ASSUME NEW x \in Pollers
      PROVE  poll'[x].pc = "write" => HasEnough(rows[poll[x].id])'
  BY <1>3
<1> QED BY <1>1, <1>3, <1>4 DEF PollOK, PollCounted

\* ... and of the dispatcher.
LEMMA DispStep ==
    ASSUME RequestInv, Growing, d' \in DispRec, d'.batch \subseteq 1 .. inserted,
           d'.pc = "record" => d'.id \in 1 .. inserted,
           d'.outcome = "ok" => d'.pc = "record" /\ rows[d'.id].files \subseteq covered'
    PROVE  DispOK'
<1>1. inserted \in 0 .. MaxRows /\ inserted' \in 0 .. MaxRows /\ inserted <= inserted'
  BY DEF RequestInv, TypeOK, Growing
<1>2. \A i \in 1 .. inserted : rows'[i].files = rows[i].files
  BY DEF Growing
<1>3. DispatcherCovered'
  BY <1>1, <1>2 DEF DispatcherCovered
<1> QED BY <1>3 DEF DispOK

LEMMA RpcFacts ==
    ASSUME RequestInv, NEW items \in SUBSET Files, NEW o, Rpc(items, o)
    PROVE  /\ covered \subseteq covered' /\ covered' \subseteq Files
           /\ o = "ok" => items \subseteq covered'
BY DEF RequestInv, TypeOK, Rpc

LEMMA ItemsFacts ==
    ASSUME NEW k \in Kinds
    PROVE  /\ BuildUploadItems(k) \in SUBSET Files
           /\ \A f \in BuildUploadItems(k) : f[1] \in known /\ f[2] \in FilesForKind[k]
BY DEF BuildUploadItems, Wanted

-----------------------------------------------------------------------------
LEMMA InitInv == Init => RequestInv
<1> SUFFICES ASSUME Init PROVE RequestInv
  OBVIOUS
<1> USE RequestAssumption DEF Init, NoRow, IdlePost, IdlePoll, IdleDisp, NoKind, Ids
<1>1. TypeOK
  BY DEF TypeOK, RowRec, PostRec, PollRec, DispRec, Statuses, Outcomes
<1>2. DispatchedMeansAsked /\ CompleteMeansEnough
  BY DEF DispatchedMeansAsked, CompleteMeansEnough
<1>3. RowsNumbered
  BY DEF RowsNumbered
<1>4. PostCovered /\ PollCounted /\ DispatcherCovered
  BY DEF PostCovered, PollCounted, DispatcherCovered
<1> QED BY <1>1, <1>2, <1>3, <1>4 DEF RequestInv

LEMMA PostLookUpKeeps ==
    ASSUME RequestInv, NEW p \in Posters, NEW k \in Kinds, PostLookUp(p, k)
    PROVE  RequestInv'
<1> DEFINE r == [IdlePost EXCEPT !.pc = "dispatch", !.kind = k]
<1>1. /\ post' = [post EXCEPT ![p] = r]
      /\ UNCHANGED <<rows, inserted, known, uploaded, covered, poll, d, attempts, faults>>
  BY DEF PostLookUp
<1>2. /\ r \in PostRec /\ r.pc = "dispatch" /\ r.outcome = "none" /\ r.items = {} /\ r.kind = k
  BY DEF PostRec, IdlePost, Outcomes
<1> HIDE DEF r
<1>3. Growing /\ RowsOK'
  BY <1>1, QuietStep DEF RequestInv, TypeOK
<1>4. PostOK'
  BY <1>1, <1>2, <1>3, PostStep
<1>5. PollOK' /\ DispOK' /\ RetryOK'
  BY <1>1, <1>3, Untouched
<1> QED BY <1>3, <1>4, <1>5, Parts

LEMMA PostDispatchKeeps ==
    ASSUME RequestInv, NEW p \in Posters, PostDispatch(p)
    PROVE  RequestInv'
<1> DEFINE k == post[p].kind
<1>1. k \in Kinds
  BY DEF PostDispatch, RequestInv, PostCovered, RowNumbered
<1>2. PICK o \in Outcomes \ {"none"} :
         /\ Rpc(BuildUploadItems(k), o)
         /\ post' = [post EXCEPT ![p] = [pc |-> "insert", kind |-> k,
                                         items |-> BuildUploadItems(k), outcome |-> o]]
  BY DEF PostDispatch
<1> DEFINE items == BuildUploadItems(k)
           r == [pc |-> "insert", kind |-> k, items |-> items, outcome |-> o]
<1>3. /\ items \in SUBSET Files
      /\ \A f \in items : f[1] \in known /\ f[2] \in FilesForKind[k]
  BY <1>1, ItemsFacts
<1>4. UNCHANGED <<rows, inserted, known, uploaded, poll, d, attempts, faults>>
  BY DEF PostDispatch
<1> HIDE DEF k, items
<1>5. /\ covered \subseteq covered' /\ covered' \subseteq Files
      /\ o = "ok" => items \subseteq covered'
  BY <1>2, <1>3, RpcFacts DEF items
<1>6. Growing /\ RowsOK'
  BY <1>4, <1>5, QuietStep
<1>7. r \in PostRec /\ r.outcome = o /\ r.items = items /\ r.kind = k
  BY <1>1, <1>3 DEF PostRec
<1>8. post' = [post EXCEPT ![p] = r]
  BY <1>2 DEF items
<1> HIDE DEF r
<1>9. PostOK'
  BY <1>3, <1>1, <1>4, <1>5, <1>6, <1>7, <1>8, PostStep
<1>10. PollOK' /\ DispOK' /\ RetryOK'
  BY <1>4, <1>6, Untouched
<1> QED BY <1>6, <1>9, <1>10, Parts

\* A handler of POST that ends without touching anything but its own record.
LEMMA PostFailsKeeps ==
    ASSUME RequestInv, NEW p \in Posters, Fault, post' = [post EXCEPT ![p] = IdlePost],
           UNCHANGED <<rows, inserted, known, uploaded, covered, poll, d, attempts>>
    PROVE  RequestInv'
<1>1. Growing /\ RowsOK'
  BY QuietStep DEF RequestInv, TypeOK
<1>2. IdlePost \in PostRec /\ IdlePost.outcome = "none" /\ IdlePost.pc = "idle"
  BY DEF IdlePost, PostRec, Outcomes
<1>3. PostOK'
  BY <1>1, <1>2, PostStep
<1>4. PollOK' /\ DispOK' /\ RetryOK'
  BY <1>1, Untouched
<1> QED BY <1>1, <1>3, <1>4, Parts

\* The row is made: what the POST holds becomes the row.
LEMMA PostInsertKeeps ==
    ASSUME RequestInv, NEW p \in Posters, PostInsert(p)
    PROVE  RequestInv'
<1> DEFINE n == inserted + 1
           row == [status |-> InsertStatus(post[p].outcome), kind |-> post[p].kind,
                   files |-> post[p].items, recent |-> TRUE]
<1>0. post[p] \in PostRec /\ post[p].pc = "insert" /\ inserted \in 0 .. MaxRows
  BY DEF PostInsert, RequestInv, TypeOK
<1>1. CASE Fault /\ UNCHANGED <<rows, inserted>>
  BY <1>1, PostFailsKeeps DEF PostInsert
<1>2. CASE inserted < MaxRows /\ inserted' = n /\ rows' = [rows EXCEPT ![n] = row] /\ UNCHANGED faults
  <2>1. /\ post' = [post EXCEPT ![p] = IdlePost]
        /\ UNCHANGED <<known, uploaded, covered, poll, d, attempts, faults>>
    BY <1>2 DEF PostInsert
  <2>2. /\ row.status \in {"pending", "failed", "dispatched"}
        /\ row.status = "dispatched" => post[p].outcome \in Outcomes \ {"offline", "error"}
        /\ row.kind = post[p].kind /\ row.files = post[p].items
        /\ row \in RowRec
    BY <1>0 DEF InsertStatus, RowRec, PostRec, Outcomes, Statuses
  <2>3. /\ post[p].outcome = "ok" => post[p].items \subseteq covered
        /\ post[p].outcome # "none"
        /\ post[p].kind \in Kinds
        /\ \A f \in post[p].items : f[1] \in known /\ f[2] \in FilesForKind[post[p].kind]
    BY <1>0 DEF RequestInv, PostCovered, RowNumbered
  <2>4. row.status = "dispatched" => row.files \subseteq covered
    BY <2>2, <2>3 DEF Outcomes
  <2>5. row.kind \in Kinds /\ \A f \in row.files : f[1] \in known /\ f[2] \in FilesForKind[row.kind]
    BY <2>2, <2>3
  <2> HIDE DEF row
  <2>6. n \in Ids /\ n \notin 1 .. inserted /\ inserted' \in 0 .. MaxRows
    BY <1>0, <1>2, RequestAssumption DEF Ids
  <2>7. /\ rows' \in [Ids -> RowRec] /\ rows'[n] = row
        /\ \A j \in Ids \ {n} : rows'[j] = rows[j]
    BY <1>2, <2>2, <2>6 DEF RequestInv, TypeOK
  <2>8. Growing
    <3>1. \A i \in 1 .. inserted : i \in Ids \ {n}
      BY <1>0, <2>6, RequestAssumption DEF Ids
    <3>2. inserted <= inserted'
      BY <1>0, <1>2
    <3> QED BY <2>1, <2>6, <2>7, <3>1, <3>2 DEF Growing, RequestInv, TypeOK, RowsNumbered
  <2>9. RowsOK'
    <3>1. ASSUME NEW i \in Ids
          PROVE  /\ rows'[i].status = "dispatched" => rows'[i].files \subseteq covered'
                 /\ rows'[i].status = "complete" => HasEnough(rows[i])'
                 /\ IF i <= inserted' THEN RowNumbered(rows[i])' ELSE rows'[i].status = "none"
      <4>1. CASE i = n
        <5>1. rows'[i] = row
          BY <2>7, <4>1
        <5>2. row.status # "complete"
          BY <2>2
        <5>3. i <= inserted'
          BY <1>0, <1>2, <4>1
        <5>4. RowNumbered(rows[i])'
          BY <2>1, <2>5, <5>1 DEF RowNumbered
        <5> QED BY <2>1, <2>4, <5>1, <5>2, <5>3, <5>4
      <4>2. CASE i \in 1 .. inserted
        <5>1. i # n /\ rows'[i] = rows[i]
          BY <2>6, <2>7, <4>2
        <5>2. i <= inserted'
          BY <1>0, <1>2, <4>2
        <5> QED BY <2>8, <4>2, <5>1, <5>2, Frame
      <4>3. CASE i # n /\ i \notin 1 .. inserted
        <5>1. ~(i <= inserted) /\ ~(i <= inserted')
          BY <1>0, <1>2, <4>3, RequestAssumption DEF Ids
        <5>2. rows'[i].status = "none"
          BY <2>7, <4>3, <5>1 DEF RequestInv, RowsNumbered
        <5> QED BY <5>1, <5>2
      <4> QED BY <4>1, <4>2, <4>3
    <3>2. DispatchedMeansAsked' /\ CompleteMeansEnough'
      BY <3>1 DEF DispatchedMeansAsked, CompleteMeansEnough
    <3>3. RowsNumbered'
      BY <2>8, <3>1 DEF Growing, RowsNumbered
    <3> QED BY <3>2, <3>3 DEF RowsOK
  <2>10. IdlePost \in PostRec /\ IdlePost.outcome = "none" /\ IdlePost.pc = "idle"
    BY DEF IdlePost, PostRec, Outcomes
  <2>11. PostOK'
    BY <2>1, <2>8, <2>10, PostStep
  <2>12. PollOK' /\ DispOK' /\ RetryOK'
    BY <2>1, <2>8, Untouched
  <2> QED BY <2>8, <2>9, <2>11, <2>12, Parts
<1> QED BY <1>1, <1>2 DEF PostInsert

-----------------------------------------------------------------------------
LEMMA PollReadKeeps ==
    ASSUME RequestInv, NEW q \in Pollers, NEW i \in Ids, PollRead(q, i)
    PROVE  RequestInv'
<1> DEFINE r == [pc |-> "count", id |-> i]
<1>1. /\ poll' = [poll EXCEPT ![q] = r] /\ i <= inserted
      /\ UNCHANGED <<rows, inserted, known, uploaded, covered, post, d, attempts, faults>>
  BY DEF PollRead
<1>2. Growing /\ RowsOK'
  BY <1>1, QuietStep DEF RequestInv, TypeOK
<1>3. r \in PollRec /\ r.id \in 1 .. inserted /\ r.pc # "write"
  BY <1>1, RequestAssumption DEF PollRec, Ids, RequestInv, TypeOK
<1> HIDE DEF r
<1>4. PollOK'
  BY <1>1, <1>2, <1>3, PollStep
<1>5. PostOK' /\ DispOK' /\ RetryOK'
  BY <1>1, <1>2, Untouched
<1> QED BY <1>2, <1>4, <1>5, Parts

LEMMA PollCountKeeps ==
    ASSUME RequestInv, NEW q \in Pollers, PollCount(q)
    PROVE  RequestInv'
<1>1. UNCHANGED <<rows, inserted, known, uploaded, covered, post, d, attempts, faults>>
  BY DEF PollCount
<1>2. Growing /\ RowsOK'
  BY <1>1, QuietStep DEF RequestInv, TypeOK
<1>3. PollOK'
  <2>1. CASE Enough(rows[poll[q].id])
    <3> DEFINE r == [poll[q] EXCEPT !.pc = "write"]
    <3>1. poll' = [poll EXCEPT ![q] = r]
      BY <2>1 DEF PollCount
    <3>2. r \in PollRec /\ r.id = poll[q].id
      BY DEF RequestInv, TypeOK, PollRec
    <3>3. poll[q].id \in 1 .. inserted
      BY DEF PollCount, RequestInv, PollCounted
    <3>4. HasEnough(rows[poll[q].id])
      BY <2>1 DEF Enough, CountUploaded, HasEnough
    <3> HIDE DEF r
    <3> QED BY <1>2, <3>1, <3>2, <3>3, <3>4, PollStep
  <2>2. CASE ~Enough(rows[poll[q].id])
    <3>1. poll' = [poll EXCEPT ![q] = IdlePoll]
      BY <2>2 DEF PollCount
    <3>2. IdlePoll \in PollRec /\ IdlePoll.pc = "idle"
      BY RequestAssumption DEF IdlePoll, PollRec
    <3> QED BY <1>2, <3>1, <3>2, PollStep
  <2> QED BY <2>1, <2>2
<1>4. PostOK' /\ DispOK' /\ RetryOK'
  BY <1>1, <1>2, Untouched
<1> QED BY <1>2, <1>3, <1>4, Parts

LEMMA PollWriteKeeps ==
    ASSUME RequestInv, NEW q \in Pollers, PollWrite(q)
    PROVE  RequestInv'
<1>1. /\ poll' = [poll EXCEPT ![q] = IdlePoll]
      /\ UNCHANGED <<inserted, known, uploaded, covered, post, d, attempts>>
      /\ UNCHANGED faults \/ Fault
  BY DEF PollWrite
<1>2. Growing /\ RowsOK'
  <2>1. CASE SetStatus(poll[q].id, "complete")
    <3>1. poll[q].id \in 1 .. inserted /\ HasEnough(rows[poll[q].id])
      BY DEF PollWrite, RequestInv, PollCounted
    <3> QED BY <1>1, <2>1, <3>1, RowSet DEF Statuses
  <2>2. CASE UNCHANGED rows
    BY <1>1, <2>2, QuietStep DEF RequestInv, TypeOK
  <2> QED BY <2>1, <2>2 DEF PollWrite
<1>3. IdlePoll \in PollRec /\ IdlePoll.pc = "idle"
  BY RequestAssumption DEF IdlePoll, PollRec
<1>4. PollOK'
  BY <1>1, <1>2, <1>3, PollStep
<1>5. PostOK' /\ DispOK' /\ RetryOK'
  BY <1>1, <1>2, Untouched
<1> QED BY <1>2, <1>4, <1>5, Parts

-----------------------------------------------------------------------------
LEMMA SweepKeeps ==
    ASSUME RequestInv, Sweep
    PROVE  RequestInv'
<1> DEFINE b == {i \in Pending : Cardinality({j \in Pending : j < i}) < BatchLimit}
<1>1. /\ d' = [IdleDisp EXCEPT !.pc = "visit", !.batch = b]
      /\ UNCHANGED <<rows, inserted, known, uploaded, covered, post, poll, attempts, faults>>
  BY DEF Sweep
<1>2. Growing /\ RowsOK'
  BY <1>1, QuietStep DEF RequestInv, TypeOK
<1>3. b \in SUBSET Ids /\ b \subseteq 1 .. inserted
  <2>1. \A i \in Ids : rows[i].status = "pending" => i <= inserted
    BY DEF RequestInv, RowsNumbered
  <2> QED BY <2>1 DEF Pending, Ids, RequestInv, TypeOK
<1> HIDE DEF b
<1>4. d' \in DispRec /\ d'.batch = b /\ d'.pc = "visit" /\ d'.outcome = "none"
  <2>1. d' = [pc |-> "visit", batch |-> b, id |-> 0, outcome |-> "none"]
    BY <1>1 DEF IdleDisp
  <2>2. 0 \in 0 .. MaxRows
    BY RequestAssumption
  <2> QED BY <1>3, <2>1, <2>2 DEF DispRec, Outcomes
<1>5. DispOK'
  BY <1>2, <1>3, <1>4, DispStep
<1>6. PostOK' /\ PollOK' /\ RetryOK'
  BY <1>1, <1>2, Untouched
<1> QED BY <1>2, <1>5, <1>6, Parts

LEMMA DispatchPendingKeeps ==
    ASSUME RequestInv, DispatchPending
    PROVE  RequestInv'
<1>1. PICK i \in d.batch, o \in Outcomes \ {"none"} :
         /\ Rpc(BuildUploadItems(rows[i].kind), o)
         /\ d' = [pc |-> "record", batch |-> d.batch \ {i}, id |-> i, outcome |-> o]
  BY DEF DispatchPending
<1>2. UNCHANGED <<rows, inserted, known, uploaded, post, poll, attempts, faults>>
  BY DEF DispatchPending
<1> DEFINE items == BuildUploadItems(rows[i].kind)
<1>3. /\ i \in 1 .. inserted /\ i \in Ids /\ d.batch \subseteq 1 .. inserted
      /\ d \in DispRec /\ inserted \in 0 .. MaxRows
  BY RequestAssumption DEF RequestInv, TypeOK, DispatcherCovered, Ids
<1>4. /\ rows[i].kind \in Kinds /\ rows[i].files \in SUBSET Files
      /\ \A f \in rows[i].files : f[1] \in known /\ f[2] \in FilesForKind[rows[i].kind]
  BY <1>3 DEF RequestInv, TypeOK, RowRec, RowsNumbered, RowNumbered
<1>5. items \in SUBSET Files
  BY <1>4, ItemsFacts
<1>6. rows[i].files \subseteq items \cup uploaded
  BY <1>4 DEF BuildUploadItems, Wanted
<1> HIDE DEF items
<1>7. /\ covered \subseteq covered' /\ covered' \subseteq Files
      /\ o = "ok" => items \subseteq covered'
  BY <1>1, <1>5, RpcFacts DEF items
<1>8. o = "ok" => rows[i].files \subseteq covered'
  BY <1>6, <1>7 DEF RequestInv, RowsNumbered
<1>9. Growing /\ RowsOK'
  BY <1>2, <1>7, QuietStep
<1>10. /\ d' \in DispRec /\ d'.batch \subseteq 1 .. inserted
       /\ d'.pc = "record" /\ d'.id = i /\ d'.outcome = o
  BY <1>1, <1>3, RequestAssumption DEF DispRec, Ids
<1>11. DispOK'
  BY <1>3, <1>8, <1>9, <1>10, DispStep
<1>12. PostOK' /\ PollOK' /\ RetryOK'
  BY <1>2, <1>9, Untouched
<1> QED BY <1>9, <1>11, <1>12, Parts

\* The dispatcher goes on to the next row of its list.
LEMMA ProceedFacts ==
    ASSUME RequestInv, Growing, Proceed
    PROVE  DispOK'
<1>1. d \in DispRec /\ d.batch \subseteq 1 .. inserted
  BY DEF RequestInv, TypeOK, DispatcherCovered
<1>2. /\ d' \in DispRec /\ d'.batch = d.batch
      /\ d'.pc \in {"idle", "visit"} /\ d'.outcome = "none"
  <2>1. PICK pc \in {"idle", "visit"} :
           d' = [pc |-> pc, batch |-> d.batch, id |-> 0, outcome |-> "none"]
    BY DEF Proceed, IdleDisp
  <2>2. 0 \in 0 .. MaxRows /\ d.batch \in SUBSET Ids
    BY <1>1, RequestAssumption DEF DispRec
  <2> QED BY <2>1, <2>2 DEF DispRec, Outcomes
<1> QED BY <1>1, <1>2, DispStep

LEMMA RecordDispatchedKeeps ==
    ASSUME RequestInv, RecordDispatched
    PROVE  RequestInv'
<1>1. /\ UNCHANGED <<inserted, known, uploaded, covered, post, poll>>
      /\ Proceed
      /\ \/ /\ SetStatus(d.id, "dispatched")
            /\ attempts' = [attempts EXCEPT ![d.id] = 0]
            /\ faults' = faults
         \/ Fault /\ UNCHANGED <<rows, attempts>>
  BY DEF RecordDispatched
<1>2. d.id \in 1 .. inserted /\ d.id \in Ids /\ rows[d.id].files \subseteq covered
  BY RequestAssumption DEF RecordDispatched, RequestInv, TypeOK, DispatcherCovered, Ids
<1>3. Growing /\ RowsOK'
  <2>1. CASE SetStatus(d.id, "dispatched")
    BY <1>1, <1>2, <2>1, RowSet DEF Statuses
  <2>2. CASE UNCHANGED rows
    BY <1>1, <2>2, QuietStep DEF RequestInv, TypeOK
  <2> QED BY <1>1, <2>1, <2>2
<1>4. RetryOK'
  <2>1. CASE attempts' = [attempts EXCEPT ![d.id] = 0] /\ faults' = faults
    <3>1. 0 \in 0 .. MaxAttempts - 1
      BY RequestAssumption
    <3> QED BY <2>1, <3>1 DEF RequestInv, TypeOK, RetryOK
  <2>2. CASE Fault /\ UNCHANGED attempts
    BY <1>3, <2>2, Untouched
  <2> QED BY <1>1, <2>1, <2>2
<1>5. DispOK'
  BY <1>1, <1>3, ProceedFacts
<1>6. PostOK' /\ PollOK'
  BY <1>1, <1>3, Untouched
<1> QED BY <1>3, <1>4, <1>5, <1>6, Parts

LEMMA RecordAttemptKeeps ==
    ASSUME RequestInv, RecordAttempt
    PROVE  RequestInv'
<1>1. /\ UNCHANGED <<inserted, known, uploaded, covered, post, poll>>
      /\ Proceed
  BY DEF RecordAttempt
<1>2. d.id \in 1 .. inserted /\ d.id \in Ids
  BY RequestAssumption DEF RecordAttempt, RequestInv, TypeOK, DispatcherCovered, Ids
<1>3. CASE Spent(d.id)
  <2>1. /\ attempts' = [attempts EXCEPT ![d.id] = 0]
        /\ \/ SetStatus(d.id, "failed") /\ faults' = faults
           \/ Fault /\ UNCHANGED rows
    BY <1>3 DEF RecordAttempt
  <2>2. Growing /\ RowsOK'
    <3>1. CASE SetStatus(d.id, "failed")
      BY <1>1, <1>2, <3>1, RowSet DEF Statuses
    <3>2. CASE UNCHANGED rows
      BY <1>1, <3>2, QuietStep DEF RequestInv, TypeOK
    <3> QED BY <2>1, <3>1, <3>2
  <2>3. RetryOK'
    <3>1. 0 \in 0 .. MaxAttempts - 1 /\ faults' \in 0 .. MaxFaults
      BY <2>1, RequestAssumption DEF Fault, RequestInv, TypeOK
    <3> QED BY <2>1, <3>1 DEF RequestInv, TypeOK, RetryOK
  <2> QED BY <1>1, <2>2, <2>3, ProceedFacts, Untouched, Parts
<1>4. CASE ~Spent(d.id)
  <2>1. attempts' = [attempts EXCEPT ![d.id] = Bump(d.id)] /\ UNCHANGED <<rows, faults>>
    BY <1>4 DEF RecordAttempt
  <2>2. Growing /\ RowsOK'
    BY <1>1, <2>1, QuietStep DEF RequestInv, TypeOK
  <2>3. Bump(d.id) \in 0 .. MaxAttempts - 1
    BY <1>2, <1>4, RequestAssumption DEF Spent, Bump, RequestInv, TypeOK
  <2>4. RetryOK'
    BY <2>1, <2>3 DEF RequestInv, TypeOK, RetryOK
  <2> QED BY <1>1, <2>2, <2>4, ProceedFacts, Untouched, Parts
<1> QED BY <1>3, <1>4

-----------------------------------------------------------------------------
LEMMA UploadKeeps ==
    ASSUME RequestInv, NEW s \in Segs, Upload(s)
    PROVE  RequestInv'
<1>1. /\ known' = known \cup {s}
      /\ UNCHANGED <<rows, inserted, post, poll, d, attempts, faults>>
  BY DEF Upload
<1>2. /\ uploaded \subseteq uploaded' /\ covered \subseteq covered'
      /\ uploaded' \subseteq covered' /\ covered' \subseteq Files
  BY DEF Upload, RequestInv, TypeOK, RowsNumbered, Files
<1>3. Growing
  BY <1>1, <1>2, RequestAssumption DEF Growing, RequestInv, TypeOK
<1>4. RowsOK'
  BY <1>1, <1>3, RowsSame
<1> QED BY <1>1, <1>3, <1>4, Untouched, Parts

LEMMA WindowEndsKeeps ==
    ASSUME RequestInv, NEW i \in Ids, WindowEnds(i)
    PROVE  RequestInv'
<1>1. UNCHANGED <<inserted, known, uploaded, covered, post, poll, d, attempts, faults>>
  BY DEF WindowEnds
<1>2. /\ rows' \in [Ids -> RowRec]
      /\ \A j \in Ids : /\ rows'[j].status = rows[j].status
                        /\ rows'[j].kind = rows[j].kind
                        /\ rows'[j].files = rows[j].files
  <2>1. rows \in [Ids -> RowRec]
    BY DEF RequestInv, TypeOK
  <2>2. ASSUME NEW row \in RowRec
        PROVE  LET old == [row EXCEPT !.recent = FALSE]
               IN  /\ old \in RowRec /\ old.status = row.status
                   /\ old.kind = row.kind /\ old.files = row.files
    BY DEF RowRec
  <2> DEFINE New(j) == IF j <= i THEN [rows[j] EXCEPT !.recent = FALSE] ELSE rows[j]
  <2>3. rows' = [j \in Ids |-> New(j)]
    BY DEF WindowEnds
  <2>4. \A j \in Ids : /\ New(j) \in RowRec /\ New(j).status = rows[j].status
                       /\ New(j).kind = rows[j].kind /\ New(j).files = rows[j].files
    BY <2>1, <2>2
  <2> HIDE DEF New
  <2> QED BY <2>3, <2>4
<1>3. Growing
  BY <1>1, <1>2, RequestAssumption DEF Growing, RequestInv, TypeOK, RowsNumbered, Ids
<1>4. ASSUME NEW j \in Ids
      PROVE  /\ rows'[j].status = "dispatched" => rows'[j].files \subseteq covered'
             /\ rows'[j].status = "complete" => HasEnough(rows[j])'
             /\ IF j <= inserted' THEN RowNumbered(rows[j])' ELSE rows'[j].status = "none"
  <2>1. CASE j <= inserted
    <3>1. j \in 1 .. inserted
      BY <2>1 DEF Ids, RequestInv, TypeOK
    <3> QED BY <1>1, <1>2, <1>3, <2>1, <3>1, Frame
  <2>2. CASE ~(j <= inserted)
    <3>1. rows'[j].status = "none"
      BY <1>2, <2>2 DEF RequestInv, RowsNumbered
    <3> QED BY <1>1, <2>2, <3>1
  <2> QED BY <2>1, <2>2
<1>5. DispatchedMeansAsked' /\ CompleteMeansEnough'
  BY <1>4 DEF DispatchedMeansAsked, CompleteMeansEnough
<1>6. RowsNumbered'
  BY <1>3, <1>4 DEF Growing, RowsNumbered
<1>7. RowsOK'
  BY <1>5, <1>6 DEF RowsOK
<1> QED BY <1>1, <1>3, <1>7, Untouched, Parts

LEMMA CrashKeeps ==
    ASSUME RequestInv, Crash
    PROVE  RequestInv'
<1>1. Growing /\ RowsOK'
  BY QuietStep DEF Crash, RequestInv, TypeOK
<1>2. PostOK'
  BY DEF Crash, PostOK, PostCovered, IdlePost, PostRec, Outcomes
<1>3. PollOK'
  BY RequestAssumption DEF Crash, PollOK, PollCounted, IdlePoll, PollRec
<1>4. DispOK'
  BY RequestAssumption DEF Crash, DispOK, DispatcherCovered, IdleDisp, DispRec, Outcomes
<1>5. RetryOK'
  BY RequestAssumption DEF Crash, Fault, RetryOK, RequestInv, TypeOK
<1> QED BY <1>1, <1>2, <1>3, <1>4, <1>5, Parts

LEMMA StutterKeeps ==
    ASSUME RequestInv, UNCHANGED vars
    PROVE  RequestInv'
<1>1. UNCHANGED <<rows, inserted, known, uploaded, covered, post, poll, d, attempts, faults>>
  BY DEF vars
<1>2. Growing /\ RowsOK'
  BY <1>1, QuietStep DEF RequestInv, TypeOK
<1> QED BY <1>1, <1>2, Untouched, Parts

-----------------------------------------------------------------------------
LEMMA StepInv == RequestInv /\ [Next]_vars => RequestInv'
<1> SUFFICES ASSUME RequestInv, [Next]_vars PROVE RequestInv'
  OBVIOUS
<1>1. ASSUME NEW p \in Posters, NEW k \in Kinds, PostLookUp(p, k) PROVE RequestInv'
  BY <1>1, PostLookUpKeeps
<1>2. ASSUME NEW p \in Posters, PostDispatch(p) PROVE RequestInv'
  BY <1>2, PostDispatchKeeps
<1>3. ASSUME NEW p \in Posters, PostInsert(p) PROVE RequestInv'
  BY <1>3, PostInsertKeeps
<1>4. ASSUME NEW p \in Posters, PostFails(p) PROVE RequestInv'
  BY <1>4, PostFailsKeeps DEF PostFails
<1>5. ASSUME NEW q \in Pollers, NEW i \in Ids, PollRead(q, i) PROVE RequestInv'
  BY <1>5, PollReadKeeps
<1>6. ASSUME NEW q \in Pollers, PollCount(q) PROVE RequestInv'
  BY <1>6, PollCountKeeps
<1>7. ASSUME NEW q \in Pollers, PollWrite(q) PROVE RequestInv'
  BY <1>7, PollWriteKeeps
<1>8. CASE Dispatcher
  BY <1>8, SweepKeeps, DispatchPendingKeeps, RecordDispatchedKeeps, RecordAttemptKeeps
     DEF Dispatcher
<1>9. CASE \E s \in Segs : Upload(s)
  BY <1>9, UploadKeeps
<1>10. CASE \E i \in Ids : WindowEnds(i)
  BY <1>10, WindowEndsKeeps
<1>11. CASE Crash
  BY <1>11, CrashKeeps
<1>12. CASE UNCHANGED vars
  BY <1>12, StutterKeeps
<1>13. CASE Handlers
  BY <1>13, <1>1, <1>2, <1>3, <1>4, <1>5, <1>6, <1>7 DEF Handlers
<1> QED BY <1>8, <1>9, <1>10, <1>11, <1>12, <1>13 DEF Next

LEMMA InvAlways == Spec => []RequestInv
BY InitInv, StepInv, PTL DEF Spec

\* The rows and the locals of the handlers keep their types, and the retry
\* count of a row never reaches the budget.
THEOREM RequestType == Spec => []TypeOK
<1>1. RequestInv => TypeOK
  BY DEF RequestInv
<1> QED BY <1>1, InvAlways, PTL

\* 'dispatched' is never written for a file the device was not told of and
\* has not sent, whichever of POST and dispatcher writes it.
THEOREM RequestDispatched == Spec => []DispatchedMeansAsked
<1>1. RequestInv => DispatchedMeansAsked
  BY DEF RequestInv
<1> QED BY <1>1, InvAlways, PTL

\* 'complete', which GET writes from a count it made earlier, still holds of
\* the files when it is written, and ever after.
THEOREM RequestComplete == Spec => []CompleteMeansEnough
<1>1. RequestInv => CompleteMeansEnough
  BY DEF RequestInv
<1> QED BY <1>1, InvAlways, PTL
-----------------------------------------------------------------------------
(* POSTs one at a time leave one request of a kind under way.              *)

\* A step that settles no row anew and starts no POST.
LEMMA WindowFrame ==
    ASSUME RequestInv, WindowInv, inserted' = inserted,
           \A i \in Ids : rows'[i].kind = rows[i].kind,
           \A p \in Posters : post'[p].pc # "idle" =>
              post[p].pc # "idle" /\ post'[p].kind = post[p].kind,
           \A i \in 1 .. inserted : Settled(i) => Settled(i)',
           HeldOpen'
    PROVE  WindowInv'
<1>1. 1 .. inserted \subseteq Ids
  BY RequestAssumption DEF RequestInv, TypeOK, Ids
<1>2. OthersSettled'
  BY <1>1 DEF WindowInv, OthersSettled
<1>3. PostSettled'
  <2> SUFFICES ASSUME NEW p \in Posters, post'[p].pc # "idle",
                      NEW i \in 1 .. inserted, rows'[i].kind = post'[p].kind
               PROVE  Settled(i)'
    BY DEF PostSettled
  <2>1. Settled(i)
    BY <1>1 DEF WindowInv, PostSettled
  <2> QED BY <2>1
<1> QED BY <1>2, <1>3 DEF WindowInv

\* A step that leaves the table and the dispatcher alone.
LEMMA WindowStays ==
    ASSUME RequestInv, WindowInv, UNCHANGED <<rows, inserted>>, d' = d \/ d' = IdleDisp,
           \A p \in Posters : post'[p].pc # "idle" =>
              post[p].pc # "idle" /\ post'[p].kind = post[p].kind
    PROVE  WindowInv'
<1>1. HeldOpen' /\ \A i : Settled(i) => Settled(i)'
  BY DEF WindowInv, HeldOpen, Held, Settled, IdleDisp
<1> QED BY <1>1, WindowFrame

\* The POST that found no request to wait for.
LEMMA LookUpWindow ==
    ASSUME RequestInv, WindowInv, NEW p \in Posters, NEW k \in Kinds, PostLookUp(p, k)
    PROVE  WindowInv'
<1>1. /\ ~Duplicate(k) /\ UNCHANGED <<rows, inserted, d>>
      /\ post' = [post EXCEPT ![p] = [IdlePost EXCEPT !.pc = "dispatch", !.kind = k]]
  BY DEF PostLookUp
<1>2. \A i : Settled(i)' <=> Settled(i)
  BY <1>1 DEF Settled, Held
<1>3. HeldOpen' /\ OthersSettled'
  BY <1>1, <1>2 DEF WindowInv, HeldOpen, Held, OthersSettled
<1>4. /\ post \in [Posters -> PostRec] /\ inserted \in 0 .. MaxRows
      /\ 1 .. inserted \subseteq Ids
  BY RequestAssumption DEF RequestInv, TypeOK, Ids
<1>5. \A x \in Posters : IF x = p THEN post'[x].kind = k ELSE post'[x] = post[x]
  BY <1>1, <1>4 DEF IdlePost
<1>6. ASSUME NEW i \in 1 .. inserted, rows[i].kind = k PROVE Settled(i)
  <2>1. CASE Latest(k, i)
    <3>1. rows[i].status = "failed" \/ ~rows[i].recent
      BY <1>1, <1>4, <2>1 DEF Duplicate
    <3>2. rows[i].status = "failed" => ~Held(i)
      BY <1>4 DEF WindowInv, HeldOpen
    <3> QED BY <3>1, <3>2 DEF Settled
  <2>2. CASE ~Latest(k, i)
    <3>1. PICK j \in OfKind(k) : ~(j <= i)
      BY <1>6, <2>2 DEF Latest, OfKind
    <3>2. j \in 1 .. inserted /\ rows[j].kind = k /\ i < j
      BY <1>4, <3>1 DEF OfKind
    <3> QED BY <1>6, <3>2 DEF WindowInv, OthersSettled
  <2> QED BY <2>1, <2>2
<1>7. PostSettled'
  <2> SUFFICES ASSUME NEW x \in Posters, post'[x].pc # "idle",
                      NEW i \in 1 .. inserted, rows[i].kind = post'[x].kind
               PROVE  Settled(i)
    BY <1>1, <1>2 DEF PostSettled
  <2>1. CASE x = p
    BY <1>5, <1>6, <2>1
  <2>2. CASE x # p
    BY <1>5, <2>2 DEF WindowInv, PostSettled
  <2> QED BY <2>1, <2>2
<1> QED BY <1>3, <1>7 DEF WindowInv

\* Its row, which no other POST came before.
LEMMA InsertWindow ==
    ASSUME OneAtATime, RequestInv, WindowInv, NEW p \in Posters, PostInsert(p)
    PROVE  WindowInv'
<1> DEFINE n == inserted + 1
           new == [status |-> InsertStatus(post[p].outcome), kind |-> post[p].kind,
                   files |-> post[p].items, recent |-> TRUE]
<1>0. /\ rows \in [Ids -> RowRec] /\ inserted \in 0 .. MaxRows
      /\ post \in [Posters -> PostRec] /\ 1 .. inserted \subseteq Ids
      /\ d.batch \subseteq 1 .. inserted
      /\ d.pc = "record" => d.id \in 1 .. inserted
  BY RequestAssumption DEF RequestInv, TypeOK, Ids, DispatcherCovered
<1>1. /\ post[p].pc = "insert" /\ d' = d /\ post' = [post EXCEPT ![p] = IdlePost]
      /\ \/ /\ inserted < MaxRows /\ inserted' = n
            /\ rows' = [rows EXCEPT ![n] = new]
         \/ UNCHANGED <<rows, inserted>>
  BY DEF PostInsert
<1>2. \A x \in Posters : post'[x].pc = "idle"
  BY <1>0, <1>1 DEF OneAtATime, IdlePost
<1>3. CASE UNCHANGED <<rows, inserted>>
  BY <1>1, <1>2, <1>3, WindowStays
<1>4. CASE inserted < MaxRows /\ inserted' = n /\ rows' = [rows EXCEPT ![n] = new]
  <2>1. new.kind = post[p].kind
    OBVIOUS
  <2> HIDE DEF new
  <2>2. \A i \in Ids : rows'[i] = IF i = n THEN new ELSE rows[i]
    BY <1>0, <1>4
  <2>3. n \in Ids /\ n \notin 1 .. inserted /\ 1 .. n = (1 .. inserted) \cup {n}
        /\ \A i \in 1 .. inserted : i < n
    BY RequestAssumption, <1>0, <1>4 DEF Ids
  <2>4. \A i : Held(i)' <=> Held(i)
    BY <1>1 DEF Held
  <2>5. ~Held(n)
    BY <1>0, <2>3 DEF Held
  <2>6. HeldOpen'
    <3>1. \A i \in Ids : Held(i)' => rows'[i].status \in {"pending", "complete"}
      BY <2>2, <2>4, <2>5 DEF WindowInv, HeldOpen
    <3> QED BY <1>1, <3>1 DEF WindowInv, HeldOpen
  <2>7. \A i \in 1 .. inserted : Settled(i)' <=> Settled(i)
    BY <1>0, <2>2, <2>3, <2>4 DEF Settled
  <2>8. OthersSettled'
    <3> SUFFICES ASSUME NEW i \in 1 .. n, NEW j \in 1 .. n,
                        rows'[i].kind = rows'[j].kind, i < j
                 PROVE  Settled(i)'
      BY <1>4 DEF OthersSettled
    <3>1. i \in 1 .. inserted /\ rows'[i].kind = rows[i].kind
      BY <1>0, <2>2, <2>3
    <3>2. CASE j = n
      <4>1. rows[i].kind = post[p].kind
        BY <2>1, <2>2, <2>3, <3>1, <3>2
      <4> QED BY <1>1, <2>7, <3>1, <4>1 DEF WindowInv, PostSettled
    <3>3. CASE j # n
      <4>1. j \in 1 .. inserted /\ rows'[j].kind = rows[j].kind
        BY <1>0, <2>2, <2>3, <3>3
      <4> QED BY <2>7, <3>1, <4>1 DEF WindowInv, OthersSettled
    <3> QED BY <3>2, <3>3
  <2>9. PostSettled'
    BY <1>2 DEF PostSettled
  <2> QED BY <2>6, <2>8, <2>9 DEF WindowInv
<1> QED BY <1>1, <1>3, <1>4

\* GET completes a row: it stays as settled as it was.
LEMMA PollWriteWindow ==
    ASSUME RequestInv, WindowInv, NEW q \in Pollers, PollWrite(q)
    PROVE  WindowInv'
<1>1. UNCHANGED <<inserted, post, d>>
  BY DEF PollWrite
<1>2. CASE UNCHANGED rows
  BY <1>1, <1>2, WindowStays
<1>3. CASE SetStatus(poll[q].id, "complete")
  <2>1. poll[q].id \in Ids
    BY RequestAssumption DEF PollWrite, RequestInv, TypeOK, PollCounted, Ids
  <2>2. \A i \in Ids : /\ rows'[i].kind = rows[i].kind
                       /\ rows'[i].recent = rows[i].recent
                       /\ rows'[i].status \in {rows[i].status, "complete"}
    BY <1>3, <2>1, SetStatusFacts, SetStatusRecent DEF RequestInv, TypeOK, Statuses
  <2>3. HeldOpen' /\ \A i \in Ids : Settled(i) => Settled(i)'
    BY <1>1, <2>2 DEF WindowInv, HeldOpen, Held, Settled
  <2>4. 1 .. inserted \subseteq Ids
    BY RequestAssumption DEF RequestInv, TypeOK, Ids
  <2> QED BY <1>1, <2>2, <2>3, <2>4, WindowFrame
<1> QED BY <1>2, <1>3 DEF PollWrite

\* The dispatcher takes up rows that wait, and writes only rows it holds.
LEMMA DispatcherWindow ==
    ASSUME RequestInv, WindowInv, Dispatcher
    PROVE  WindowInv'
<1>0. /\ rows \in [Ids -> RowRec] /\ inserted \in 0 .. MaxRows /\ d \in DispRec
      /\ 1 .. inserted \subseteq Ids
      /\ d.pc = "record" => d.id \in Ids
  BY RequestAssumption DEF RequestInv, TypeOK, Ids, DispatcherCovered
<1>1. CASE Sweep
  <2> DEFINE b == {i \in Pending : Cardinality({j \in Pending : j < i}) < BatchLimit}
  <2>1. /\ d' = [IdleDisp EXCEPT !.pc = "visit", !.batch = b]
        /\ UNCHANGED <<rows, inserted, post>>
    BY <1>1 DEF Sweep
  <2>2. \A i \in b : rows[i].status = "pending"
    BY DEF Pending
  <2> HIDE DEF b
  <2>3. \A i : Held(i)' <=> i \in b
    BY <2>1 DEF Held, IdleDisp
  <2>4. d'.pc # "record"
    BY <2>1 DEF IdleDisp
  <2>5. HeldOpen' /\ \A i : Settled(i) => Settled(i)'
    BY <2>1, <2>2, <2>3, <2>4 DEF HeldOpen, Settled
  <2> QED BY <2>1, <2>5, WindowFrame
<1>2. CASE DispatchPending
  <2>1. PICK i \in d.batch, o \in Outcomes :
           d' = [pc |-> "record", batch |-> d.batch \ {i}, id |-> i, outcome |-> o]
    BY <1>2 DEF DispatchPending
  <2>2. d.pc = "visit" /\ UNCHANGED <<rows, inserted, post>>
    BY <1>2 DEF DispatchPending
  <2>3. \A j : Held(j)' <=> Held(j)
    BY <2>1, <2>2 DEF Held
  <2>4. HeldOpen' /\ \A j : Settled(j) => Settled(j)'
    BY <2>1, <2>2, <2>3 DEF WindowInv, HeldOpen, Settled
  <2> QED BY <2>2, <2>4, WindowFrame
<1>3. CASE RecordDispatched \/ RecordAttempt
  <2>1. /\ d.pc = "record" /\ Proceed /\ UNCHANGED <<inserted, post>>
        /\ \/ UNCHANGED rows
           \/ SetStatus(d.id, "dispatched") \/ SetStatus(d.id, "failed")
    BY <1>3 DEF RecordDispatched, RecordAttempt
  <2>2. d.id \in Ids /\ Held(d.id) /\ d.id \notin d.batch
    BY <1>0, <2>1 DEF WindowInv, HeldOpen, Held
  <2>3. \A i : Held(i)' <=> i \in d.batch
    BY <2>1 DEF Proceed, Held, IdleDisp
  <2>4. d'.pc # "record"
    BY <2>1 DEF Proceed, IdleDisp
  <2>5. \A i \in Ids : /\ rows'[i].kind = rows[i].kind
                       /\ rows'[i].recent = rows[i].recent
                       /\ i # d.id => rows'[i].status = rows[i].status
    <3>1. CASE UNCHANGED rows
      BY <3>1
    <3>2. CASE SetStatus(d.id, "dispatched") \/ SetStatus(d.id, "failed")
      BY <1>0, <2>2, <3>2, SetStatusFacts, SetStatusRecent DEF Statuses
    <3> QED BY <2>1, <3>1, <3>2
  <2>6. HeldOpen'
    BY <2>2, <2>3, <2>4, <2>5 DEF WindowInv, HeldOpen, Held
  <2>7. \A i \in Ids : Settled(i) => Settled(i)'
    BY <2>2, <2>3, <2>5 DEF Settled, Held
  <2> QED BY <1>0, <2>1, <2>5, <2>6, <2>7, WindowFrame
<1> QED BY <1>1, <1>2, <1>3 DEF Dispatcher

LEMMA WindowEndsWindow ==
    ASSUME RequestInv, WindowInv, NEW i \in Ids, WindowEnds(i)
    PROVE  WindowInv'
<1>1. UNCHANGED <<inserted, post, d>>
  BY DEF WindowEnds
<1>2. rows \in [Ids -> RowRec] /\ 1 .. inserted \subseteq Ids
  BY RequestAssumption DEF RequestInv, TypeOK, Ids
<1> DEFINE New(j) == IF j <= i THEN [rows[j] EXCEPT !.recent = FALSE] ELSE rows[j]
<1>3. rows' = [j \in Ids |-> New(j)]
  BY DEF WindowEnds
<1>4. \A j \in Ids : /\ New(j).kind = rows[j].kind /\ New(j).status = rows[j].status
                     /\ New(j).recent => rows[j].recent
  BY <1>2 DEF RowRec
<1> HIDE DEF New
<1>5. \A j \in Ids : /\ rows'[j].kind = rows[j].kind /\ rows'[j].status = rows[j].status
                     /\ rows'[j].recent => rows[j].recent
  BY <1>3, <1>4
<1>6. HeldOpen' /\ \A j \in Ids : Settled(j) => Settled(j)'
  BY <1>1, <1>5 DEF WindowInv, HeldOpen, Held, Settled
<1> QED BY <1>1, <1>2, <1>5, <1>6, WindowFrame

LEMMA StepWindow ==
    ASSUME OneAtATime, RequestInv, WindowInv, [Next]_vars
    PROVE  WindowInv'
<1>0. post \in [Posters -> PostRec]
  BY DEF RequestInv, TypeOK
<1>1. ASSUME NEW p \in Posters, PostDispatch(p) \/ PostFails(p) PROVE WindowInv'
  <2>1. UNCHANGED <<rows, inserted, d>>
    BY <1>1 DEF PostDispatch, PostFails
  <2>2. CASE PostFails(p)
    BY <1>0, <2>1, <2>2, WindowStays DEF PostFails, IdlePost
  <2>3. CASE PostDispatch(p)
    <3>1. /\ post[p].pc = "dispatch"
          /\ \E i, o : post' = [post EXCEPT ![p] =
                                  [pc |-> "insert", kind |-> post[p].kind,
                                   items |-> i, outcome |-> o]]
      BY <2>3 DEF PostDispatch
    <3>2. \A x \in Posters : post'[x].pc # "idle" =>
                             post[x].pc # "idle" /\ post'[x].kind = post[x].kind
      BY <1>0, <3>1
    <3> QED BY <2>1, <3>2, WindowStays
  <2> QED BY <1>1, <2>2, <2>3
<1>2. CASE Handlers
  <2>1. ASSUME NEW q \in Pollers, NEW i \in Ids, PollRead(q, i) PROVE WindowInv'
    BY <2>1, WindowStays DEF PollRead
  <2>2. ASSUME NEW q \in Pollers, PollCount(q) PROVE WindowInv'
    BY <2>2, WindowStays DEF PollCount
  <2> QED BY <1>1, <1>2, <2>1, <2>2, LookUpWindow, InsertWindow, PollWriteWindow DEF Handlers
<1>3. CASE \E s \in Segs : Upload(s)
  BY <1>3, WindowStays DEF Upload
<1>4. CASE Crash
  BY <1>0, <1>4, WindowStays DEF Crash, IdlePost
<1>5. CASE UNCHANGED vars
  BY <1>5, WindowStays DEF vars
<1> QED BY <1>2, <1>3, <1>4, <1>5, DispatcherWindow, WindowEndsWindow DEF Next

\* Served one at a time, POSTs leave at most one request of a kind under way
\* within the window: a row that is passed over is ended for good, although
\* GET and dispatcher write it without looking.
THEOREM RequestInFlight == Spec => []InFlightBounded
<1>1. ASSUME OneAtATime PROVE Spec => []WindowInv
  <2>1. Init => WindowInv
    BY DEF Init, WindowInv, HeldOpen, Held, OthersSettled, PostSettled, IdleDisp, IdlePost
  <2>2. RequestInv /\ WindowInv /\ [Next]_vars => WindowInv'
    BY <1>1, StepWindow
  <2> QED BY <2>1, <2>2, InvAlways, PTL DEF Spec
<1>2. ASSUME RequestInv, WindowInv, NEW k \in Kinds, NEW i \in InFlight(k), NEW j \in InFlight(k)
      PROVE  i = j
  <2>1. /\ i \in 1 .. inserted /\ j \in 1 .. inserted /\ inserted \in Nat
        /\ rows[i].kind = rows[j].kind
    BY <1>2 DEF RequestInv, TypeOK, RowsNumbered, InFlight, Ids
  <2>2. ~Settled(i) /\ ~Settled(j)
    BY <1>2 DEF InFlight, Settled
  <2>3. ~(i < j) /\ ~(j < i)
    BY <1>2, <2>1, <2>2 DEF WindowInv, OthersSettled
  <2> QED BY <2>1, <2>3
<1>3. RequestInv /\ WindowInv => InFlightBounded
  BY <1>2 DEF InFlightBounded
<1>4. CASE OneAtATime
  BY <1>1, <1>3, <1>4, InvAlways, PTL
<1>5. CASE ~OneAtATime
  <2>1. TRUE => InFlightBounded
    BY <1>5 DEF InFlightBounded
  <2> QED BY <2>1, PTL
<1> QED BY <1>4, <1>5

-----------------------------------------------------------------------------
(* What becomes of a row.  The dispatcher writes a row it listed as         *)
(* waiting; only GET can have written it since.                             *)

\* A row that is there has a status.
Begun == \A i \in 1 .. inserted : rows[i].status # "none"

\* What a step makes of the statuses.
Inserted == /\ inserted + 1 \in Ids /\ inserted' = inserted + 1
            /\ \A i \in Ids : IF i = inserted + 1 THEN rows'[i].status \in Statuses \ {"none", "complete"}
                              ELSE rows'[i].status = rows[i].status
Written(i, s) == /\ i \in 1 .. inserted /\ inserted' = inserted /\ rows'[i].status = s
                 /\ \A j \in Ids : j # i => rows'[j].status = rows[j].status
Unwritten == inserted' = inserted /\ \A i \in Ids : rows'[i].status = rows[i].status

\* ... and of the dispatcher's list.
SameHold == d' = d
LetsGo   == d'.batch = {} /\ d'.pc # "record"

LEMMA StatusStep ==
    ASSUME RequestInv, [Next]_vars
    PROVE  \/ Inserted /\ SameHold
           \/ (\E i \in 1 .. inserted : Written(i, "complete")) /\ SameHold
           \/ Dispatcher
           \/ Unwritten /\ (SameHold \/ LetsGo)
<1>0. /\ rows \in [Ids -> RowRec] /\ inserted \in 0 .. MaxRows /\ MaxRows \in Nat
      /\ post \in [Posters -> PostRec] /\ poll \in [Pollers -> PollRec]
      /\ 1 .. inserted \subseteq Ids
  BY RequestAssumption DEF RequestInv, TypeOK, Ids
<1>1. CASE UNCHANGED <<rows, inserted>> /\ (d' = d \/ d' = IdleDisp)
  BY <1>1 DEF Unwritten, SameHold, LetsGo, IdleDisp
<1>2. ASSUME NEW p \in Posters, PostInsert(p) PROVE (Inserted /\ SameHold) \/ (Unwritten /\ SameHold)
  <2>1. CASE UNCHANGED rows /\ inserted' = inserted
    BY <1>2, <2>1 DEF PostInsert, Unwritten, SameHold
  <2>2. CASE ~(UNCHANGED rows /\ inserted' = inserted)
    <3> DEFINE st == InsertStatus(post[p].outcome)
               new == [status |-> st, kind |-> post[p].kind, files |-> post[p].items, recent |-> TRUE]
    <3>1. /\ inserted < MaxRows /\ inserted' = inserted + 1 /\ d' = d
          /\ rows' = [rows EXCEPT ![inserted + 1] = new]
      BY <1>2, <2>2 DEF PostInsert
    <3>2. inserted + 1 \in Ids
      BY <1>0, <3>1 DEF Ids
    <3>3. new.status \in Statuses \ {"none", "complete"}
      BY DEF InsertStatus, Statuses
    <3> HIDE DEF new
    <3> QED BY <1>0, <3>1, <3>2, <3>3 DEF Inserted, SameHold
  <2> QED BY <2>1, <2>2
<1>3. ASSUME NEW q \in Pollers, PollWrite(q)
      PROVE  ((\E i \in 1 .. inserted : Written(i, "complete")) /\ SameHold) \/ (Unwritten /\ SameHold)
  <2>1. poll[q].id \in 1 .. inserted /\ inserted' = inserted /\ d' = d
    BY <1>3 DEF PollWrite, RequestInv, PollCounted
  <2>2. CASE SetStatus(poll[q].id, "complete")
    <3>1. Written(poll[q].id, "complete")
      BY <1>0, <2>1, <2>2, SetStatusFacts DEF Statuses, Written
    <3> QED BY <2>1, <3>1 DEF SameHold
  <2>3. CASE UNCHANGED rows
    BY <2>1, <2>3 DEF Unwritten, SameHold
  <2> QED BY <1>3, <2>2, <2>3 DEF PollWrite
<1>4. ASSUME NEW i \in Ids, WindowEnds(i) PROVE Unwritten /\ SameHold
  <2> DEFINE New(j) == IF j <= i THEN [rows[j] EXCEPT !.recent = FALSE] ELSE rows[j]
  <2>1. rows' = [j \in Ids |-> New(j)] /\ inserted' = inserted /\ d' = d
    BY <1>4 DEF WindowEnds
  <2>2. \A j \in Ids : New(j).status = rows[j].status
    BY <1>0 DEF RowRec
  <2> HIDE DEF New
  <2> QED BY <2>1, <2>2 DEF Unwritten, SameHold
<1>5. CASE Handlers
  <2>1. ASSUME NEW p \in Posters, NEW k \in Kinds, PostLookUp(p, k) PROVE UNCHANGED <<rows, inserted, d>>
    BY <2>1 DEF PostLookUp
  <2>2. ASSUME NEW p \in Posters, PostDispatch(p) \/ PostFails(p) PROVE UNCHANGED <<rows, inserted, d>>
    BY <2>2 DEF PostDispatch, PostFails
  <2>3. ASSUME NEW q \in Pollers, NEW i \in Ids, PollRead(q, i) PROVE UNCHANGED <<rows, inserted, d>>
    BY <2>3 DEF PollRead
  <2>4. ASSUME NEW q \in Pollers, PollCount(q) PROVE UNCHANGED <<rows, inserted, d>>
    BY <2>4 DEF PollCount
  <2> QED BY <1>1, <1>2, <1>3, <1>5, <2>1, <2>2, <2>3, <2>4 DEF Handlers
<1>6. ASSUME NEW s \in Segs, Upload(s) PROVE UNCHANGED <<rows, inserted, d>>
  BY <1>6 DEF Upload
<1>7. Crash \/ UNCHANGED vars => UNCHANGED <<rows, inserted>> /\ (d' = d \/ d' = IdleDisp)
  BY DEF Crash, vars
<1> QED BY <1>1, <1>4, <1>5, <1>6, <1>7 DEF Next

\* The dispatcher lists rows that wait and writes the one in its hands.
LEMMA DispatcherStatus ==
    ASSUME RequestInv, HeldOpen, Dispatcher
    PROVE  /\ HeldOpen'
           /\ \/ Unwritten
              \/ d.pc = "record" /\ (Written(d.id, "dispatched") \/ Written(d.id, "failed"))
<1>0. /\ rows \in [Ids -> RowRec] /\ d \in DispRec /\ 1 .. inserted \subseteq Ids
      /\ d.pc = "record" => d.id \in 1 .. inserted
  BY RequestAssumption DEF RequestInv, TypeOK, Ids, DispatcherCovered
<1>1. CASE Sweep
  <2> DEFINE b == {i \in Pending : Cardinality({j \in Pending : j < i}) < BatchLimit}
  <2>1. d' = [IdleDisp EXCEPT !.pc = "visit", !.batch = b] /\ UNCHANGED <<rows, inserted>>
    BY <1>1 DEF Sweep
  <2>2. \A i \in b : rows[i].status = "pending"
    BY DEF Pending
  <2> HIDE DEF b
  <2>3. d'.batch = b /\ d'.pc = "visit"
    BY <2>1 DEF IdleDisp
  <2> QED BY <2>1, <2>2, <2>3 DEF HeldOpen, Held, Unwritten
<1>2. CASE DispatchPending
  <2>1. PICK i \in d.batch, o \in Outcomes :
           d' = [pc |-> "record", batch |-> d.batch \ {i}, id |-> i, outcome |-> o]
    BY <1>2 DEF DispatchPending
  <2>2. d.pc = "visit" /\ UNCHANGED <<rows, inserted>>
    BY <1>2 DEF DispatchPending
  <2> QED BY <2>1, <2>2 DEF HeldOpen, Held, Unwritten
<1>3. CASE RecordDispatched \/ RecordAttempt
  <2>1. /\ d.pc = "record" /\ Proceed /\ inserted' = inserted
        /\ \/ UNCHANGED rows
           \/ SetStatus(d.id, "dispatched") \/ SetStatus(d.id, "failed")
    BY <1>3 DEF RecordDispatched, RecordAttempt
  <2>2. d.id \in Ids /\ d.id \in 1 .. inserted /\ d.id \notin d.batch
    BY <1>0, <2>1 DEF HeldOpen
  <2>3. d'.batch = d.batch /\ d'.pc # "record"
    BY <2>1 DEF Proceed, IdleDisp
  <2>4. Unwritten \/ Written(d.id, "dispatched") \/ Written(d.id, "failed")
    <3>1. CASE UNCHANGED rows
      BY <2>1, <3>1 DEF Unwritten
    <3>2. CASE SetStatus(d.id, "dispatched")
      BY <1>0, <2>1, <2>2, <3>2, SetStatusFacts DEF Statuses, Written
    <3>3. CASE SetStatus(d.id, "failed")
      BY <1>0, <2>1, <2>2, <3>3, SetStatusFacts DEF Statuses, Written
    <3> QED BY <2>1, <3>1, <3>2, <3>3
  <2>5. \A i \in Ids : i # d.id => rows'[i].status = rows[i].status
    BY <2>4 DEF Unwritten, Written
  <2>6. HeldOpen'
    BY <2>2, <2>3, <2>5 DEF HeldOpen, Held
  <2> QED BY <2>1, <2>4, <2>6
<1> QED BY <1>1, <1>2, <1>3 DEF Dispatcher

LEMMA RowLifeStep ==
    ASSUME RequestInv, HeldOpen, Begun, [Next]_vars,
           NEW i \in Ids, rows'[i].status # rows[i].status
    PROVE  /\ rows'[i].status = "pending" => rows[i].status = "none"
           /\ rows[i].status \in {"dispatched", "failed"} => rows'[i].status = "complete"
           /\ rows[i].status = "complete" => d.pc = "record" /\ d.id = i
<1>1. CASE Inserted
  <2>1. i = inserted + 1 /\ i \notin 1 .. inserted
    BY <1>1 DEF Inserted, RequestInv, TypeOK
  <2>2. rows[i].status = "none"
    BY <2>1 DEF RequestInv, RowsNumbered, Ids
  <2> QED BY <2>2
<1>2. ASSUME NEW k \in 1 .. inserted, Written(k, "complete") PROVE rows'[i].status = "complete"
  BY <1>2 DEF Written
<1>3. CASE Dispatcher
  <2>1. /\ d.pc = "record" /\ d.id = i
        /\ rows'[i].status \in {"dispatched", "failed"}
    BY <1>3, DispatcherStatus DEF Unwritten, Written
  <2>2. rows[i].status \in {"pending", "complete"}
    BY <2>1 DEF HeldOpen, Held
  <2> QED BY <2>1, <2>2
<1>4. ~Unwritten
  BY DEF Unwritten
<1> QED BY <1>1, <1>2, <1>3, <1>4, StatusStep

LEMMA RowLifeInv ==
    ASSUME RequestInv, HeldOpen, Begun, [Next]_vars
    PROVE  HeldOpen' /\ Begun'
<1>0. /\ inserted \in Nat /\ 1 .. inserted \subseteq Ids
      /\ d.batch \subseteq 1 .. inserted /\ (d.pc = "record" => d.id \in 1 .. inserted)
  BY RequestAssumption DEF RequestInv, TypeOK, Ids, DispatcherCovered
<1>1. CASE Inserted /\ SameHold
  <2>1. 1 .. (inserted + 1) = 1 .. inserted \cup {inserted + 1} /\ inserted + 1 \notin 1 .. inserted
    BY <1>0
  <2>2. Begun'
    BY <1>0, <1>1, <2>1 DEF Inserted, Begun
  <2>3. HeldOpen'
    BY <1>0, <1>1, <2>1 DEF Inserted, SameHold, HeldOpen, Held
  <2> QED BY <2>2, <2>3
<1>2. ASSUME NEW k \in 1 .. inserted, Written(k, "complete"), SameHold PROVE HeldOpen' /\ Begun'
  BY <1>0, <1>2 DEF Written, SameHold, HeldOpen, Held, Begun
<1>3. CASE Dispatcher
  <2>1. HeldOpen'
    BY <1>3, DispatcherStatus
  <2>2. Begun'
    BY <1>0, <1>3, DispatcherStatus DEF Unwritten, Written, Begun
  <2> QED BY <2>1, <2>2
<1>4. CASE Unwritten /\ (SameHold \/ LetsGo)
  BY <1>0, <1>4 DEF Unwritten, SameHold, LetsGo, HeldOpen, Held, Begun
<1> QED BY <1>1, <1>2, <1>3, <1>4, StatusStep

\* However POST, GET and dispatcher overtake each other with their unguarded
\* UPDATEs: no row waits twice, one that is dispatched or given up can only be
\* completed, and only the dispatcher undoes a complete one.
THEOREM RequestRowLife == Spec => RowLife
<1>1. Init => HeldOpen /\ Begun
  <2> SUFFICES ASSUME Init PROVE HeldOpen /\ Begun
    OBVIOUS
  <2>1. d.batch = {} /\ d.pc = "idle" /\ 1 .. inserted = {}
    BY DEF Init, IdleDisp
  <2> QED BY <2>1 DEF HeldOpen, Held, Begun
<1>2. RequestInv /\ HeldOpen /\ Begun /\ [Next]_vars => (HeldOpen /\ Begun)'
  BY RowLifeInv
<1>3. RequestInv /\ HeldOpen /\ Begun /\ [Next]_vars =>
        [\A i \in Ids :
           LET old == rows[i].status
               new == rows'[i].status
           IN new # old => /\ new = "pending" => old = "none"
                           /\ old \in {"dispatched", "failed"} => new = "complete"
                           /\ old = "complete" => d.pc = "record" /\ d.id = i]_vars
  BY RowLifeStep
<1> QED BY <1>1, <1>2, <1>3, InvAlways, PTL DEF Spec, RowLife
==============================================================================
