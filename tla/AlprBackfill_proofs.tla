------------------------- MODULE AlprBackfill_proofs -------------------------
(* Theorems about AlprBackfill, for every number of jobs, routes and        *)
(* requests: the inductive invariant, and what follows from it.             *)
EXTENDS AlprBackfill, FiniteSetTheorems, WellFoundedInduction, TLAPS

USE BackfillAssumption DEF Jobs, Routes

\* The initial state satisfies the inductive invariant.
LEMMA InitIInv == Init => IInv
<1> SUFFICES ASSUME Init PROVE IInv
  OBVIOUS
<1>1. NoRow \in JobRow
  BY DEF NoRow, NoFilter, JobRow, JobStates
<1>2. TypeOK
  BY <1>1 DEF Init, TypeOK, WorkerRec, IdleHandler, IdleWorker, WorkerPcs, JobStates
<1>3. OneRunning
  BY DEF Init, OneRunning, Running, NoRow
<1>4. CapRespected
  BY DEF Init, CapRespected, NoRow, NoFilter
<1>5. WorkerConsistent
  BY DEF Init, WorkerConsistent, RowsMatch, BatchAhead, RouteAhead, IdleHandler,
         IdleWorker, BatchPcs, WalkingPcs
<1> QED BY <1>2, <1>3, <1>4, <1>5 DEF IInv

\* UpdateBackfillJobState touches the state columns of one existing row only,
\* and the unique index keeps a second row from running.
LEMMA SetStateFacts ==
    ASSUME IInv, NEW j \in 1 .. inserted, NEW cancel \in BOOLEAN,
           NEW s \in {"running", "paused", "done", "failed"},
           s = "running" => Running \ {j} = {},
           SetState(j, s, cancel), inserted' = inserted
    PROVE  /\ jobs' \in [Jobs -> JobRow] /\ grace' \in [Jobs -> Nat]
           /\ OneRunning' /\ CapRespected'
           /\ \A i \in Jobs : /\ jobs'[i].filters = jobs[i].filters
                              /\ jobs'[i].processed = jobs[i].processed
                              /\ jobs'[i].last = jobs[i].last
           /\ \A i \in Jobs : i > inserted => jobs'[i] = NoRow
           /\ Running' = IF s = "running" THEN Running \cup {j} ELSE Running \ {j}
<1>0. /\ j \in Jobs /\ jobs[j] \in JobRow /\ jobs \in [Jobs -> JobRow]
      /\ grace \in [Jobs -> Nat] /\ inserted \in Nat
  BY DEF IInv, TypeOK
<1> DEFINE row == [jobs[j] EXCEPT !.state = s, !.finished = @ \/ s \in Terminal,
                                  !.cancelled = @ \/ cancel]
<1>1. row \in JobRow
  <2>1. /\ jobs[j].finished \in BOOLEAN /\ jobs[j].cancelled \in BOOLEAN
        /\ s \in JobStates
    BY <1>0 DEF JobRow, JobStates
  <2>2. /\ (jobs[j].finished \/ s \in Terminal) \in BOOLEAN
        /\ (jobs[j].cancelled \/ cancel) \in BOOLEAN
    BY <2>1, Zenon
  <2> QED BY <1>0, <2>1, <2>2 DEF JobRow
<1>2. jobs' = [jobs EXCEPT ![j] = row]
  BY DEF SetState
<1>3. jobs' \in [Jobs -> JobRow] /\ grace' \in [Jobs -> Nat]
  BY <1>0, <1>1, <1>2 DEF SetState
<1>4. /\ row.filters = jobs[j].filters /\ row.processed = jobs[j].processed
      /\ row.last = jobs[j].last /\ row.state = s
  BY <1>0 DEF JobRow
<1>5. \A i \in Jobs : jobs'[i] = IF i = j THEN row ELSE jobs[i]
  BY <1>0, <1>2
<1> HIDE DEF row
<1>6. \A i \in Jobs : /\ jobs'[i].filters = jobs[i].filters
                      /\ jobs'[i].processed = jobs[i].processed
                      /\ jobs'[i].last = jobs[i].last
  BY <1>4, <1>5
<1>7. Running' = IF s = "running" THEN Running \cup {j} ELSE Running \ {j}
  BY <1>0, <1>4, <1>5 DEF Running
<1>8. OneRunning'
  BY <1>7 DEF IInv, OneRunning
<1>9. CapRespected'
  BY <1>6 DEF IInv, CapRespected
<1>10. \A i \in Jobs : i > inserted => jobs'[i] = NoRow
  BY <1>0, <1>5 DEF IInv, WorkerConsistent, RowsMatch
<1> QED BY <1>3, <1>6, <1>7, <1>8, <1>9, <1>10

\* The part of the invariant about the worker survives any step that leaves
\* the worker and the progress columns of the rows alone.
LEMMA WorkerFrame ==
    ASSUME IInv, w' = w, inserted' \in Nat, inserted' >= inserted,
           \A i \in 1 .. inserted : /\ jobs'[i].filters = jobs[i].filters
                                    /\ jobs'[i].processed = jobs[i].processed
                                    /\ jobs'[i].last = jobs[i].last
    PROVE  /\ BatchAhead' /\ RouteAhead'
           /\ w.pc # "idle" => w.job \in 1 .. inserted'
           /\ w.pc = "write" => w.target \in {"paused", "done", "failed"}
<1>1. inserted \in Nat /\ (w.pc # "idle" => w.job \in 1 .. inserted)
  BY DEF IInv, TypeOK, WorkerConsistent, RowsMatch
<1>2. w.pc \in BatchPcs => w.pc # "idle"
  BY DEF BatchPcs, WalkingPcs
<1>3. BatchAhead'
  BY <1>1, <1>2 DEF IInv, WorkerConsistent, BatchAhead, NotBehind
<1>4. RouteAhead'
  BY <1>1, <1>2 DEF IInv, WorkerConsistent, RouteAhead, NotBehind, Precedes, BatchPcs
<1> QED BY <1>1, <1>3, <1>4 DEF IInv, WorkerConsistent, RowsMatch

\* Every step of a request keeps the invariant.
LEMMA ApiStep == IInv /\ Api => IInv'
<1> SUFFICES ASSUME IInv, NEW h \in Handlers,
                    \/ StartCheck(h) \/ PauseRead(h) \/ ResumeRead(h) \/ CancelRead(h)
                    \/ \E f \in Filters : StartInsert(h, f)
                    \/ PauseWrite(h) \/ ResumeWrite(h) \/ CancelWrite(h)
                    \/ RequestFails(h)
             PROVE  IInv'
  BY DEF Api
<1> USE DEF IInv
<1>0. inserted \in Nat /\ inserted <= MaxJobs /\ IdleHandler \in [op : Ops \cup {"none"}, job : 0 .. MaxJobs]
  BY DEF TypeOK, IdleHandler
<1>1. ASSUME NEW op, NEW j \in 0 .. inserted, Begin(h, op, j), op = "start" \/ j # 0
      PROVE  IInv'
  <2>1. TypeOK'
    BY <1>0, <1>1 DEF Begin, TypeOK, table, history
  <2>2. OneRunning' /\ CapRespected'
    BY <1>1 DEF Begin, OneRunning, CapRespected, Running, table
  <2>3. WorkerConsistent'
    <3>1. \A g \in Handlers : handler'[g].op \in {"pause", "resume", "cancel"} =>
                              handler'[g].job \in 1 .. inserted
      BY <1>0, <1>1 DEF Begin, TypeOK, WorkerConsistent, RowsMatch
    <3> QED BY <1>0, <1>1, <3>1, WorkerFrame DEF Begin, table, WorkerConsistent, RowsMatch
  <2> QED BY <2>1, <2>2, <2>3
<1>2. ASSUME NEW f \in Filters, StartInsert(h, f) PROVE IInv'
  <2>1. handler' \in [Handlers -> [op : Ops \cup {"none"}, job : 0 .. MaxJobs]]
    BY <1>0, <1>2 DEF StartInsert, Return, TypeOK
  <2>2. \A g \in Handlers : handler'[g].op \in {"pause", "resume", "cancel"} =>
                              handler'[g].job \in 1 .. inserted
    BY <1>2 DEF StartInsert, Return, TypeOK, WorkerConsistent, RowsMatch, IdleHandler
  <2>. DEFINE new == [NoRow EXCEPT !.state = "running", !.filters = f]
  <2>3. /\ \/ UNCHANGED <<jobs, inserted>>
           \/ /\ Running = {} /\ inserted # MaxJobs /\ inserted' = inserted + 1
              /\ jobs' = [jobs EXCEPT ![inserted + 1] = new]
        /\ UNCHANGED <<enabled, extracted, w, walked, grace, requests, toggles, crashes>>
    BY <1>2 DEF StartInsert, table, history, counts
  <2>4. CASE UNCHANGED <<jobs, inserted>>
    <3>1. TypeOK'
      BY <2>1, <2>3, <2>4 DEF TypeOK
    <3>2. OneRunning' /\ CapRespected'
      BY <2>4 DEF OneRunning, CapRespected, Running
    <3>3. RowsMatch' /\ BatchAhead' /\ RouteAhead'
      BY <1>0, <2>2, <2>3, <2>4, WorkerFrame DEF WorkerConsistent, RowsMatch
    <3> QED BY <3>1, <3>2, <3>3 DEF WorkerConsistent
  <2>5. CASE ~UNCHANGED <<jobs, inserted>>
    <3>1. /\ Running = {} /\ inserted < MaxJobs /\ inserted' = inserted + 1
          /\ jobs' = [jobs EXCEPT ![inserted + 1] = new]
      BY <1>0, <2>3, <2>5
    <3>2. /\ new \in JobRow /\ new.state = "running" /\ new.processed = 0
          /\ new.filters = f /\ new.filters.max \in Nat
      BY DEF NoRow, JobRow, JobStates
    <3> HIDE DEF new
    <3>3. /\ jobs \in [Jobs -> JobRow] /\ inserted + 1 \in Jobs
          /\ jobs' \in [Jobs -> JobRow]
      BY <1>0, <3>1, <3>2 DEF TypeOK
    <3>4. \A i \in Jobs : jobs'[i] = IF i = inserted + 1 THEN new ELSE jobs[i]
      BY <3>1, <3>3
    <3>5. TypeOK'
      <4>1. inserted' \in 0 .. MaxJobs
        BY <1>0, <3>1
      <4>2. jobs' \in [Jobs -> JobRow]
        BY <3>3
      <4> QED BY <2>1, <2>3, <4>1, <4>2 DEF TypeOK
    <3>6. OneRunning'
      <4>1. ASSUME NEW i \in Jobs, i # inserted + 1 PROVE jobs'[i].state # "running"
        <5>1. jobs'[i] = jobs[i]
          BY <3>4, <4>1
        <5> QED BY <3>1, <5>1 DEF Running
      <4> QED BY <4>1 DEF OneRunning, Running
    <3>7. CapRespected'
      <4> SUFFICES ASSUME NEW i \in Jobs, jobs'[i].filters.max > 0
                   PROVE  jobs'[i].processed <= jobs'[i].filters.max
        BY DEF CapRespected
      <4>1. CASE i = inserted + 1
        <5>1. jobs'[i] = new
          BY <3>4, <4>1
        <5> QED BY <3>2, <5>1
      <4>2. CASE i # inserted + 1
        <5>1. jobs'[i] = jobs[i]
          BY <3>4, <4>2
        <5> QED BY <5>1 DEF CapRespected
      <4> QED BY <4>1, <4>2
    <3>8. RowsMatch' /\ BatchAhead' /\ RouteAhead'
      <4>1. \A i \in 1 .. inserted : i \in Jobs /\ jobs'[i] = jobs[i]
        BY <1>0, <3>4
      <4>2. \A i \in Jobs : i > inserted' => jobs'[i] = NoRow
        BY <1>0, <3>1, <3>4 DEF WorkerConsistent, RowsMatch
      <4>3. w' = w
        BY <2>3
      <4> QED BY <1>0, <2>2, <3>1, <4>1, <4>2, <4>3, WorkerFrame DEF RowsMatch
    <3> QED BY <3>5, <3>6, <3>7, <3>8 DEF WorkerConsistent
  <2> QED BY <2>4, <2>5
<1>3. ASSUME NEW s \in {"running", "paused", "failed"}, NEW cancel \in BOOLEAN,
             handler[h].op \in {"pause", "resume", "cancel"},
             s = "running" => Running \ {handler[h].job} = {},
             SetState(handler[h].job, s, cancel), Return(h),
             UNCHANGED <<inserted, enabled, extracted, w, walked, counts>>
      PROVE  IInv'
  <2> DEFINE j == handler[h].job
  <2>1. j \in 1 .. inserted
    BY <1>3 DEF WorkerConsistent, RowsMatch
  <2>2. /\ jobs' \in [Jobs -> JobRow] /\ grace' \in [Jobs -> Nat]
        /\ OneRunning' /\ CapRespected'
        /\ \A i \in Jobs : /\ jobs'[i].filters = jobs[i].filters
                           /\ jobs'[i].processed = jobs[i].processed
                           /\ jobs'[i].last = jobs[i].last
        /\ \A i \in Jobs : i > inserted => jobs'[i] = NoRow
    BY <1>3, <2>1, SetStateFacts
  <2>3. TypeOK'
    BY <1>0, <1>3, <2>2 DEF Return, TypeOK, counts
  <2>4. \A g \in Handlers : handler'[g].op \in {"pause", "resume", "cancel"} =>
                              handler'[g].job \in 1 .. inserted
    BY <1>3 DEF Return, TypeOK, WorkerConsistent, RowsMatch, IdleHandler
  <2>5. WorkerConsistent'
    <3>1. 1 .. inserted \subseteq Jobs /\ w' = w /\ inserted' = inserted
      BY <1>0, <1>3
    <3>2. RowsMatch'
      BY <2>2, <2>4, <3>1 DEF WorkerConsistent, RowsMatch
    <3>3. BatchAhead' /\ RouteAhead'
      BY <1>0, <2>2, <3>1, WorkerFrame
    <3> QED BY <3>2, <3>3 DEF WorkerConsistent
  <2> QED BY <2>2, <2>3, <2>5
<1>4. ASSUME Return(h), UNCHANGED <<table, enabled, extracted, w, history, counts>>
      PROVE  IInv'
  <2>1. TypeOK'
    BY <1>0, <1>4 DEF Return, TypeOK, table, history, counts
  <2>2. OneRunning' /\ CapRespected'
    BY <1>4 DEF OneRunning, CapRespected, Running, table
  <2>3. \A g \in Handlers : handler'[g].op \in {"pause", "resume", "cancel"} =>
                              handler'[g].job \in 1 .. inserted
    BY <1>4 DEF Return, TypeOK, WorkerConsistent, RowsMatch, IdleHandler
  <2> QED BY <1>0, <1>4, <2>1, <2>2, <2>3, WorkerFrame DEF WorkerConsistent, RowsMatch, table
<1>5. CASE StartCheck(h)
  BY <1>0, <1>1, <1>5 DEF StartCheck
<1>6. CASE PauseRead(h) \/ ResumeRead(h) \/ CancelRead(h)
  BY <1>0, <1>1, <1>6 DEF PauseRead, ResumeRead, CancelRead
<1>7. CASE PauseWrite(h)
  BY <1>3, <1>7 DEF PauseWrite
<1>8. CASE ResumeWrite(h)
  BY <1>3, <1>4, <1>8 DEF ResumeWrite, UniqueViolation, table, history
<1>9. CASE CancelWrite(h)
  BY <1>3, <1>9 DEF CancelWrite
<1>10. CASE RequestFails(h)
  BY <1>4, <1>10 DEF RequestFails
<1> QED BY <1>2, <1>5, <1>6, <1>7, <1>8, <1>9, <1>10

\* A step of the worker that only moves its program counter, or gives up,
\* or decides on a state to write.
LEMMA WorkerGoes ==
    ASSUME IInv, w.pc # "idle",
           \/ GiveUp
           \/ Writing("paused") \/ Writing("done") \/ Writing("failed")
           \/ w.pc \notin BatchPcs /\ Goto("reread")
           \/ w.pc \notin BatchPcs /\ Goto("enabled")
           \/ w.pc \notin BatchPcs /\ Goto("fetch")
           \/ w.pc = "mid" /\ Goto("reread")
           \/ w.pc = "mid" /\ Goto("midEnabled")
           \/ w.pc = "seg" /\ Goto("progress")
           \/ w.pc = "seg" /\ Goto("stamp"),
           UNCHANGED <<table, enabled, extracted, handler, grace, counts>>,
           walked' \in [Jobs -> SUBSET Footage]
    PROVE  IInv'
<1> USE DEF IInv
<1>1. /\ w \in WorkerRec
      /\ inserted \in Nat /\ w.job \in 1 .. inserted
  BY DEF TypeOK, WorkerConsistent, RowsMatch
<1>2. /\ UNCHANGED <<jobs, inserted, enabled, extracted, handler, grace,
                     requests, toggles, crashes>>
  BY DEF table, counts
<1>3. \/ w' = IdleWorker
      \/ \E s \in {"paused", "done", "failed"} :
            w' = [w EXCEPT !.pc = "write", !.target = s]
      \/ \E p \in {"reread", "enabled", "fetch"} : w' = [w EXCEPT !.pc = p]
      \/ w.pc = "mid" /\ w' = [w EXCEPT !.pc = "midEnabled"]
      \/ w.pc = "seg" /\ \E p \in {"progress", "stamp"} : w' = [w EXCEPT !.pc = p]
  BY DEF GiveUp, Writing, Goto
<1>4. /\ w' \in WorkerRec
      /\ w'.pc # "idle" => w'.job = w.job
      /\ w'.pc = "write" => w'.target \in {"paused", "done", "failed"}
      /\ w'.pc \in BatchPcs => w.pc \in BatchPcs /\ w'.batch = w.batch
      /\ w'.pc \in WalkingPcs => /\ w.pc \in WalkingPcs
                                 /\ w'.route = w.route /\ w'.segs = w.segs
  <2>1. CASE w' = IdleWorker
    BY <2>1 DEF IdleWorker, WorkerRec, WorkerPcs, BatchPcs, WalkingPcs
  <2>2. ASSUME NEW s \in {"paused", "done", "failed"},
               w' = [w EXCEPT !.pc = "write", !.target = s]
        PROVE  /\ w' \in WorkerRec /\ w'.pc = "write" /\ w'.job = w.job
               /\ w'.target = s
    BY <1>1, <2>2 DEF WorkerRec, WorkerPcs, JobStates
  <2>3. ASSUME NEW p \in WorkerPcs, w' = [w EXCEPT !.pc = p]
        PROVE  /\ w' \in WorkerRec /\ w'.pc = p /\ w'.job = w.job
               /\ w'.batch = w.batch /\ w'.route = w.route /\ w'.segs = w.segs
    BY <1>1, <2>3 DEF WorkerRec
  <2> QED BY <1>3, <2>1, <2>2, <2>3 DEF WorkerPcs, BatchPcs, WalkingPcs
<1>5. TypeOK'
  BY <1>2, <1>4 DEF TypeOK
<1>6. OneRunning' /\ CapRespected'
  BY <1>2 DEF OneRunning, CapRespected, Running
<1>7. RowsMatch'
  BY <1>1, <1>2, <1>4 DEF WorkerConsistent, RowsMatch
<1>8. w'.pc \in BatchPcs => w'.job = w.job
  BY <1>4 DEF BatchPcs, WalkingPcs
<1>9. BatchAhead'
  BY <1>2, <1>4, <1>8 DEF WorkerConsistent, BatchAhead, NotBehind
<1>10. RouteAhead'
  BY <1>2, <1>4, <1>8 DEF WorkerConsistent, RouteAhead, NotBehind, Precedes, BatchPcs
<1> QED BY <1>5, <1>6, <1>7, <1>9, <1>10 DEF WorkerConsistent

\* The same where the history stays as it is.
LEMMA WorkerMoves ==
    ASSUME IInv, OnlyWorker, w.pc # "idle",
           \/ GiveUp
           \/ Writing("paused") \/ Writing("done") \/ Writing("failed")
           \/ w.pc \notin BatchPcs /\ Goto("reread")
           \/ w.pc \notin BatchPcs /\ Goto("enabled")
           \/ w.pc \notin BatchPcs /\ Goto("fetch")
           \/ w.pc = "mid" /\ Goto("reread")
           \/ w.pc = "mid" /\ Goto("midEnabled")
           \/ w.pc = "seg" /\ Goto("progress")
           \/ w.pc = "seg" /\ Goto("stamp")
    PROVE  IInv'
<1>1. walked' \in [Jobs -> SUBSET Footage]
  BY DEF IInv, TypeOK, OnlyWorker, history
<1> QED BY <1>1, WorkerGoes DEF OnlyWorker, history

\* The next segment is settled, or moves one statement further.
LEMMA SegmentMoves ==
    ASSUME IInv, NEW s \in w.segs, w.pc \in {"progress", "extract", "mark"},
           \/ Goto("extract") /\ UNCHANGED walked
           \/ Goto("mark") /\ UNCHANGED walked
           \/ Settle(s),
           grace' \in [Jobs -> Nat],
           extracted' \in {extracted, extracted \cup {<<w.route, s>>}},
           UNCHANGED <<table, enabled, handler, counts>>
    PROVE  IInv'
<1> USE DEF IInv
<1>1. /\ w \in WorkerRec
      /\ inserted \in 0 .. MaxJobs /\ w.job \in 1 .. inserted
  BY DEF TypeOK, WorkerConsistent, RowsMatch
<1>2. /\ <<w.route, s>> \in Footage /\ w.job \in Jobs
  BY <1>1 DEF WorkerConsistent, RouteAhead, WalkingPcs
<1>3. UNCHANGED <<jobs, inserted, enabled, handler, requests, toggles, crashes>>
  BY DEF table, counts
<1>4. /\ w' \in WorkerRec
      /\ w'.pc \in {"seg", "extract", "mark"} /\ w'.job = w.job
      /\ w'.batch = w.batch /\ w'.route = w.route /\ w'.segs \subseteq w.segs
  <2>1. CASE Settle(s)
    BY <1>1, <2>1 DEF Settle, WorkerRec, WorkerPcs
  <2>2. ASSUME NEW p \in {"extract", "mark"}, Goto(p)
        PROVE  /\ w' \in WorkerRec /\ w'.pc = p /\ w'.job = w.job
               /\ w'.batch = w.batch /\ w'.route = w.route /\ w'.segs = w.segs
    BY <1>1, <2>2 DEF Goto, WorkerRec, WorkerPcs
  <2> QED BY <2>1, <2>2
<1>5. walked' \in [Jobs -> SUBSET Footage]
  <2>1. walked \in [Jobs -> SUBSET Footage]
    BY DEF TypeOK
  <2>2. CASE Settle(s)
    <3>1. walked[w.job] \cup {<<w.route, s>>} \in SUBSET Footage
      BY <1>2, <2>1
    <3> QED BY <1>2, <2>1, <2>2, <3>1 DEF Settle
  <2>3. CASE UNCHANGED walked
    BY <2>1, <2>3
  <2> QED BY <2>2, <2>3
<1>6. extracted' \subseteq Footage
  BY <1>2 DEF TypeOK
<1>7. TypeOK'
  BY <1>3, <1>4, <1>5, <1>6 DEF TypeOK
<1>8. OneRunning' /\ CapRespected'
  BY <1>3 DEF OneRunning, CapRespected, Running
<1>9. RowsMatch'
  BY <1>1, <1>3, <1>4 DEF WorkerConsistent, RowsMatch
<1>10. BatchAhead' /\ RouteAhead'
  BY <1>3, <1>4 DEF WorkerConsistent, BatchAhead, RouteAhead, NotBehind, Precedes,
                    BatchPcs, WalkingPcs
<1> QED BY <1>7, <1>8, <1>9, <1>10 DEF WorkerConsistent

\* Every step of the worker keeps the invariant.
LEMMA WorkerStep == IInv /\ Worker => IInv'
<1> SUFFICES ASSUME IInv, Worker PROVE IInv'
  OBVIOUS
<1> USE DEF IInv
<1>1. /\ w \in WorkerRec /\ inserted \in 0 .. MaxJobs
      /\ w.pc # "idle" => w.job \in 1 .. inserted /\ w.job \in Jobs
      /\ jobs \in [Jobs -> JobRow]
  BY DEF TypeOK, WorkerConsistent, RowsMatch
<1>2. CASE RunOnce
  <2>1. PICK j \in Running : w' = [IdleWorker EXCEPT !.pc = "gate", !.job = j]
    BY <1>2 DEF RunOnce
  <2>2. j \in 1 .. inserted
    BY <1>1 DEF Running, WorkerConsistent, RowsMatch, NoRow
  <2>3. w' \in WorkerRec /\ w'.pc = "gate" /\ w'.job = j
    <3>1. w' = [pc |-> "gate", job |-> j, batch |-> {}, route |-> 0, segs |-> {},
                target |-> "none"]
      BY <2>1 DEF IdleWorker
    <3>2. j \in 0 .. MaxJobs
      BY <1>1, <2>2
    <3> QED BY <3>1, <3>2 DEF WorkerRec, WorkerPcs
  <2>4. UNCHANGED <<jobs, inserted, enabled, extracted, handler, walked, grace,
                    requests, toggles, crashes>>
    BY <1>2 DEF RunOnce, OnlyWorker, table, history, counts
  <2>5. TypeOK'
    BY <2>3, <2>4 DEF TypeOK
  <2>6. OneRunning' /\ CapRespected'
    BY <2>4 DEF OneRunning, CapRespected, Running
  <2>7. RowsMatch' /\ BatchAhead' /\ RouteAhead'
    BY <2>2, <2>3, <2>4 DEF WorkerConsistent, RowsMatch, BatchAhead, RouteAhead,
                            BatchPcs, WalkingPcs
  <2> QED BY <2>5, <2>6, <2>7 DEF WorkerConsistent
<1>3. CASE Gate \/ Reread \/ RereadGate
  BY <1>3, WorkerMoves DEF Gate, RereadGate, Reread, AlprGate, ReadRow, BatchPcs, WalkingPcs
<1>4. CASE FetchRouteBatch
  <2> DEFINE f == jobs[w.job].filters
             batch == ListBackfillRoutes(f, jobs[w.job].last)
  <2>1. CASE w' = [w EXCEPT !.pc = "mid", !.batch = batch]
    <3>1. w.pc = "fetch" /\ w.job \in 1 .. inserted /\ w.job \in Jobs
      BY <1>1, <1>4 DEF FetchRouteBatch
    <3>2. /\ f \in Filters \cup {NoFilter} /\ jobs[w.job].last \in Nat
          /\ f.routes \subseteq Routes
      BY <1>1, <3>1 DEF JobRow, NoFilter
    <3>3. \A r \in batch : r \in f.routes /\ NotBehind(f, jobs[w.job].last, r)
      BY <3>2 DEF ListBackfillRoutes, Eligible, AfterToken, NotBehind
    <3>4. /\ w' \in WorkerRec /\ w'.pc = "mid" /\ w'.job = w.job
          /\ w'.batch = batch
      <4> HIDE DEF batch
      <4> QED BY <1>1, <2>1, <3>2, <3>3 DEF WorkerRec, WorkerPcs
    <3>5. UNCHANGED <<jobs, inserted, enabled, extracted, handler, walked, grace,
                      requests, toggles, crashes>>
      BY <1>4 DEF FetchRouteBatch, OnlyWorker, table, history, counts
    <3>6. TypeOK'
      BY <3>4, <3>5 DEF TypeOK
    <3>7. OneRunning' /\ CapRespected'
      BY <3>5 DEF OneRunning, CapRespected, Running
    <3>8. RowsMatch'
      BY <3>1, <3>4, <3>5 DEF WorkerConsistent, RowsMatch
    <3>9. BatchAhead' /\ RouteAhead'
      BY <3>3, <3>4, <3>5 DEF BatchAhead, RouteAhead, NotBehind, WalkingPcs
    <3> QED BY <3>6, <3>7, <3>8, <3>9 DEF WorkerConsistent
  <2>2. CASE Writing("done") \/ Writing("failed")
    BY <1>4, <2>2, WorkerMoves DEF FetchRouteBatch
  <2> QED BY <1>4, <2>1, <2>2 DEF FetchRouteBatch
<1>5. CASE MidBatch \/ BatchDone \/ MidGateFails
  BY <1>5, WorkerMoves DEF MidBatch, BatchDone, MidGateFails, ReadRow
<1>6. CASE StartRoute
  <2> DEFINE row == jobs[w.job]
  <2>1. /\ w.pc = "midEnabled" /\ w.job \in 1 .. inserted /\ w.job \in Jobs
        /\ row \in JobRow
    BY <1>1, <1>6 DEF StartRoute
  <2>2. UNCHANGED <<jobs, inserted, enabled, extracted, handler, grace,
                    requests, toggles, crashes>>
    BY <1>6 DEF StartRoute, table, counts
  <2>3. CASE MaxReached(w.job)
    BY <1>6, <2>1, <2>2, <2>3, WorkerMoves
       DEF StartRoute, OnlyWorker, table, history, counts
  <2>4. CASE ~MaxReached(w.job)
    <3>1. PICK r \in w.batch :
            LET segs == {s \in {p[2] : p \in Footage} : <<r, s>> \in Footage} IN
            /\ \A q \in w.batch : q = r \/ Precedes(row.filters, r, q)
            /\ \/ /\ w' = [w EXCEPT !.pc = "seg", !.batch = @ \ {r},
                                     !.route = r, !.segs = segs]
                  /\ UNCHANGED walked
               \/ /\ w' = [w EXCEPT !.pc = "stamp", !.batch = @ \ {r},
                                     !.route = r, !.segs = {}]
                  /\ walked' = [walked EXCEPT ![w.job] = @ \cup ({r} \X segs)]
      BY <1>6, <2>4 DEF StartRoute
    <3> DEFINE segs == {s \in {p[2] : p \in Footage} : <<r, s>> \in Footage}
    <3>2. segs \subseteq Nat /\ \A s \in segs : <<r, s>> \in Footage
      OBVIOUS
    <3>3. {r} \X segs \subseteq Footage
      <4>1. ASSUME NEW p \in {r} \X segs PROVE p \in Footage
        <5> HIDE DEF segs
        <5>1. p = <<r, p[2]>> /\ p[2] \in segs
          BY <4>1
        <5> QED BY <3>2, <5>1
      <4> QED BY <4>1
    <3>4. /\ \/ /\ w' = [w EXCEPT !.pc = "seg", !.batch = @ \ {r},
                                   !.route = r, !.segs = segs]
                /\ UNCHANGED walked
             \/ /\ w' = [w EXCEPT !.pc = "stamp", !.batch = @ \ {r},
                                   !.route = r, !.segs = {}]
                /\ walked' = [walked EXCEPT ![w.job] = @ \cup ({r} \X segs)]
    BY <3>1
    <3> HIDE DEF segs
    <3>5. /\ r \in row.filters.routes /\ NotBehind(row.filters, row.last, r)
          /\ w.batch \subseteq Routes
      BY <1>1, <2>1 DEF WorkerRec, WorkerConsistent, BatchAhead, BatchPcs
    <3>6. /\ w' \in WorkerRec /\ w'.pc \in {"seg", "stamp"} /\ w'.job = w.job
          /\ w'.batch = w.batch \ {r} /\ w'.route = r /\ w'.segs \subseteq segs
      <4>1. /\ w.batch \ {r} \in SUBSET Routes /\ r \in 0 .. NumRoutes
            /\ segs \in SUBSET Nat /\ {} \in SUBSET Nat
        BY <3>2, <3>5
      <4>2. ASSUME NEW p \in {"seg", "stamp"}, NEW t \in SUBSET segs,
                   w' = [w EXCEPT !.pc = p, !.batch = @ \ {r}, !.route = r, !.segs = t]
            PROVE  <3>6
        <5>1. w' = [pc |-> p, job |-> w.job, batch |-> w.batch \ {r}, route |-> r,
                    segs |-> t, target |-> w.target]
          BY <1>1, <4>2 DEF WorkerRec
        <5>2. t \in SUBSET Nat /\ p \in WorkerPcs
          BY <4>1 DEF WorkerPcs
        <5>3. w.job \in 0 .. MaxJobs /\ w.target \in JobStates \cup {"none"}
          BY <1>1 DEF WorkerRec
        <5>4. w' \in WorkerRec
          BY <4>1, <5>1, <5>2, <5>3 DEF WorkerRec
        <5> QED BY <5>1, <5>4
      <4> QED BY <3>4, <4>2
    <3>7. walked' \in [Jobs -> SUBSET Footage]
      <4>1. walked \in [Jobs -> SUBSET Footage]
        BY DEF TypeOK
      <4>2. walked[w.job] \cup ({r} \X segs) \in SUBSET Footage
        BY <2>1, <3>3, <4>1
      <4> QED BY <2>1, <3>4, <4>1, <4>2
    <3>8. TypeOK'
      BY <2>2, <3>6, <3>7 DEF TypeOK
    <3>9. OneRunning' /\ CapRespected'
      BY <2>2 DEF OneRunning, CapRespected, Running
    <3>10. RowsMatch'
      BY <2>1, <2>2, <3>6 DEF WorkerConsistent, RowsMatch
    <3>11. BatchAhead'
      BY <2>1, <2>2, <3>6 DEF WorkerConsistent, BatchAhead, NotBehind, BatchPcs
    <3>12. row.filters.max > 0 => row.processed < row.filters.max
      <4>1. row.filters.max \in Nat /\ row.processed \in Nat
        BY <2>1 DEF JobRow, NoFilter
      <4> QED BY <2>4, <4>1 DEF MaxReached
    <3>13. RouteAhead'
      BY <2>2, <3>1, <3>2, <3>5, <3>6, <3>12 DEF RouteAhead, NotBehind, Precedes
    <3> QED BY <3>8, <3>9, <3>10, <3>11, <3>13 DEF WorkerConsistent
  <2> QED BY <2>3, <2>4
<1>7. CASE SegmentCheck
  <2>1. /\ w.job \in Jobs /\ walked \in [Jobs -> SUBSET Footage]
        /\ {w.route} \X w.segs \subseteq Footage
    BY <1>1, <1>7 DEF SegmentCheck, TypeOK, WorkerConsistent, RouteAhead, WalkingPcs
  <2>2. walked[w.job] \cup ({w.route} \X w.segs) \in SUBSET Footage
    BY <2>1
  <2>3. walked' \in [Jobs -> SUBSET Footage]
    BY <1>7, <2>1, <2>2 DEF SegmentCheck
  <2> QED BY <1>7, <2>3, WorkerGoes DEF SegmentCheck
<1>8. ASSUME NEW s \in w.segs,
             ReadProgress(s) \/ ProcessSegment(s) \/ MarkExtractorProcessed(s)
      PROVE  IInv'
  <2>0. grace \in [Jobs -> Nat] /\ w.job \in Jobs
    BY <1>1, <1>8 DEF TypeOK, ReadProgress, ProcessSegment, MarkExtractorProcessed
  <2>1. CASE ReadProgress(s)
    <3>1. grace' \in [Jobs -> Nat]
      <4>1. CASE UNCHANGED grace
        BY <2>0, <4>1
      <4>2. CASE grace' = [grace EXCEPT ![w.job] =
                             IF jobs[w.job].state = "running" THEN @ ELSE @ + 1]
        BY <2>0, <4>2
      <4> QED BY <2>1, <4>1, <4>2 DEF ReadProgress
    <3> QED BY <2>1, <3>1, SegmentMoves DEF ReadProgress
  <2>2. CASE ProcessSegment(s)
    BY <2>0, <2>2, SegmentMoves DEF ProcessSegment
  <2>3. CASE MarkExtractorProcessed(s)
    BY <2>0, <2>3, SegmentMoves DEF MarkExtractorProcessed
  <2> QED BY <1>8, <2>1, <2>2, <2>3
<1>9. CASE IncrementProgress
  <2> DEFINE j == w.job
             new == [jobs[j] EXCEPT !.processed = @ + 1, !.last = NameOf[w.route]]
  <2>1. /\ w.pc = "stamp" /\ j \in 1 .. inserted /\ j \in Jobs
        /\ jobs[j] \in JobRow
    BY <1>1, <1>9 DEF IncrementProgress
  <2>2. /\ w' = [w EXCEPT !.pc = "mid", !.route = 0, !.segs = {}]
        /\ jobs' = [jobs EXCEPT ![j] = new] \/ UNCHANGED jobs
        /\ UNCHANGED <<inserted, enabled, extracted, handler, walked, grace,
                       requests, toggles, crashes>>
    BY <1>9 DEF IncrementProgress, history, counts
  <2>3. /\ w' \in WorkerRec /\ w'.pc = "mid" /\ w'.job = j /\ w'.batch = w.batch
    <3>1. w' = [pc |-> "mid", job |-> w.job, batch |-> w.batch, route |-> 0,
                segs |-> {}, target |-> w.target]
      BY <1>1, <2>2 DEF WorkerRec
    <3>2. /\ w.job \in 0 .. MaxJobs /\ w.target \in JobStates \cup {"none"}
          /\ w.batch \in SUBSET Routes /\ 0 \in 0 .. NumRoutes /\ {} \in SUBSET Nat
      BY <1>1 DEF WorkerRec
    <3>3. w' \in WorkerRec
      BY <3>1, <3>2 DEF WorkerRec, WorkerPcs
    <3> QED BY <3>1, <3>3
  <2>4. /\ w.route \in jobs[j].filters.routes
        /\ \A q \in w.batch : q = w.route \/ Precedes(jobs[j].filters, w.route, q)
        /\ jobs[j].filters.max > 0 => jobs[j].processed < jobs[j].filters.max
        /\ \A q \in w.batch : /\ q \in jobs[j].filters.routes
                               /\ NotBehind(jobs[j].filters, jobs[j].last, q)
    BY <2>1 DEF WorkerConsistent, BatchAhead, RouteAhead, BatchPcs, WalkingPcs
  <2>5. /\ jobs[j].processed \in Nat /\ jobs[j].filters.max \in Nat
        /\ jobs[j].filters.routes \subseteq Routes
        /\ jobs[j].filters.newest \in BOOLEAN
    <3>1. /\ jobs[j].processed \in Nat /\ jobs[j].filters \in Filters \cup {NoFilter}
      BY <2>1 DEF JobRow
    <3>2. NoFilter \in [routes : SUBSET Routes, newest : BOOLEAN, max : Nat]
      BY DEF NoFilter
    <3>3. jobs[j].filters \in [routes : SUBSET Routes, newest : BOOLEAN, max : Nat]
      BY <3>1, <3>2
    <3> QED BY <3>1, <3>3
  <2>6. NameOf[w.route] \in Nat \ {0} /\ w.route \in Routes
    BY <2>4, <2>5
  <2>7. /\ new \in JobRow /\ new.filters = jobs[j].filters
        /\ new.state = jobs[j].state /\ new.last = NameOf[w.route]
        /\ new.processed = jobs[j].processed + 1
    <3>1. jobs[j].processed + 1 \in Nat /\ NameOf[w.route] \in Nat
      BY <2>5, <2>6
    <3>2. new \in JobRow
      BY <2>1, <3>1 DEF JobRow
    <3>3. /\ new.filters = jobs[j].filters /\ new.state = jobs[j].state
          /\ new.last = NameOf[w.route] /\ new.processed = jobs[j].processed + 1
      BY <2>1 DEF JobRow
    <3> QED BY <3>2, <3>3
  <2> HIDE DEF new
  <2>8. CASE UNCHANGED jobs
    <3>1. TypeOK'
      BY <2>2, <2>3, <2>8 DEF TypeOK
    <3>2. OneRunning' /\ CapRespected'
      BY <2>8 DEF OneRunning, CapRespected, Running
    <3>3. RowsMatch' /\ BatchAhead' /\ RouteAhead'
      BY <2>1, <2>2, <2>3, <2>4, <2>8 DEF WorkerConsistent, RowsMatch, BatchAhead,
         RouteAhead, NotBehind, WalkingPcs
    <3> QED BY <3>1, <3>2, <3>3 DEF WorkerConsistent
  <2>9. CASE jobs' = [jobs EXCEPT ![j] = new]
    <3>1. \A i \in Jobs : jobs'[i] = IF i = j THEN new ELSE jobs[i]
      BY <1>1, <2>9
    <3>2. jobs' \in [Jobs -> JobRow]
      BY <1>1, <2>7, <2>9
    <3>3. TypeOK'
      BY <2>2, <2>3, <3>2 DEF TypeOK
    <3>4. OneRunning'
      BY <2>7, <3>1 DEF OneRunning, Running
    <3>5. CapRespected'
      <4>1. ASSUME NEW i \in Jobs, i # j PROVE jobs'[i] = jobs[i]
        BY <3>1, <4>1
      <4>2. jobs'[j] = new
        BY <2>1, <3>1
      <4>3. new.filters.max > 0 => new.processed <= new.filters.max
        BY <2>4, <2>5, <2>7
      <4> QED BY <4>1, <4>2, <4>3 DEF CapRespected
    <3>6. RowsMatch'
      <4>1. \A i \in Jobs : i > inserted => jobs'[i] = NoRow
        BY <1>1, <2>1, <3>1 DEF WorkerConsistent, RowsMatch
      <4> QED BY <2>1, <2>2, <2>3, <4>1 DEF WorkerConsistent, RowsMatch
    <3>9. RouteAhead'
      BY <2>3 DEF RouteAhead, WalkingPcs
    <3>7. ASSUME NEW q \in w.batch
          PROVE  NotBehind(jobs[j].filters, NameOf[w.route], q)
      <4>1. q \in Routes /\ (q = w.route \/ Precedes(jobs[j].filters, w.route, q))
        BY <2>4, <2>5
      <4> QED BY <2>5, <2>6, <4>1 DEF Precedes, NotBehind
    <3>8. BatchAhead'
      <4>1. jobs'[j] = new
        BY <2>1, <3>1
      <4> QED BY <2>3, <2>4, <2>7, <3>7, <4>1 DEF BatchAhead, NotBehind
    <3> QED BY <3>3, <3>4, <3>5, <3>6, <3>8, <3>9 DEF WorkerConsistent
  <2> QED BY <2>2, <2>8, <2>9
<1>10. CASE WorkerSetState
  <2>1. /\ w.job \in 1 .. inserted /\ w.job \in Jobs
        /\ w.target \in {"paused", "done", "failed"}
    BY <1>1, <1>10 DEF WorkerSetState, WorkerConsistent, RowsMatch
  <2>2. /\ w' = IdleWorker
        /\ UNCHANGED <<inserted, enabled, extracted, handler, walked,
                       requests, toggles, crashes>>
    BY <1>10 DEF WorkerSetState, GiveUp, counts
  <2>3. /\ jobs' \in [Jobs -> JobRow] /\ grace' \in [Jobs -> Nat]
        /\ OneRunning' /\ CapRespected'
        /\ \A i \in Jobs : i > inserted => jobs'[i] = NoRow
    <3>1. CASE SetState(w.job, w.target, FALSE)
      BY <2>1, <2>2, <3>1, SetStateFacts
    <3>2. CASE UNCHANGED <<jobs, grace>>
      BY <1>1, <3>2 DEF TypeOK, OneRunning, CapRespected, Running,
                        WorkerConsistent, RowsMatch
    <3> QED BY <1>10, <3>1, <3>2 DEF WorkerSetState
  <2>4. TypeOK'
    BY <2>2, <2>3 DEF TypeOK, IdleWorker, WorkerRec, WorkerPcs
  <2>5. RowsMatch' /\ BatchAhead' /\ RouteAhead'
    BY <2>2, <2>3 DEF WorkerConsistent, RowsMatch, BatchAhead, RouteAhead,
                      IdleWorker, BatchPcs, WalkingPcs
  <2> QED BY <2>3, <2>4, <2>5 DEF WorkerConsistent
<1> QED BY <1>2, <1>3, <1>4, <1>5, <1>6, <1>7, <1>8, <1>9, <1>10 DEF Worker

\* Every step of the specification keeps the invariant.
LEMMA NextIInv == IInv /\ [Next]_vars => IInv'
<1> SUFFICES ASSUME IInv, [Next]_vars PROVE IInv'
  OBVIOUS
<1> USE DEF IInv
<1>1. CASE Api
  BY <1>1, ApiStep
<1>2. CASE Worker
  BY <1>2, WorkerStep
<1>3. CASE ToggleEnabled \/ LiveExtract
  <2>1. UNCHANGED <<jobs, inserted, handler, w, walked, grace, requests, crashes>>
    BY <1>3 DEF ToggleEnabled, LiveExtract, table, history, counts
  <2>2. TypeOK'
    <3>1. CASE ToggleEnabled
      <4>1. enabled' \in BOOLEAN /\ extracted' = extracted /\ toggles' \in 0 .. MaxToggles
        BY <3>1 DEF ToggleEnabled, TypeOK
      <4> QED BY <2>1, <4>1 DEF TypeOK
    <3>2. CASE LiveExtract
      <4>1. extracted' \subseteq Footage /\ UNCHANGED <<enabled, toggles>>
        BY <3>2 DEF LiveExtract, TypeOK, counts
      <4> QED BY <2>1, <4>1 DEF TypeOK
    <3> QED BY <1>3, <3>1, <3>2
  <2>3. OneRunning' /\ CapRespected' /\ RowsMatch'
    BY <2>1 DEF OneRunning, CapRespected, Running, WorkerConsistent, RowsMatch
  <2>4. BatchAhead' /\ RouteAhead'
    BY <2>1 DEF WorkerConsistent, BatchAhead, RouteAhead, NotBehind, Precedes
  <2> QED BY <2>2, <2>3, <2>4 DEF WorkerConsistent
<1>4. CASE Crash
  <2>1. /\ w' = IdleWorker /\ handler' = [h \in Handlers |-> IdleHandler]
        /\ UNCHANGED <<jobs, inserted, enabled, extracted, walked, grace, requests, toggles>>
    BY <1>4 DEF Crash, table, history
  <2>2. TypeOK'
    <3>1. w' \in WorkerRec
      BY <2>1 DEF IdleWorker, WorkerRec, WorkerPcs
    <3>2. handler' \in [Handlers -> [op : Ops \cup {"none"}, job : 0 .. MaxJobs]]
      BY <2>1 DEF IdleHandler
    <3>3. crashes' \in 0 .. MaxCrashes
      BY <1>4 DEF Crash, TypeOK
    <3> QED BY <2>1, <3>1, <3>2, <3>3 DEF TypeOK
  <2>3. OneRunning' /\ CapRespected'
    BY <2>1 DEF OneRunning, CapRespected, Running
  <2>4. RowsMatch' /\ BatchAhead' /\ RouteAhead'
    BY <2>1 DEF WorkerConsistent, RowsMatch, BatchAhead, RouteAhead, IdleWorker,
                IdleHandler, BatchPcs, WalkingPcs
  <2> QED BY <2>2, <2>3, <2>4 DEF WorkerConsistent
<1>5. CASE UNCHANGED vars
  <2>1. UNCHANGED <<jobs, inserted, enabled, extracted, handler, w, walked, grace,
                    requests, toggles, crashes>>
    BY <1>5 DEF vars, table, history, counts
  <2>2. TypeOK'
    BY <2>1 DEF TypeOK
  <2>3. OneRunning' /\ CapRespected' /\ RowsMatch'
    BY <2>1 DEF OneRunning, CapRespected, Running, WorkerConsistent, RowsMatch
  <2>4. BatchAhead' /\ RouteAhead'
    BY <2>1 DEF WorkerConsistent, BatchAhead, RouteAhead, NotBehind, Precedes
  <2> QED BY <2>2, <2>3, <2>4 DEF WorkerConsistent
<1> QED BY <1>1, <1>2, <1>3, <1>4, <1>5 DEF Next

\* The inductive invariant holds in every reachable state.
THEOREM BackfillInductive == Spec => []IInv
<1> QED BY InitIInv, NextIInv, PTL DEF Spec

\* Rows, requests and worker locals keep their types.
THEOREM BackfillType == Spec => []TypeOK
<1>1. IInv => TypeOK
  BY DEF IInv
<1> QED BY <1>1, BackfillInductive, PTL

\* However requests, worker and restarts interleave, at most one job runs.
THEOREM BackfillOneRunning == Spec => []OneRunning
<1>1. IInv => OneRunning
  BY DEF IInv
<1> QED BY <1>1, BackfillInductive, PTL

\* processed_routes never exceeds max_routes.
THEOREM BackfillCap == Spec => []CapRespected
<1>1. IInv => CapRespected
  BY DEF IInv
<1> QED BY <1>1, BackfillInductive, PTL

\* The route the worker is on is one its job asks for, ahead of the token.
THEOREM BackfillConsistent == Spec => []WorkerConsistent
<1>1. IInv => WorkerConsistent
  BY DEF IInv
<1> QED BY <1>1, BackfillInductive, PTL

-----------------------------------------------------------------------------
(* A pause stops the worker within a segment.                              *)

\* A write of the state column settles what the job owes.
LEMMA SetStatePause ==
    ASSUME IInv, PauseInv, NEW j \in 1 .. inserted, NEW s, NEW cancel,
           SetState(j, s, cancel), inserted' = inserted
    PROVE  /\ PauseHonoured'
           /\ \A i \in Jobs : jobs'[i].state = "running" \/ i > inserted => grace'[i] = 0
           /\ \A i \in Jobs : grace[i] = 0 => grace'[i] = 0
<1>1. /\ j \in Jobs /\ jobs \in [Jobs -> JobRow] /\ grace \in [Jobs -> Nat]
      /\ inserted \in Nat
  BY DEF IInv, TypeOK
<1>2. \A i \in Jobs : grace'[i] = IF i = j /\ s = "running" THEN 0 ELSE grace[i]
  BY <1>1 DEF SetState
<1>3. \A i \in Jobs : i # j => jobs'[i].state = jobs[i].state
  BY <1>1 DEF SetState
<1>4. jobs'[j].state = s
  <2>1. jobs'[j] = [jobs[j] EXCEPT !.state = s, !.finished = @ \/ s \in Terminal,
                                   !.cancelled = @ \/ cancel]
    BY <1>1 DEF SetState
  <2> QED BY <1>1, <2>1 DEF JobRow
<1>5. s # "running" => jobs'[j].state # "running"
  BY <1>4
<1>6. \A i \in Jobs : jobs'[i].state = "running" \/ i > inserted => grace'[i] = 0
  BY <1>1, <1>2, <1>3, <1>5 DEF PauseInv
<1>7. \A i \in Jobs : grace[i] = 0 => grace'[i] = 0
  BY <1>2
<1>8. PauseHonoured'
  <2>1. \A i \in Jobs : grace[i] <= 1
    BY DEF PauseInv, PauseHonoured
  <2>2. \A i \in Jobs : grace'[i] <= 1
    BY <1>2, <2>1
  <2> QED BY <2>2 DEF PauseHonoured
<1> QED BY <1>6, <1>7, <1>8

\* While no statement fails, the worker looks at its job before every segment.
LEMMA PauseStep ==
    ASSUME DbMayFail = FALSE, IInv, PauseInv, [Next]_vars
    PROVE  PauseInv'
<1>0. /\ jobs \in [Jobs -> JobRow] /\ grace \in [Jobs -> Nat]
      /\ inserted \in 0 .. MaxJobs /\ w \in WorkerRec
      /\ w.pc # "idle" => w.job \in 1 .. inserted /\ w.job \in Jobs
  BY DEF IInv, TypeOK, WorkerConsistent, RowsMatch
<1>1. ASSUME UNCHANGED <<jobs, inserted, grace>>,
             w'.pc = "progress" => /\ w.job \in Jobs /\ w'.job = w.job
                                   /\ jobs[w.job].state = "running" \/ w.pc = "progress"
      PROVE  PauseInv'
  BY <1>1 DEF PauseInv, PauseHonoured
<1>2. ASSUME NEW j \in 1 .. inserted, NEW s, NEW cancel, SetState(j, s, cancel),
             inserted' = inserted, w' = w \/ w' = IdleWorker
      PROVE  PauseInv'
  <2>1. /\ PauseHonoured'
        /\ \A i \in Jobs : jobs'[i].state = "running" \/ i > inserted => grace'[i] = 0
        /\ \A i \in Jobs : grace[i] = 0 => grace'[i] = 0
    BY <1>2, SetStatePause
  <2>2. w'.pc = "progress" => w' = w /\ w.job \in Jobs
    BY <1>0, <1>2 DEF IdleWorker
  <2> QED BY <1>2, <2>1, <2>2 DEF PauseInv
<1>3. ASSUME NEW h \in Handlers, NEW f \in Filters, StartInsert(h, f)
      PROVE  PauseInv'
  <2>1. CASE UNCHANGED <<jobs, inserted>>
    BY <1>0, <1>1, <1>3, <2>1 DEF StartInsert, history
  <2>2. CASE ~UNCHANGED <<jobs, inserted>>
    <3> DEFINE new == [NoRow EXCEPT !.state = "running", !.filters = f]
    <3>1. /\ inserted' = inserted + 1 /\ inserted # MaxJobs
          /\ jobs' = [jobs EXCEPT ![inserted + 1] = new]
          /\ w' = w /\ grace' = grace
      BY <1>3, <2>2 DEF StartInsert, table, history
    <3> HIDE DEF new
    <3>2. \A i \in Jobs : i # inserted + 1 => jobs'[i] = jobs[i]
      BY <1>0, <3>1
    <3>3. \A i \in Jobs : i >= inserted + 1 => grace[i] = 0
      BY <1>0 DEF PauseInv
    <3>4. w.pc = "progress" => grace[w.job] = 0
      BY DEF PauseInv
    <3>5. \A i \in Jobs : jobs'[i].state = "running" \/ i > inserted' => grace[i] = 0
      BY <1>0, <3>1, <3>2, <3>3 DEF PauseInv
    <3> QED BY <3>1, <3>4, <3>5 DEF PauseInv, PauseHonoured
  <2> QED BY <2>1, <2>2
<1>4. CASE Api
  <2> SUFFICES ASSUME NEW h \in Handlers,
                      \/ StartCheck(h) \/ PauseRead(h) \/ ResumeRead(h) \/ CancelRead(h)
                      \/ \E f \in Filters : StartInsert(h, f)
                      \/ PauseWrite(h) \/ ResumeWrite(h) \/ CancelWrite(h)
                      \/ RequestFails(h)
               PROVE  PauseInv'
    BY <1>4 DEF Api
  <2>1. CASE StartCheck(h) \/ PauseRead(h) \/ ResumeRead(h) \/ CancelRead(h)
             \/ RequestFails(h)
    BY <1>0, <1>1, <2>1 DEF StartCheck, PauseRead, ResumeRead, CancelRead, RequestFails,
                            Begin, table, history
  <2>2. CASE PauseWrite(h) \/ ResumeWrite(h) \/ CancelWrite(h)
    <3>1. /\ handler[h].job \in 1 .. inserted /\ inserted' = inserted /\ w' = w
          /\ \/ UNCHANGED <<jobs, grace>>
             \/ \E s, cancel : SetState(handler[h].job, s, cancel)
      BY <2>2 DEF PauseWrite, ResumeWrite, CancelWrite, IInv, WorkerConsistent, RowsMatch
    <3> QED BY <1>0, <1>1, <1>2, <3>1
  <2> QED BY <1>3, <2>1, <2>2
<1>5. CASE Worker
  <2>1. CASE RunOnce \/ Gate \/ Reread \/ RereadGate \/ FetchRouteBatch \/ MidBatch
             \/ BatchDone \/ MidGateFails \/ StartRoute
    <3>1. UNCHANGED <<jobs, inserted, grace>>
      BY <2>1 DEF RunOnce, Gate, Reread, RereadGate, FetchRouteBatch, MidBatch, BatchDone,
                  MidGateFails, StartRoute, AlprGate, ReadRow, OnlyWorker, table, history
    <3>2. CASE RunOnce
      <4>1. PICK j \in Running : w' = [IdleWorker EXCEPT !.pc = "gate", !.job = j]
        BY <3>2 DEF RunOnce
      <4>2. w'.pc = "gate"
        BY <4>1 DEF IdleWorker
      <4> QED BY <1>1, <3>1, <4>2
    <3>3. CASE StartRoute
      <4>1. \/ w' = [w EXCEPT !.pc = "write", !.target = "done"]
            \/ \E b, r, t : w' = [w EXCEPT !.pc = "seg", !.batch = b, !.route = r,
                                            !.segs = t]
            \/ \E b, r, t : w' = [w EXCEPT !.pc = "stamp", !.batch = b, !.route = r,
                                            !.segs = t]
        BY <3>3, Zenon DEF StartRoute, Writing
      <4>2. w'.pc # "progress"
        BY <1>0, <4>1 DEF WorkerRec
      <4> QED BY <1>1, <3>1, <4>2
    <3>4. CASE FetchRouteBatch
      <4> DEFINE batch == ListBackfillRoutes(jobs[w.job].filters, jobs[w.job].last)
      <4>0. \/ Writing("done") \/ Writing("failed")
            \/ w' = [w EXCEPT !.pc = "mid", !.batch = batch]
        BY <3>4 DEF FetchRouteBatch
      <4> HIDE DEF batch
      <4>1. Writing("done") \/ Writing("failed")
            \/ \E b : w' = [w EXCEPT !.pc = "mid", !.batch = b]
        BY <4>0
      <4>2. w'.pc # "progress"
        BY <1>0, <4>1 DEF Writing, WorkerRec
      <4> QED BY <1>1, <3>1, <4>2
    <3>5. CASE Gate \/ Reread \/ RereadGate \/ MidBatch \/ BatchDone \/ MidGateFails
      <4>1. \/ Goto("reread") \/ Goto("enabled") \/ Goto("fetch") \/ Goto("midEnabled")
            \/ GiveUp \/ Writing("paused")
        BY <3>5 DEF Gate, Reread, RereadGate, MidBatch, BatchDone, MidGateFails,
                    AlprGate, ReadRow
      <4>2. ASSUME NEW p \in WorkerPcs \ {"progress"}, Goto(p) PROVE w'.pc # "progress"
        BY <1>0, <4>2 DEF Goto, WorkerRec
      <4>3. ASSUME Writing("paused") PROVE w'.pc # "progress"
        BY <1>0, <4>3 DEF Writing, WorkerRec
      <4>4. ASSUME GiveUp PROVE w'.pc # "progress"
        BY <4>4 DEF GiveUp, IdleWorker
      <4>5. w'.pc # "progress"
        BY <4>1, <4>2, <4>3, <4>4 DEF WorkerPcs
      <4> QED BY <1>1, <3>1, <4>5
    <3> QED BY <2>1, <3>2, <3>3, <3>4, <3>5
  <2>2. CASE SegmentCheck
    <3>1. /\ UNCHANGED <<jobs, inserted, grace>> /\ w.job \in Jobs
          /\ \/ w' = [w EXCEPT !.pc = "stamp"]
             \/ jobs[w.job].state = "running" /\ w' = [w EXCEPT !.pc = "progress"]
      BY <1>0, <2>2 DEF SegmentCheck, Goto, table
    <3>2. w'.pc = "progress" => jobs[w.job].state = "running" /\ w'.job = w.job
      BY <1>0, <3>1 DEF WorkerRec
    <3> QED BY <1>1, <3>1, <3>2
  <2>3. ASSUME NEW s \in w.segs, ReadProgress(s) PROVE PauseInv'
    <3>1. /\ w.pc = "progress" /\ w.job \in 1 .. inserted /\ w.job \in Jobs
          /\ UNCHANGED <<jobs, inserted>> /\ w'.pc # "progress"
          /\ \/ UNCHANGED grace
             \/ grace' = [grace EXCEPT ![w.job] =
                             IF jobs[w.job].state = "running" THEN @ ELSE @ + 1]
      BY <1>0, <2>3 DEF ReadProgress, Settle, Goto, WorkerRec, table
    <3>2. \A i \in Jobs : i # w.job => grace'[i] = grace[i]
      BY <1>0, <3>1
    <3>3. grace[w.job] = 0
      BY <3>1 DEF PauseInv
    <3>4. \/ grace'[w.job] = 0
          \/ jobs[w.job].state # "running" /\ grace'[w.job] = 1
      BY <1>0, <3>1, <3>3
    <3>5. ~(w.job > inserted)
      BY <1>0, <3>1
    <3>6. PauseHonoured'
      BY <3>2, <3>4 DEF PauseInv, PauseHonoured
    <3>7. \A i \in Jobs : jobs'[i].state = "running" \/ i > inserted' => grace'[i] = 0
      BY <3>1, <3>2, <3>4, <3>5 DEF PauseInv
    <3> QED BY <3>1, <3>6, <3>7 DEF PauseInv
  <2>4. ASSUME NEW s \in w.segs, ProcessSegment(s) \/ MarkExtractorProcessed(s)
        PROVE  PauseInv'
    <3>1. UNCHANGED <<jobs, inserted, grace>> /\ w'.pc # "progress"
      BY <1>0, <2>4 DEF ProcessSegment, MarkExtractorProcessed, Settle, Goto, WorkerRec, table
    <3> QED BY <1>1, <3>1
  <2>5. CASE IncrementProgress
    <3>1. /\ UNCHANGED <<inserted, grace>> /\ w'.pc # "progress"
          /\ w.job \in Jobs
      BY <1>0, <2>5 DEF IncrementProgress, WorkerRec, history
    <3> DEFINE new == [jobs[w.job] EXCEPT !.processed = @ + 1, !.last = NameOf[w.route]]
    <3>2. jobs' = [jobs EXCEPT ![w.job] = new] \/ UNCHANGED jobs
      BY <2>5 DEF IncrementProgress
    <3>3. new.state = jobs[w.job].state
      BY <1>0, <3>1 DEF JobRow
    <3> HIDE DEF new
    <3>4. \A i \in Jobs : jobs'[i].state = jobs[i].state
      BY <1>0, <3>1, <3>2, <3>3
    <3> QED BY <3>1, <3>4 DEF PauseInv, PauseHonoured
  <2>6. CASE WorkerSetState
    <3>1. /\ w.job \in 1 .. inserted /\ inserted' = inserted /\ w' = IdleWorker
          /\ SetState(w.job, w.target, FALSE)
      BY <1>0, <2>6 DEF WorkerSetState, GiveUp
    <3> QED BY <1>2, <3>1
  <2> QED BY <1>5, <2>1, <2>2, <2>3, <2>4, <2>5, <2>6 DEF Worker
<1>6. CASE ToggleEnabled \/ LiveExtract \/ Crash \/ UNCHANGED vars
  <2>1. UNCHANGED <<jobs, inserted, grace>> /\ (w' = w \/ w'.pc # "progress")
    BY <1>6 DEF ToggleEnabled, LiveExtract, Crash, IdleWorker, vars, table, history
  <2>2. w'.pc = "progress" => w' = w /\ w.job \in Jobs
    BY <1>0, <2>1
  <2> QED BY <1>1, <2>1, <2>2
<1> QED BY <1>4, <1>5, <1>6 DEF Next

\* As long as no statement fails, a job that left 'running' has at most one
\* more of its segments begun: the worker reads its row between any two.
THEOREM BackfillPause ==
    ASSUME DbMayFail = FALSE PROVE Spec => []PauseHonoured
<1>1. Init => PauseInv
  BY DEF Init, PauseInv, PauseHonoured, IdleWorker
<1>2. IInv /\ PauseInv /\ [Next]_vars => PauseInv'
  BY PauseStep
<1>3. PauseInv => PauseHonoured
  BY DEF PauseInv
<1> QED BY <1>1, <1>2, <1>3, BackfillInductive, PTL DEF Spec

-----------------------------------------------------------------------------
(* No segment is passed over.                                              *)

\* The batch query's LIMIT and ORDER BY: a set of routes has a first one.
LEMMA FirstRoute ==
    ASSUME NEW T \in SUBSET Routes, T # {}, NEW f
    PROVE  \E m \in T : \A q \in T : q = m \/ Precedes(f, m, q)
<1> DEFINE Part(n) == IF f.newest THEN n .. NumRoutes ELSE 1 .. n
           B == {Part(n) : n \in T}
<1>1. \A n \in T : /\ n \in 1 .. NumRoutes /\ n \in Part(n)
                   /\ Part(n) \in SUBSET Routes /\ IsFiniteSet(Part(n))
  <2> TAKE n \in T
  <2>1. n \in 1 .. NumRoutes
    OBVIOUS
  <2>2. /\ IsFiniteSet(1 .. n) /\ 1 .. n \in SUBSET Routes /\ n \in 1 .. n
        /\ IsFiniteSet(n .. NumRoutes) /\ n .. NumRoutes \in SUBSET Routes
        /\ n \in n .. NumRoutes
    <3>1. n \in Int /\ NumRoutes \in Int /\ 1 \in Int
      BY <2>1
    <3>2. IsFiniteSet(1 .. n) /\ IsFiniteSet(n .. NumRoutes)
      BY <3>1, FS_Interval
    <3> QED BY <2>1, <3>2
  <2>3. Part(n) = n .. NumRoutes \/ Part(n) = 1 .. n
    OBVIOUS
  <2> HIDE DEF Part
  <2> QED BY <2>1, <2>2, <2>3
<1>2. B \subseteq FiniteSubsetsOf(Routes) /\ B # {}
  BY <1>1 DEF FiniteSubsetsOf
<1> HIDE DEF B
<1>3. PICK X \in B : \A Y \in B : ~(<<Y, X>> \in StrictSubsetOrdering(Routes))
  <2> DEFINE S == Routes
  <2>1. B \subseteq FiniteSubsetsOf(S) /\ B # {}
    BY <1>2
  <2> HIDE DEF S
  <2>2. IsWellFoundedOn(StrictSubsetOrdering(S), FiniteSubsetsOf(S))
    BY FS_StrictSubsetOrderingWellFounded
  <2>3. PICK X \in B : \A Y \in B : ~(<<Y, X>> \in StrictSubsetOrdering(S))
    BY <2>1, <2>2, WFMin
  <2> QED BY <2>3 DEF S
<1>4. PICK m \in T : X = Part(m)
  BY <1>3 DEF B
<1>5. ASSUME NEW q \in T, q # m, ~Precedes(f, m, q) PROVE FALSE
  <2>1. q \in 1 .. NumRoutes /\ m \in 1 .. NumRoutes
    BY <1>1
  <2>2. Part(q) \subseteq X /\ m \in X /\ m \notin Part(q)
    <3>1. CASE f.newest
      BY <1>4, <1>5, <2>1, <3>1 DEF Precedes
    <3>2. CASE ~f.newest
      BY <1>4, <1>5, <2>1, <3>2 DEF Precedes
    <3> QED BY <3>1, <3>2
  <2>3. Part(q) \in B /\ Part(q) \in SUBSET Routes /\ X \in SUBSET Routes
    BY <1>1, <1>4 DEF B
  <2> HIDE DEF Part
  <2>4. <<Part(q), X>> \in StrictSubsetOrdering(Routes)
    BY <2>2, <2>3 DEF StrictSubsetOrdering
  <2> QED BY <1>3, <2>3, <2>4
<1> QED BY <1>5

\* The batch is the front of what lies ahead, and empty only when nothing does.
LEMMA BatchIsFront ==
    ASSUME NEW f \in [routes : SUBSET Routes, newest : BOOLEAN, max : Nat], NEW last
    PROVE  /\ ListBackfillRoutes(f, last) = {} => Eligible(f, last) = {}
           /\ \A q \in Eligible(f, last) \ ListBackfillRoutes(f, last),
                 r \in ListBackfillRoutes(f, last) : Precedes(f, r, q)
<1> DEFINE E    == Eligible(f, last)
           P(r) == {q \in E : Precedes(f, q, r)}
<1>1. E \in SUBSET Routes
  BY DEF Eligible
<1>2. \A r \in E : IsFiniteSet(P(r)) /\ Cardinality(P(r)) \in Nat
  <2>1. IsFiniteSet(Routes)
    BY FS_Interval
  <2>2. ASSUME NEW r \in E PROVE IsFiniteSet(P(r))
    <3>1. P(r) \in SUBSET Routes
      BY <1>1
    <3> HIDE DEF P
    <3> QED BY <2>1, <3>1, FS_Subset
  <2> HIDE DEF P
  <2> QED BY <2>2, FS_CardinalityType
<1>3. ListBackfillRoutes(f, last) = {r \in E : Cardinality(P(r)) < RouteBatch}
  BY DEF ListBackfillRoutes
<1>4. ASSUME E # {} PROVE ListBackfillRoutes(f, last) # {}
  <2>1. PICK m \in E : \A q \in E : q = m \/ Precedes(f, m, q)
    <3> HIDE DEF E
    <3> QED BY <1>1, <1>4, FirstRoute
  <2>2. P(m) = {}
    BY <1>1, <2>1 DEF Precedes
  <2>3. Cardinality(P(m)) = 0
    BY <2>2, FS_EmptySet
  <2> QED BY <1>3, <2>3
<1>5. ASSUME NEW q \in E \ ListBackfillRoutes(f, last),
             NEW r \in ListBackfillRoutes(f, last), ~Precedes(f, r, q)
      PROVE  FALSE
  <2>1. r \in E /\ q # r /\ r \in 1 .. NumRoutes /\ q \in 1 .. NumRoutes
    BY <1>1, <1>3, <1>5
  <2>2. P(q) \subseteq P(r)
    BY <1>1, <1>5, <2>1 DEF Precedes
  <2>3. Cardinality(P(q)) <= Cardinality(P(r))
    <3> HIDE DEF P
    <3> QED BY <1>2, <2>1, <2>2, FS_Subset
  <2>4. Cardinality(P(r)) < RouteBatch /\ ~(Cardinality(P(q)) < RouteBatch)
    BY <1>3, <1>5
  <2> HIDE DEF P
  <2> QED BY <1>2, <2>1, <2>3, <2>4
<1> QED BY <1>4, <1>5

\* What a row's type says of the columns the walk uses.
LEMMA FiltersType ==
    ASSUME NEW row \in JobRow
    PROVE  /\ row.filters \in [routes : SUBSET Routes, newest : BOOLEAN, max : Nat]
           /\ row.processed \in Nat /\ row.last \in Nat
<1>1. NoFilter \in [routes : SUBSET Routes, newest : BOOLEAN, max : Nat]
  BY DEF NoFilter
<1>2. /\ row.filters \in Filters \cup {NoFilter} /\ row.processed \in Nat
      /\ row.last \in Nat
  BY DEF JobRow
<1> QED BY <1>1, <1>2

\* A segment on disk is a route and a number.
LEMMA FootageShape == \A p \in Footage : p = <<p[1], p[2]>> /\ p[2] \in Nat
<1> TAKE p \in Footage
<1>1. p \in Routes \X Nat
  OBVIOUS
<1> QED BY <1>1

\* What was seen stays seen: the claims about the rows outlive any step that
\* keeps a row's walk where it is.
LEMMA SeenStays ==
    ASSUME WalkInv, NEW i \in Jobs, walked[i] \subseteq walked'[i],
           \/ /\ jobs'[i].filters = jobs[i].filters
              /\ jobs'[i].processed = jobs[i].processed
              /\ jobs'[i].last = jobs[i].last
              /\ jobs'[i].state = "done" => jobs[i].state = "done"
           \/ jobs'[i].last = 0 /\ jobs'[i].state # "done"
    PROVE  /\ \A p \in Footage : p[1] \in Behind(i)' => p \in walked'[i]
           /\ jobs'[i].state = "done" /\ ~MaxReached(i)' =>
                 \A p \in Footage : p[1] \in jobs'[i].filters.routes => p \in walked'[i]
<1>1. /\ \A p \in Footage : p[1] \in Behind(i) => p \in walked[i]
      /\ jobs[i].state = "done" /\ ~MaxReached(i) =>
            \A p \in Footage : p[1] \in jobs[i].filters.routes => p \in walked[i]
  BY DEF WalkInv, TokenMeansWalked, DoneMeansWalked
<1>2. CASE jobs'[i].last = 0 /\ jobs'[i].state # "done"
  BY <1>2 DEF Behind, AfterToken
<1>3. CASE /\ jobs'[i].filters = jobs[i].filters
           /\ jobs'[i].processed = jobs[i].processed
           /\ jobs'[i].last = jobs[i].last
           /\ jobs'[i].state = "done" => jobs[i].state = "done"
  <2>1. Behind(i)' = Behind(i) /\ (MaxReached(i)' <=> MaxReached(i))
    BY <1>3 DEF Behind, AfterToken, MaxReached
  <2> QED BY <1>1, <1>3, <2>1
<1> QED BY <1>2, <1>3

\* A step that leaves the rows alone and ends the batch.
LEMMA WalkLeaves ==
    ASSUME WalkInv, UNCHANGED <<jobs, walked>>, w'.pc \notin BatchPcs, DoneGrounds'
    PROVE  WalkInv'
<1>1. TokenMeansWalked' /\ DoneMeansWalked'
  BY SeenStays DEF TokenMeansWalked, DoneMeansWalked
<1>2. BatchComplete' /\ RouteSeen'
  BY DEF BatchComplete, RouteSeen, BatchPcs
<1> QED BY <1>1, <1>2 DEF WalkInv

\* A step that leaves the rows alone and stays with its batch and route.
LEMMA WalkStays ==
    ASSUME WalkInv, UNCHANGED jobs, \A i \in Jobs : walked[i] \subseteq walked'[i],
           w.pc \in BatchPcs, w.job \in Jobs, w'.job = w.job, w'.batch = w.batch,
           w'.pc \in BatchPcs, w'.pc \in WalkingPcs <=> w.pc \in WalkingPcs,
           w'.pc \in WalkingPcs => w'.route = w.route,
           RouteSeen'
    PROVE  WalkInv'
<1>1. TokenMeansWalked' /\ DoneMeansWalked'
  BY SeenStays DEF TokenMeansWalked, DoneMeansWalked
<1>2. DoneGrounds'
  BY DEF DoneGrounds, BatchPcs, WalkingPcs
<1>3. \A q : Seen(w.job, q) => Seen(w.job, q)'
  BY DEF Seen
<1>4. BatchComplete'
  <2> DEFINE f == jobs[w.job].filters
             E == Eligible(f, jobs[w.job].last)
  <2> SUFFICES ASSUME NEW q \in E
               PROVE  \/ q \in w'.batch
                      \/ Seen(w.job, q)'
                      \/ w'.pc \in WalkingPcs /\ q = w'.route
                      \/ /\ \A r \in w'.batch : Precedes(f, r, q)
                         /\ w'.pc \in WalkingPcs => Precedes(f, w'.route, q)
    BY DEF BatchComplete, Eligible, AfterToken, Precedes, Seen
  <2>1. \/ q \in w.batch
        \/ Seen(w.job, q)
        \/ w.pc \in WalkingPcs /\ q = w.route
        \/ /\ \A r \in w.batch : Precedes(f, r, q)
           /\ w.pc \in WalkingPcs => Precedes(f, w.route, q)
    BY DEF WalkInv, BatchComplete
  <2> QED BY <1>3, <2>1
<1> QED BY <1>1, <1>2, <1>4 DEF WalkInv

\* The rest of the steps leave the worker's walk alone, or end it.
LEMMA WalkFrame ==
    ASSUME IInv, WalkInv, UNCHANGED walked, w' = w \/ w' = IdleWorker,
           \A i \in Jobs :
              \/ /\ jobs'[i].filters = jobs[i].filters
                 /\ jobs'[i].processed = jobs[i].processed
                 /\ jobs'[i].last = jobs[i].last
                 /\ jobs'[i].state = "done" => jobs[i].state = "done"
              \/ i > inserted /\ jobs'[i].last = 0 /\ jobs'[i].state # "done"
    PROVE  WalkInv'
<1>1. TokenMeansWalked' /\ DoneMeansWalked'
  BY SeenStays DEF TokenMeansWalked, DoneMeansWalked
<1>2. CASE w' = IdleWorker
  <2>1. BatchComplete' /\ RouteSeen' /\ DoneGrounds'
    BY <1>2 DEF BatchComplete, RouteSeen, DoneGrounds, BatchPcs, WalkingPcs, IdleWorker
  <2> QED BY <1>1, <2>1 DEF WalkInv
<1>3. CASE w' = w /\ w.pc # "idle"
  <2>1. /\ w.job \in Jobs /\ ~(w.job > inserted)
    BY <1>3 DEF IInv, TypeOK, WorkerConsistent, RowsMatch
  <2>2. /\ jobs'[w.job].filters = jobs[w.job].filters
        /\ jobs'[w.job].processed = jobs[w.job].processed
        /\ jobs'[w.job].last = jobs[w.job].last
    BY <2>1
  <2>3. BatchComplete' /\ RouteSeen'
    BY <1>3, <2>2 DEF WalkInv, BatchComplete, RouteSeen, Eligible, AfterToken, Precedes, Seen
  <2>4. DoneGrounds'
    BY <1>3, <2>2 DEF WalkInv, DoneGrounds, MaxReached, Eligible, AfterToken
  <2> QED BY <1>1, <2>3, <2>4 DEF WalkInv
<1>4. CASE w' = w /\ w.pc = "idle"
  <2>1. BatchComplete' /\ RouteSeen' /\ DoneGrounds'
    BY <1>4 DEF BatchComplete, RouteSeen, DoneGrounds, BatchPcs, WalkingPcs
  <2> QED BY <1>1, <2>1 DEF WalkInv
<1> QED BY <1>2, <1>3, <1>4

\* What UpdateBackfillJobState leaves alone, seen from the walk.
LEMMA SetStateWalk ==
    ASSUME IInv, NEW j \in 1 .. inserted, NEW s \in JobStates,
           NEW cancel \in BOOLEAN, SetState(j, s, cancel)
    PROVE  \A i \in Jobs : /\ jobs'[i].filters = jobs[i].filters
                           /\ jobs'[i].processed = jobs[i].processed
                           /\ jobs'[i].last = jobs[i].last
                           /\ i # j => jobs'[i].state = jobs[i].state
                           /\ i = j => jobs'[i].state = s
<1>1. j \in Jobs /\ jobs \in [Jobs -> JobRow] /\ jobs[j] \in JobRow
  BY DEF IInv, TypeOK
<1> DEFINE row == [jobs[j] EXCEPT !.state = s, !.finished = @ \/ s \in Terminal,
                                  !.cancelled = @ \/ cancel]
<1>2. jobs' = [jobs EXCEPT ![j] = row]
  BY DEF SetState
<1>3. /\ row.filters = jobs[j].filters /\ row.processed = jobs[j].processed
      /\ row.last = jobs[j].last /\ row.state = s
  BY <1>1 DEF JobRow
<1> HIDE DEF row
<1>4. \A i \in Jobs : jobs'[i] = IF i = j THEN row ELSE jobs[i]
  BY <1>1, <1>2
<1> QED BY <1>3, <1>4

\* processRoute takes the first route of the batch.
LEMMA StartRouteWalk ==
    ASSUME IInv, WalkInv, StartRoute PROVE WalkInv'
<1> DEFINE j == w.job
           f == jobs[j].filters
           E == Eligible(f, jobs[j].last)
<1>1. /\ w.pc = "midEnabled" /\ j \in Jobs /\ UNCHANGED jobs
      /\ w \in WorkerRec /\ walked \in [Jobs -> SUBSET Footage]
  <2>1. w.pc = "midEnabled" /\ UNCHANGED jobs
    BY DEF StartRoute, table
  <2> QED BY <2>1 DEF IInv, TypeOK, WorkerConsistent, RowsMatch
<1>2. CASE MaxReached(j)
  <2>1. w' = [w EXCEPT !.pc = "write", !.target = "done"] /\ UNCHANGED walked
    BY <1>2 DEF StartRoute, Writing
  <2>2. w'.pc = "write" /\ w'.job = j
    BY <1>1, <2>1 DEF WorkerRec
  <2>3. DoneGrounds'
    BY <1>1, <1>2, <2>2 DEF DoneGrounds, MaxReached
  <2> QED BY <1>1, <2>1, <2>2, <2>3, WalkLeaves DEF BatchPcs, WalkingPcs
<1>3. CASE ~MaxReached(j)
  <2>1. PICK r \in w.batch :
          LET segs == {s \in {p[2] : p \in Footage} : <<r, s>> \in Footage} IN
          /\ \A q \in w.batch : q = r \/ Precedes(f, r, q)
          /\ \/ /\ w' = [w EXCEPT !.pc = "seg", !.batch = @ \ {r},
                                   !.route = r, !.segs = segs]
                /\ UNCHANGED walked
             \/ /\ w' = [w EXCEPT !.pc = "stamp", !.batch = @ \ {r},
                                   !.route = r, !.segs = {}]
                /\ walked' = [walked EXCEPT ![j] = @ \cup ({r} \X segs)]
    BY <1>3 DEF StartRoute
  <2> DEFINE segs == {s \in {p[2] : p \in Footage} : <<r, s>> \in Footage}
  <2>2. /\ \A q \in w.batch : q = r \/ Precedes(f, r, q)
        /\ \/ /\ w' = [w EXCEPT !.pc = "seg", !.batch = @ \ {r},
                                 !.route = r, !.segs = segs]
              /\ UNCHANGED walked
           \/ /\ w' = [w EXCEPT !.pc = "stamp", !.batch = @ \ {r},
                                 !.route = r, !.segs = {}]
              /\ walked' = [walked EXCEPT ![j] = @ \cup ({r} \X segs)]
    BY <2>1
  <2>3. \A p \in Footage : p[1] = r => p[2] \in segs /\ p = <<r, p[2]>>
    BY FootageShape
  <2> HIDE DEF segs
  <2>4. /\ w'.job = j /\ w'.batch = w.batch \ {r} /\ w'.route = r
        /\ w'.pc \in {"seg", "stamp"}
        /\ w'.pc = "seg" => w'.segs = segs
    BY <1>1, <2>2 DEF WorkerRec
  <2>5. \A i \in Jobs : walked[i] \subseteq walked'[i]
    <3>1. \/ UNCHANGED walked
          \/ walked' = [walked EXCEPT ![j] = @ \cup ({r} \X segs)]
      BY <2>2
    <3>2. ASSUME walked' = [walked EXCEPT ![j] = @ \cup ({r} \X segs)], NEW i \in Jobs
          PROVE  walked'[i] = IF i = j THEN walked[j] \cup ({r} \X segs) ELSE walked[i]
      BY <1>1, <3>2
    <3> QED BY <3>1, <3>2
  <2>6. w'.pc = "stamp" => \A p \in Footage : p[1] = r => p \in walked'[j]
    <3>1. CASE w' = [w EXCEPT !.pc = "seg", !.batch = @ \ {r}, !.route = r, !.segs = segs]
      BY <1>1, <3>1 DEF WorkerRec
    <3>2. CASE walked' = [walked EXCEPT ![j] = @ \cup ({r} \X segs)]
      <4>1. {r} \X segs \subseteq walked'[j]
        BY <1>1, <3>2
      <4> QED BY <2>3, <4>1
    <3> QED BY <2>2, <3>1, <3>2
  <2>7. RouteSeen'
    BY <2>3, <2>4, <2>6 DEF RouteSeen, WalkingPcs
  <2>8. TokenMeansWalked' /\ DoneMeansWalked'
    BY <1>1, <2>5, SeenStays DEF TokenMeansWalked, DoneMeansWalked
  <2>9. DoneGrounds'
    BY <2>4 DEF DoneGrounds
  <2>10. BatchComplete'
    <3> SUFFICES ASSUME NEW q \in E
                 PROVE  \/ q \in w'.batch \/ Seen(j, q)' \/ q = r
                        \/ (\A b \in w'.batch : Precedes(f, b, q)) /\ Precedes(f, r, q)
      BY <1>1, <2>4 DEF BatchComplete, Eligible, AfterToken, Precedes, Seen, WalkingPcs
    <3>1. q \in w.batch \/ Seen(j, q) \/ \A b \in w.batch : Precedes(f, b, q)
      BY <1>1 DEF WalkInv, BatchComplete, BatchPcs, WalkingPcs
    <3>2. Seen(j, q) => Seen(j, q)'
      BY <1>1, <2>4, <2>5 DEF Seen
    <3> QED BY <2>4, <3>1, <3>2
  <2> QED BY <2>7, <2>8, <2>9, <2>10 DEF WalkInv
<1> QED BY <1>2, <1>3

\* IncrementBackfillJobProgress moves the token to the route just walked.
LEMMA IncrementWalk ==
    ASSUME DistinctNames, IInv, WalkInv, IncrementProgress PROVE WalkInv'
<1> DEFINE j == w.job
           f == jobs[j].filters
           r == w.route
           new == [jobs[j] EXCEPT !.processed = @ + 1, !.last = NameOf[r]]
<1>1. /\ w.pc = "stamp" /\ j \in Jobs /\ UNCHANGED walked
      /\ w \in WorkerRec /\ jobs \in [Jobs -> JobRow] /\ jobs[j] \in JobRow
      /\ w' = [w EXCEPT !.pc = "mid", !.route = 0, !.segs = {}]
      /\ jobs' = [jobs EXCEPT ![j] = new] \/ UNCHANGED jobs
  <2>1. /\ w.pc = "stamp" /\ UNCHANGED walked
        /\ w' = [w EXCEPT !.pc = "mid", !.route = 0, !.segs = {}]
        /\ jobs' = [jobs EXCEPT ![j] = new] \/ UNCHANGED jobs
    BY DEF IncrementProgress, history
  <2>2. j \in Jobs /\ w \in WorkerRec /\ jobs \in [Jobs -> JobRow]
    BY <2>1 DEF IInv, TypeOK, WorkerConsistent, RowsMatch
  <2> QED BY <2>1, <2>2
<1>2. w'.pc = "mid" /\ w'.job = j /\ w'.batch = w.batch
  BY <1>1 DEF WorkerRec
<1>3. /\ f \in [routes : SUBSET Routes, newest : BOOLEAN, max : Nat]
      /\ jobs[j].processed \in Nat /\ jobs[j].last \in Nat
  BY <1>1, FiltersType
<1>4. /\ r \in f.routes /\ NotBehind(f, jobs[j].last, r)
      /\ \A q \in w.batch : q = r \/ Precedes(f, r, q)
      /\ \A p \in Footage : p[1] = r => p \in walked[j]
      /\ \A q \in Eligible(f, jobs[j].last) :
            \/ q \in w.batch \/ Seen(j, q) \/ q = r
            \/ (\A b \in w.batch : Precedes(f, b, q)) /\ Precedes(f, r, q)
  BY <1>1 DEF IInv, WorkerConsistent, RouteAhead, WalkInv, RouteSeen, BatchComplete,
              BatchPcs, WalkingPcs
<1>5. Seen(j, r)
  BY <1>4 DEF Seen
<1>6. RouteSeen' /\ DoneGrounds'
  BY <1>2 DEF RouteSeen, DoneGrounds, WalkingPcs
<1>7. CASE UNCHANGED jobs
  <2>1. TokenMeansWalked' /\ DoneMeansWalked'
    BY <1>1, <1>7, SeenStays DEF TokenMeansWalked, DoneMeansWalked
  <2>2. BatchComplete'
    BY <1>1, <1>2, <1>4, <1>5, <1>7
       DEF BatchComplete, Eligible, AfterToken, Precedes, Seen, WalkingPcs
  <2> QED BY <1>6, <2>1, <2>2 DEF WalkInv
<1>8. CASE jobs' = [jobs EXCEPT ![j] = new]
  <2>1. /\ new.filters = f /\ new.state = jobs[j].state /\ new.last = NameOf[r]
        /\ new.processed = jobs[j].processed + 1
    BY <1>1 DEF JobRow
  <2> HIDE DEF new
  <2>2. \A i \in Jobs : jobs'[i] = IF i = j THEN new ELSE jobs[i]
    BY <1>1, <1>8
  <2>3. r \in 1 .. NumRoutes /\ NameOf[r] \in Nat \ {0}
    BY <1>3, <1>4
  <2>4. ASSUME NEW q \in f.routes, ~AfterToken(f, NameOf[r], q)
        PROVE  Seen(j, q)
    <3>1. q \in 1 .. NumRoutes /\ NameOf[q] \in Nat
      BY <1>3
    <3>2. q = r \/ Precedes(f, q, r)
      BY <1>3, <2>3, <2>4, <3>1 DEF AfterToken, DistinctNames, Precedes
    <3>3. CASE Precedes(f, q, r)
      <4>1. q \notin w.batch /\ q # r /\ ~Precedes(f, r, q)
        BY <1>4, <2>3, <3>1, <3>3 DEF Precedes
      <4>2. CASE q \in Eligible(f, jobs[j].last)
        BY <1>4, <4>1, <4>2
      <4>3. CASE q \notin Eligible(f, jobs[j].last)
        BY <1>1, <4>3 DEF Eligible, WalkInv, TokenMeansWalked, Behind, Seen
      <4> QED BY <4>2, <4>3
    <3> QED BY <1>5, <3>2, <3>3
  <2>5. TokenMeansWalked'
    <3> SUFFICES ASSUME NEW i \in Jobs, NEW p \in Footage, p[1] \in Behind(i)'
                 PROVE  p \in walked[i]
      BY <1>1 DEF TokenMeansWalked
    <3>1. CASE i # j
      <4>1. p[1] \in Behind(i)
        BY <2>2, <3>1 DEF Behind, AfterToken
      <4> QED BY <4>1 DEF WalkInv, TokenMeansWalked
    <3>2. CASE i = j
      <4>1. p[1] \in f.routes /\ ~AfterToken(f, NameOf[r], p[1])
        BY <2>1, <2>2, <3>2 DEF Behind, AfterToken
      <4> QED BY <2>4, <3>2, <4>1 DEF Seen
    <3> QED BY <3>1, <3>2
  <2>6. DoneMeansWalked'
    <3> SUFFICES ASSUME NEW i \in Jobs, jobs'[i].state = "done", ~MaxReached(i)',
                        NEW p \in Footage, p[1] \in jobs'[i].filters.routes
                 PROVE  p \in walked[i]
      BY <1>1 DEF DoneMeansWalked
    <3>1. jobs[i].state = "done" /\ jobs[i].filters = jobs'[i].filters
      BY <2>1, <2>2
    <3>2. ~MaxReached(i)
      <4>1. CASE i = j
        <5>1. jobs'[i].filters = f /\ jobs'[i].processed = jobs[j].processed + 1
          BY <2>1, <2>2, <4>1
        <5>2. f.max \in Nat
          BY <1>3
        <5> QED BY <1>3, <4>1, <5>1, <5>2 DEF MaxReached
      <4>2. CASE i # j
        BY <2>2, <4>2 DEF MaxReached
      <4> QED BY <4>1, <4>2
    <3> QED BY <3>1, <3>2 DEF WalkInv, DoneMeansWalked
  <2>7. BatchComplete'
    <3> SUFFICES ASSUME NEW q \in Eligible(f, NameOf[r])
                 PROVE  q \in w.batch \/ Seen(j, q) \/ \A b \in w.batch : Precedes(f, b, q)
      <4>1. jobs'[w'.job].filters = f /\ jobs'[w'.job].last = NameOf[r]
        BY <1>1, <1>2, <2>1, <2>2
      <4>2. \A q : Seen(j, q) => Seen(j, q)'
        BY <1>1, <1>2 DEF Seen
      <4>3. Eligible(f, jobs[j].last)' = Eligible(f, NameOf[r])
        BY <1>1, <1>2, <4>1 DEF Eligible, AfterToken
      <4> QED BY <1>1, <1>2, <4>1, <4>2, <4>3 DEF BatchComplete, Precedes, WalkingPcs
    <3>1. q \in f.routes /\ q \in 1 .. NumRoutes /\ NameOf[q] \in Nat
      BY <1>3 DEF Eligible
    <3>2. q \in Eligible(f, jobs[j].last)
      BY <1>3, <1>4, <2>3, <3>1 DEF Eligible, AfterToken, NotBehind
    <3> QED BY <1>4, <1>5, <3>2
  <2> QED BY <1>6, <2>5, <2>6, <2>7 DEF WalkInv
<1> QED BY <1>1, <1>7, <1>8

\* The other steps of the worker: within a route, between batches, at the end.
LEMMA WorkerWalk ==
    ASSUME DistinctNames, IInv, WalkInv, Worker PROVE WalkInv'
<1>0. /\ w \in WorkerRec /\ jobs \in [Jobs -> JobRow]
      /\ walked \in [Jobs -> SUBSET Footage] /\ inserted \in 0 .. MaxJobs
      /\ w.pc # "idle" => w.job \in 1 .. inserted /\ w.job \in Jobs
      /\ w.pc = "write" => w.target \in {"paused", "done", "failed"}
  BY DEF IInv, TypeOK, WorkerConsistent, RowsMatch
<1>1. CASE RunOnce
  <2>1. PICK i \in Running : w' = [IdleWorker EXCEPT !.pc = "gate", !.job = i]
    BY <1>1 DEF RunOnce
  <2>2. w'.pc = "gate" /\ UNCHANGED <<jobs, walked>>
    BY <1>1, <2>1 DEF RunOnce, IdleWorker, OnlyWorker, table, history
  <2> QED BY <2>2, WalkLeaves DEF BatchPcs, WalkingPcs, DoneGrounds
<1>2. CASE Gate \/ Reread \/ RereadGate \/ MidBatch \/ BatchDone \/ MidGateFails
  <2>1. UNCHANGED <<jobs, walked>>
    BY <1>2 DEF Gate, Reread, RereadGate, MidBatch, BatchDone, MidGateFails, AlprGate,
                ReadRow, OnlyWorker, table, history
  <2>2. \/ Goto("reread") \/ Goto("enabled") \/ Goto("fetch") \/ GiveUp
        \/ Writing("paused")
        \/ w.pc = "mid" /\ Goto("midEnabled")
    <3>1. CASE Gate \/ RereadGate \/ BatchDone \/ MidGateFails
      BY <3>1 DEF Gate, RereadGate, BatchDone, MidGateFails, AlprGate
    <3>2. CASE Reread
      BY <3>2 DEF Reread, ReadRow
    <3>3. CASE MidBatch
      BY <3>3 DEF MidBatch, ReadRow
    <3> QED BY <1>2, <3>1, <3>2, <3>3
  <2>3. ASSUME NEW p \in {"reread", "enabled", "fetch"}, Goto(p) PROVE WalkInv'
    <3>1. w'.pc = p
      BY <1>0, <2>3 DEF Goto, WorkerRec
    <3> QED BY <2>1, <3>1, WalkLeaves DEF BatchPcs, WalkingPcs, DoneGrounds
  <2>4. CASE Writing("paused")
    <3>1. w'.pc = "write" /\ w'.target = "paused"
      BY <1>0, <2>4 DEF Writing, WorkerRec
    <3> QED BY <2>1, <3>1, WalkLeaves DEF BatchPcs, WalkingPcs, DoneGrounds
  <2>5. CASE GiveUp
    <3>1. w'.pc = "idle"
      BY <2>5 DEF GiveUp, IdleWorker
    <3> QED BY <2>1, <3>1, WalkLeaves DEF BatchPcs, WalkingPcs, DoneGrounds
  <2>6. CASE w.pc = "mid" /\ Goto("midEnabled")
    <3>1. w'.pc = "midEnabled" /\ w'.job = w.job /\ w'.batch = w.batch /\ w.pc = "mid"
      BY <1>0, <2>6 DEF Goto, WorkerRec
    <3>2. RouteSeen'
      BY <3>1 DEF RouteSeen, WalkingPcs
    <3>3. \A i \in Jobs : walked[i] \subseteq walked'[i]
      BY <2>1
    <3> QED BY <1>0, <2>1, <3>1, <3>2, <3>3, WalkStays DEF BatchPcs, WalkingPcs
  <2> QED BY <2>2, <2>3, <2>4, <2>5, <2>6
<1>3. CASE FetchRouteBatch
  <2> DEFINE f == jobs[w.job].filters
             last == jobs[w.job].last
             batch == ListBackfillRoutes(f, last)
  <2>1. w.pc = "fetch" /\ w.job \in Jobs /\ UNCHANGED <<jobs, walked>>
    BY <1>0, <1>3 DEF FetchRouteBatch, OnlyWorker, table, history
  <2>2. f \in [routes : SUBSET Routes, newest : BOOLEAN, max : Nat]
    BY <1>0, <2>1, FiltersType
  <2>3. /\ batch = {} => Eligible(f, last) = {}
        /\ \A q \in Eligible(f, last) \ batch, r \in batch : Precedes(f, r, q)
    BY <2>2, BatchIsFront
  <2>4. \/ MaxReached(w.job) /\ Writing("done")
        \/ batch = {} /\ Writing("done")
        \/ w' = [w EXCEPT !.pc = "mid", !.batch = batch]
        \/ Writing("failed")
    BY <1>3 DEF FetchRouteBatch
  <2> HIDE DEF batch
  <2>5. CASE Writing("done") /\ (MaxReached(w.job) \/ batch = {})
    <3>1. w'.pc = "write" /\ w'.job = w.job
      BY <1>0, <2>5 DEF Writing, WorkerRec
    <3>2. DoneGrounds'
      BY <2>1, <2>3, <2>5, <3>1 DEF DoneGrounds, MaxReached, Eligible, AfterToken
    <3> QED BY <2>1, <3>1, <3>2, WalkLeaves DEF BatchPcs, WalkingPcs
  <2>6. CASE Writing("failed")
    <3>1. w'.pc = "write" /\ w'.target = "failed"
      BY <1>0, <2>6 DEF Writing, WorkerRec
    <3> QED BY <2>1, <3>1, WalkLeaves DEF BatchPcs, WalkingPcs, DoneGrounds
  <2>7. CASE w' = [w EXCEPT !.pc = "mid", !.batch = batch]
    <3>1. w'.pc = "mid" /\ w'.job = w.job /\ w'.batch = batch
      BY <1>0, <2>7 DEF WorkerRec
    <3>2. TokenMeansWalked' /\ DoneMeansWalked'
      BY <2>1, SeenStays DEF TokenMeansWalked, DoneMeansWalked
    <3>3. RouteSeen' /\ DoneGrounds'
      BY <3>1 DEF RouteSeen, DoneGrounds, WalkingPcs
    <3>4. BatchComplete'
      BY <2>1, <2>3, <3>1
         DEF BatchComplete, Eligible, AfterToken, Precedes, WalkingPcs
    <3> QED BY <3>2, <3>3, <3>4 DEF WalkInv
  <2> QED BY <2>4, <2>5, <2>6, <2>7
<1>4. CASE SegmentCheck
  <2>1. w.pc = "seg" /\ w.job \in Jobs /\ UNCHANGED jobs
    BY <1>0, <1>4 DEF SegmentCheck, table
  <2>2. \A p \in Footage : p[1] = w.route => p \in walked[w.job] \/ p[2] \in w.segs
    BY <2>1 DEF WalkInv, RouteSeen, WalkingPcs
  <2>3. CASE /\ Goto("stamp")
             /\ walked' = [walked EXCEPT ![w.job] = @ \cup ({w.route} \X w.segs)]
    <3>1. /\ w'.pc = "stamp" /\ w'.job = w.job /\ w'.batch = w.batch
          /\ w'.route = w.route
      BY <1>0, <2>3 DEF Goto, WorkerRec
    <3>2. \A i \in Jobs : walked'[i] = IF i = w.job
                              THEN walked[i] \cup ({w.route} \X w.segs) ELSE walked[i]
      BY <1>0, <2>3
    <3>3. RouteSeen'
      <4>1. ASSUME NEW p \in Footage, p[1] = w.route PROVE p \in walked'[w.job]
        <5>1. p = <<w.route, p[2]>>
          BY <4>1, FootageShape
        <5> QED BY <2>1, <2>2, <3>2, <4>1, <5>1
      <4> QED BY <3>1, <4>1 DEF RouteSeen
    <3> QED BY <2>1, <3>1, <3>2, <3>3, WalkStays DEF BatchPcs, WalkingPcs
  <2>4. CASE Goto("progress") /\ UNCHANGED walked
    <3>1. /\ w'.pc = "progress" /\ w'.job = w.job /\ w'.batch = w.batch
          /\ w'.route = w.route /\ w'.segs = w.segs
      BY <1>0, <2>4 DEF Goto, WorkerRec
    <3>2. RouteSeen'
      BY <2>2, <2>4, <3>1 DEF RouteSeen
    <3>3. \A i \in Jobs : walked[i] \subseteq walked'[i]
      BY <2>4
    <3> QED BY <2>1, <3>1, <3>2, <3>3, WalkStays DEF BatchPcs, WalkingPcs
  <2> QED BY <1>4, <2>3, <2>4 DEF SegmentCheck
<1>5. ASSUME NEW s \in w.segs,
             ReadProgress(s) \/ ProcessSegment(s) \/ MarkExtractorProcessed(s)
      PROVE  WalkInv'
  <2>1. /\ w.pc \in {"progress", "extract", "mark"} /\ w.job \in Jobs /\ UNCHANGED jobs
        /\ \/ Settle(s)
           \/ (Goto("extract") \/ Goto("mark")) /\ UNCHANGED walked
    <3>1. w.pc \in {"progress", "extract", "mark"} /\ UNCHANGED jobs
      BY <1>5 DEF ReadProgress, ProcessSegment, MarkExtractorProcessed, table
    <3>2. \/ Settle(s)
          \/ (Goto("extract") \/ Goto("mark")) /\ UNCHANGED walked
      BY <1>5 DEF ReadProgress, ProcessSegment, MarkExtractorProcessed
    <3> QED BY <1>0, <3>1, <3>2
  <2>2. \A p \in Footage : p[1] = w.route => p \in walked[w.job] \/ p[2] \in w.segs
    BY <2>1 DEF WalkInv, RouteSeen, WalkingPcs
  <2>3. CASE Settle(s)
    <3>1. /\ w'.pc = "seg" /\ w'.job = w.job /\ w'.batch = w.batch
          /\ w'.route = w.route /\ w'.segs = w.segs \ {s}
      BY <1>0, <2>3 DEF Settle, WorkerRec
    <3>2. \A i \in Jobs : walked'[i] = IF i = w.job
                              THEN walked[i] \cup {<<w.route, s>>} ELSE walked[i]
      BY <1>0, <2>3 DEF Settle
    <3>3. RouteSeen'
      <4>1. ASSUME NEW p \in Footage, p[1] = w.route
            PROVE  p \in walked'[w.job] \/ p[2] \in w.segs \ {s}
        <5>1. p = <<w.route, p[2]>>
          BY <4>1, FootageShape
        <5>2. CASE p[2] = s
          BY <2>1, <3>2, <5>1, <5>2
        <5>3. CASE p[2] # s
          BY <2>1, <2>2, <3>2, <4>1, <5>3
        <5> QED BY <5>2, <5>3
      <4> QED BY <3>1, <4>1 DEF RouteSeen
    <3> QED BY <2>1, <3>1, <3>2, <3>3, WalkStays DEF BatchPcs, WalkingPcs
  <2>4. ASSUME NEW pc \in {"extract", "mark"}, Goto(pc), UNCHANGED walked
        PROVE  WalkInv'
    <3>1. /\ w'.pc = pc /\ w'.job = w.job /\ w'.batch = w.batch
          /\ w'.route = w.route /\ w'.segs = w.segs
      BY <1>0, <2>4 DEF Goto, WorkerRec
    <3>2. RouteSeen'
      BY <2>2, <2>4, <3>1 DEF RouteSeen
    <3>3. \A i \in Jobs : walked[i] \subseteq walked'[i]
      BY <2>4
    <3> QED BY <2>1, <3>1, <3>2, <3>3, WalkStays DEF BatchPcs, WalkingPcs
  <2> QED BY <2>1, <2>3, <2>4
<1>6. CASE WorkerSetState
  <2>1. /\ w.pc = "write" /\ w.job \in 1 .. inserted /\ w.job \in Jobs
        /\ w' = IdleWorker /\ UNCHANGED walked
        /\ SetState(w.job, w.target, FALSE) \/ UNCHANGED jobs
    BY <1>0, <1>6 DEF WorkerSetState, GiveUp
  <2>2. CASE UNCHANGED jobs
    BY <2>1, <2>2, WalkFrame
  <2>3. CASE SetState(w.job, w.target, FALSE)
    <3>1. \A i \in Jobs : /\ jobs'[i].filters = jobs[i].filters
                          /\ jobs'[i].processed = jobs[i].processed
                          /\ jobs'[i].last = jobs[i].last
                          /\ i # w.job => jobs'[i].state = jobs[i].state
                          /\ i = w.job => jobs'[i].state = w.target
      <4>1. w.target \in JobStates
        BY <1>0, <2>1 DEF JobStates
      <4>2. PICK c \in BOOLEAN : SetState(w.job, w.target, c)
        BY <2>3, Zenon
      <4> QED BY <2>1, <4>1, <4>2, SetStateWalk
    <3>2. CASE w.target # "done"
      BY <2>1, <3>1, <3>2, WalkFrame
    <3>3. CASE w.target = "done"
      <4>1. MaxReached(w.job)
            \/ Eligible(jobs[w.job].filters, jobs[w.job].last) = {}
        BY <2>1, <3>3 DEF WalkInv, DoneGrounds
      <4>2. TokenMeansWalked'
        BY <2>1, <3>1 DEF WalkInv, TokenMeansWalked, Behind, AfterToken
      <4>3. DoneMeansWalked'
        <5> SUFFICES ASSUME NEW i \in Jobs, jobs'[i].state = "done", ~MaxReached(i)',
                            NEW p \in Footage, p[1] \in jobs'[i].filters.routes
                     PROVE  p \in walked[i]
          BY <2>1 DEF DoneMeansWalked
        <5>1. ~MaxReached(i) /\ p[1] \in jobs[i].filters.routes
          BY <3>1 DEF MaxReached
        <5>2. CASE i # w.job
          BY <3>1, <5>1, <5>2 DEF WalkInv, DoneMeansWalked
        <5>3. CASE i = w.job
          <6>1. p[1] \in Behind(i)
            BY <4>1, <5>1, <5>3 DEF Eligible, Behind
          <6> QED BY <6>1 DEF WalkInv, TokenMeansWalked
        <5> QED BY <5>2, <5>3
      <4>4. BatchComplete' /\ RouteSeen' /\ DoneGrounds'
        BY <2>1 DEF BatchComplete, RouteSeen, DoneGrounds, BatchPcs, WalkingPcs, IdleWorker
      <4> QED BY <4>2, <4>3, <4>4 DEF WalkInv
    <3> QED BY <3>2, <3>3
  <2> QED BY <2>1, <2>2, <2>3
<1> QED BY <1>1, <1>2, <1>3, <1>4, <1>5, <1>6, StartRouteWalk, IncrementWalk DEF Worker

\* Every step keeps the walk complete.
LEMMA NextWalk ==
    ASSUME DistinctNames, IInv, WalkInv, [Next]_vars PROVE WalkInv'
<1>0. inserted \in 0 .. MaxJobs /\ jobs \in [Jobs -> JobRow]
  BY DEF IInv, TypeOK
<1>1. ASSUME UNCHANGED <<jobs, walked>>, w' = w \/ w' = IdleWorker PROVE WalkInv'
  BY <1>1, WalkFrame
<1>2. CASE Api
  <2> SUFFICES ASSUME NEW h \in Handlers,
                      \/ StartCheck(h) \/ PauseRead(h) \/ ResumeRead(h) \/ CancelRead(h)
                      \/ \E f \in Filters : StartInsert(h, f)
                      \/ PauseWrite(h) \/ ResumeWrite(h) \/ CancelWrite(h)
                      \/ RequestFails(h)
               PROVE  WalkInv'
    BY <1>2 DEF Api
  <2>1. CASE StartCheck(h) \/ PauseRead(h) \/ ResumeRead(h) \/ CancelRead(h)
             \/ RequestFails(h)
    BY <1>1, <2>1 DEF StartCheck, PauseRead, ResumeRead, CancelRead, RequestFails,
                      Begin, table, history
  <2>2. ASSUME NEW f \in Filters, StartInsert(h, f) PROVE WalkInv'
    <3> DEFINE new == [NoRow EXCEPT !.state = "running", !.filters = f]
    <3>1. /\ w' = w /\ UNCHANGED walked
          /\ \/ UNCHANGED jobs
             \/ inserted # MaxJobs /\ jobs' = [jobs EXCEPT ![inserted + 1] = new]
      BY <2>2 DEF StartInsert, table, history
    <3>2. new.last = 0 /\ new.state = "running"
      BY DEF NoRow
    <3> HIDE DEF new
    <3>3. CASE UNCHANGED jobs
      BY <1>1, <3>1, <3>3
    <3>4. CASE inserted # MaxJobs /\ jobs' = [jobs EXCEPT ![inserted + 1] = new]
      <4>1. \A i \in Jobs : jobs'[i] = IF i = inserted + 1 THEN new ELSE jobs[i]
        BY <1>0, <3>4
      <4> QED BY <1>0, <3>1, <3>2, <4>1, WalkFrame
    <3> QED BY <3>1, <3>3, <3>4
  <2>3. CASE PauseWrite(h) \/ ResumeWrite(h) \/ CancelWrite(h)
    <3>1. /\ w' = w /\ UNCHANGED walked /\ handler[h].job \in 1 .. inserted
          /\ \/ UNCHANGED jobs
             \/ \E s \in {"running", "paused", "failed"}, c \in BOOLEAN :
                   SetState(handler[h].job, s, c)
      BY <2>3 DEF PauseWrite, ResumeWrite, CancelWrite, IInv, WorkerConsistent, RowsMatch
    <3>2. ASSUME NEW s \in {"running", "paused", "failed"}, NEW c \in BOOLEAN,
                 SetState(handler[h].job, s, c)
          PROVE  WalkInv'
      <4>1. \A i \in Jobs : /\ jobs'[i].filters = jobs[i].filters
                            /\ jobs'[i].processed = jobs[i].processed
                            /\ jobs'[i].last = jobs[i].last
                            /\ i # handler[h].job => jobs'[i].state = jobs[i].state
                            /\ i = handler[h].job => jobs'[i].state = s
        BY <3>1, <3>2, SetStateWalk DEF JobStates
      <4> QED BY <3>1, <4>1, WalkFrame
    <3> QED BY <1>1, <3>1, <3>2
  <2> QED BY <2>1, <2>2, <2>3
<1>3. CASE Worker
  BY <1>3, WorkerWalk
<1>4. CASE ToggleEnabled \/ LiveExtract \/ Crash \/ UNCHANGED vars
  BY <1>1, <1>4 DEF ToggleEnabled, LiveExtract, Crash, vars, table, history
<1> QED BY <1>2, <1>3, <1>4 DEF Next

\* With one route per name the walk misses nothing, whatever fails and however
\* often the process restarts.
THEOREM BackfillWalk == ASSUME DistinctNames PROVE Spec => []WalkInv
<1>1. Init => WalkInv
  BY DEF Init, WalkInv, TokenMeansWalked, DoneMeansWalked, Behind, AfterToken,
         BatchComplete, RouteSeen, DoneGrounds, BatchPcs, WalkingPcs, NoRow, NoFilter,
         IdleWorker
<1>2. IInv /\ WalkInv /\ [Next]_vars => WalkInv'
  BY NextWalk
<1> QED BY <1>1, <1>2, BackfillInductive, PTL DEF Spec

\* Of the routes behind last_processed_route no segment was passed over unseen.
THEOREM BackfillToken == ASSUME DistinctNames PROVE Spec => []TokenMeansWalked
<1>1. WalkInv => TokenMeansWalked
  BY DEF WalkInv
<1> QED BY <1>1, BackfillWalk, PTL

\* A job that ended 'done' below its cap has seen every route it asked for.
THEOREM BackfillDone == ASSUME DistinctNames PROVE Spec => []DoneMeansWalked
<1>1. WalkInv => DoneMeansWalked
  BY DEF WalkInv
<1> QED BY <1>1, BackfillWalk, PTL

-----------------------------------------------------------------------------
(* The refinement.                                                          *)

\* The abstract view of the rows, column by column.
LEMMA ViewUnchanged ==
    ASSUME UNCHANGED <<jobs, inserted>>
    PROVE  UNCHANGED Progress!pvars
BY DEF Progress!pvars, Running

\* A write of the state column rests a job, rouses it, or changes nothing.
LEMMA SetStateView ==
    ASSUME IInv, NEW j \in 1 .. inserted, NEW cancel \in BOOLEAN,
           NEW s \in {"running", "paused", "done", "failed"},
           s = "running" => Running \ {j} = {},
           SetState(j, s, cancel), inserted' = inserted
    PROVE  [Progress!PNext]_(Progress!pvars)
<1>1. /\ \A i \in Jobs : /\ jobs'[i].filters = jobs[i].filters
                         /\ jobs'[i].processed = jobs[i].processed
                         /\ jobs'[i].last = jobs[i].last
      /\ Running' = IF s = "running" THEN Running \cup {j} ELSE Running \ {j}
  BY SetStateFacts
<1>2. /\ [i \in Jobs |-> jobs[i].filters]' = [i \in Jobs |-> jobs[i].filters]
      /\ [i \in Jobs |-> jobs[i].processed]' = [i \in Jobs |-> jobs[i].processed]
      /\ [i \in Jobs |-> jobs[i].last]' = [i \in Jobs |-> jobs[i].last]
  BY <1>1
<1>3. j \in Jobs
  BY DEF IInv, TypeOK
<1>4. CASE Running' = Running
  BY <1>2, <1>4 DEF Progress!pvars
<1>5. CASE s = "running" /\ Running' # Running
  <2>1. Running = {} /\ Running' = {j}
    BY <1>1, <1>5
  <2>2. Progress!Rouse(j)
    BY <1>2, <2>1 DEF Progress!Rouse
  <2> QED BY <1>3, <2>2 DEF Progress!PNext
<1>6. CASE s # "running" /\ Running' # Running
  <2>1. j \in Running /\ Running' = Running \ {j}
    BY <1>1, <1>6
  <2>2. Progress!Rest(j)
    BY <1>2, <2>1 DEF Progress!Rest
  <2> QED BY <1>3, <2>2 DEF Progress!PNext
<1> QED BY <1>4, <1>5, <1>6

\* Every step is a step of BackfillProgress or leaves its variables alone.
LEMMA ProgressStep ==
    ASSUME IInv, [Next]_vars PROVE [Progress!PNext]_(Progress!pvars)
<1>0. /\ inserted \in 0 .. MaxJobs /\ jobs \in [Jobs -> JobRow]
      /\ w.pc # "idle" => w.job \in 1 .. inserted
  BY DEF IInv, TypeOK, WorkerConsistent, RowsMatch
<1>1. ASSUME NEW h \in Handlers, NEW f \in Filters, StartInsert(h, f)
      PROVE  [Progress!PNext]_(Progress!pvars)
  <2> DEFINE new == [NoRow EXCEPT !.state = "running", !.filters = f]
  <2>1. \/ UNCHANGED <<jobs, inserted>>
        \/ /\ Running = {} /\ inserted # MaxJobs /\ inserted' = inserted + 1
           /\ jobs' = [jobs EXCEPT ![inserted + 1] = new]
    BY <1>1 DEF StartInsert, table
  <2>2. CASE /\ Running = {} /\ inserted # MaxJobs /\ inserted' = inserted + 1
             /\ jobs' = [jobs EXCEPT ![inserted + 1] = new]
    <3>1. inserted + 1 \in Jobs /\ jobs[inserted + 1] = NoRow
      BY <1>0, <2>2 DEF IInv, WorkerConsistent, RowsMatch
    <3>2. /\ new.filters = f /\ new.processed = NoRow.processed
          /\ new.last = NoRow.last /\ new.state = "running"
      BY DEF NoRow
    <3> HIDE DEF new
    <3>3. \A i \in Jobs : jobs'[i] = IF i = inserted + 1 THEN new ELSE jobs[i]
      BY <1>0, <2>2
    <3>4. Running' = {inserted + 1}
      BY <2>2, <3>1, <3>2, <3>3 DEF Running
    <3>5. /\ [i \in Jobs |-> jobs[i].filters]' =
               [[i \in Jobs |-> jobs[i].filters] EXCEPT ![inserted + 1] = f]
          /\ [i \in Jobs |-> jobs[i].processed]' = [i \in Jobs |-> jobs[i].processed]
          /\ [i \in Jobs |-> jobs[i].last]' = [i \in Jobs |-> jobs[i].last]
      BY <3>1, <3>2, <3>3
    <3>6. Progress!Open(f)
      BY <2>2, <3>1, <3>4, <3>5 DEF Progress!Open
    <3> QED BY <3>6 DEF Progress!PNext
  <2> QED BY <2>1, <2>2, ViewUnchanged
<1>2. CASE IncrementProgress
  <2> DEFINE j == w.job
             new == [jobs[j] EXCEPT !.processed = @ + 1, !.last = NameOf[w.route]]
  <2>0. w.pc = "stamp" /\ j \in 1 .. inserted /\ j \in Jobs
    BY <1>0, <1>2 DEF IncrementProgress
  <2>1. /\ w.pc = "stamp" /\ j \in Jobs /\ inserted' = inserted
        /\ jobs' = [jobs EXCEPT ![j] = new] \/ UNCHANGED jobs
    BY <2>0, <1>2 DEF IncrementProgress
  <2>2. CASE UNCHANGED jobs
    BY <2>1, <2>2, ViewUnchanged
  <2>3. CASE jobs' = [jobs EXCEPT ![j] = new]
    <3>1. /\ w.route \in jobs[j].filters.routes
          /\ NotBehind(jobs[j].filters, jobs[j].last, w.route)
          /\ jobs[j].filters.max > 0 => jobs[j].processed < jobs[j].filters.max
      BY <2>1 DEF IInv, WorkerConsistent, RouteAhead, WalkingPcs
    <3>2. /\ jobs[j] \in JobRow
          /\ jobs[j].processed \in Nat
          /\ jobs[j].filters \in [routes : SUBSET Routes, newest : BOOLEAN, max : Nat]
      BY <1>0, <2>1, FiltersType
    <3>3. /\ new.filters = jobs[j].filters /\ new.state = jobs[j].state
          /\ new.last = NameOf[w.route] /\ new.processed = jobs[j].processed + 1
      BY <3>2 DEF JobRow
    <3> HIDE DEF new
    <3>4. \A i \in Jobs : jobs'[i] = IF i = j THEN new ELSE jobs[i]
      BY <1>0, <2>1, <2>3
    <3>9. \A i \in Jobs :
            /\ jobs'[i].filters = jobs[i].filters /\ jobs'[i].state = jobs[i].state
            /\ jobs'[i].processed = IF i = j THEN jobs[j].processed + 1
                                             ELSE jobs[i].processed
            /\ jobs'[i].last = IF i = j THEN NameOf[w.route] ELSE jobs[i].last
      BY <3>3, <3>4
    <3>5. Running' = Running
      BY <3>9 DEF Running
    <3>6. /\ [i \in Jobs |-> jobs[i].filters]' = [i \in Jobs |-> jobs[i].filters]
          /\ [i \in Jobs |-> jobs[i].processed]' =
               [[i \in Jobs |-> jobs[i].processed] EXCEPT ![j] = @ + 1]
          /\ [i \in Jobs |-> jobs[i].last]' =
               [[i \in Jobs |-> jobs[i].last] EXCEPT ![j] = NameOf[w.route]]
      BY <2>1, <3>9
    <3>7. w.route \in Routes /\ (jobs[j].filters.max = 0
                                 \/ jobs[j].processed < jobs[j].filters.max)
      BY <3>1, <3>2
    <3>8. PICK i \in Jobs, r \in Routes : i = j /\ r = w.route
      BY <2>1, <3>7
    <3>10. Progress!Advance(i, r)
      BY <2>1, <3>1, <3>5, <3>6, <3>7, <3>8
         DEF Progress!Advance, Progress!NotBehind, NotBehind
    <3> QED BY <3>8, <3>10 DEF Progress!PNext
  <2> QED BY <2>1, <2>2, <2>3
<1>3. CASE WorkerSetState
  <2>1. /\ w.job \in 1 .. inserted /\ inserted' = inserted
        /\ w.target \in {"paused", "done", "failed"}
    BY <1>0, <1>3 DEF WorkerSetState, IInv, WorkerConsistent, RowsMatch
  <2>2. CASE UNCHANGED jobs
    BY <2>1, <2>2, ViewUnchanged
  <2>3. CASE SetState(w.job, w.target, FALSE)
    BY <2>1, <2>3, SetStateView
  <2> QED BY <1>3, <2>2, <2>3 DEF WorkerSetState
<1>4. ASSUME NEW h \in Handlers, PauseWrite(h) \/ ResumeWrite(h) \/ CancelWrite(h)
      PROVE  [Progress!PNext]_(Progress!pvars)
  <2>1. handler[h].job \in 1 .. inserted /\ inserted' = inserted
    BY <1>4 DEF PauseWrite, ResumeWrite, CancelWrite, IInv, WorkerConsistent, RowsMatch
  <2>2. CASE UNCHANGED jobs
    BY <2>1, <2>2, ViewUnchanged
  <2>3. CASE PauseWrite(h)
    BY <2>1, <2>3, SetStateView DEF PauseWrite
  <2>4. CASE ResumeWrite(h) /\ ~UNCHANGED jobs
    BY <2>1, <2>4, SetStateView DEF ResumeWrite, UniqueViolation
  <2>5. CASE CancelWrite(h)
    BY <2>1, <2>5, SetStateView DEF CancelWrite
  <2> QED BY <1>4, <2>2, <2>3, <2>4, <2>5
<1>5. CASE Worker /\ ~IncrementProgress /\ ~WorkerSetState
  BY <1>5, ViewUnchanged
     DEF Worker, RunOnce, Gate, Reread, RereadGate, FetchRouteBatch, MidBatch,
         BatchDone, MidGateFails, StartRoute, SegmentCheck, ReadProgress,
         ProcessSegment, MarkExtractorProcessed, AlprGate, ReadRow, OnlyWorker, table
<1>6. ASSUME NEW h \in Handlers,
             StartCheck(h) \/ PauseRead(h) \/ ResumeRead(h) \/ CancelRead(h)
             \/ RequestFails(h)
      PROVE  [Progress!PNext]_(Progress!pvars)
  BY <1>6, ViewUnchanged
     DEF StartCheck, PauseRead, ResumeRead, CancelRead, RequestFails, Begin, table
<1>7. CASE ToggleEnabled \/ LiveExtract \/ Crash \/ UNCHANGED vars
  BY <1>7, ViewUnchanged DEF ToggleEnabled, LiveExtract, Crash, vars, table
<1> QED BY <1>1, <1>2, <1>3, <1>4, <1>5, <1>6, <1>7 DEF Next, Api

\* Requests, worker, failures and restarts together only ever advance a job
\* the way BackfillProgress allows.
THEOREM BackfillImplements == Spec => ImplementsProgress
<1>1. Init => Progress!PInit
  <2> SUFFICES ASSUME Init PROVE Progress!PInit
    OBVIOUS
  <2>1. \A j \in Jobs : /\ jobs[j].filters = NoFilter /\ jobs[j].processed = 0
                        /\ jobs[j].last = 0 /\ jobs[j].state = "absent"
    BY DEF Init, NoRow
  <2> QED BY <2>1 DEF Init, Progress!PInit, Running
<1>2. IInv /\ [Next]_vars => [Progress!PNext]_(Progress!pvars)
  BY ProgressStep
<1> QED BY <1>1, <1>2, BackfillInductive, PTL DEF Spec, ImplementsProgress, Progress!PSpec

=============================================================================
