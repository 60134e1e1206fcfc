---------------------------- MODULE WsRpc_proofs ----------------------------
(***************************************************************************)
(* For any number of devices, connections, callers and calls: the hub's    *)
(* entry for a device is the connection that registered last, and whatever *)
(* it replaced is closed or about to be; a call only ever gets the answer  *)
(* to its own request, and the pending table is exact.  The hub underneath *)
(* the calls behaves as WsHub, whatever the callers do.                    *)
(***************************************************************************)
EXTENDS WsRpc, FiniteSetTheorems, TLAPS

-----------------------------------------------------------------------------
(* The hub. *)


\* The size of the client map is a number.
LEMMA SizeType == \A m : Size(m) \in Nat
<1> SUFFICES ASSUME NEW m PROVE Size(m) \in Nat
  OBVIOUS
<1> DEFINE S == {d \in Devices : m[d] # NoConn}
<1>1. IsFiniteSet(S)
  <2>1. S \subseteq Devices
    OBVIOUS
  <2> QED BY <2>1, HubAssumption, FS_Subset
<1> QED BY <1>1, FS_CardinalityType DEF Size

\* The invariant holds before any connection is made.
LEMMA HubInitInv == Init => HubInv
<1> SUFFICES ASSUME Init PROVE HubInv
  OBVIOUS
<1> USE HubAssumption DEF Init
<1>1. TypeOK
  BY DEF TypeOK, MaybeConn, Pcs
<1>2. EntryIsNewest
  BY DEF EntryIsNewest
<1>3. SupersededIsClosing
  BY DEF SupersededIsClosing, Registered
<1>4. ExistingIsOld
  BY DEF ExistingIsOld
<1> QED BY <1>1, <1>2, <1>3, <1>4 DEF HubInv

\* Register: the new connection becomes entry and newest at once, and holds
\* on to the one it replaced.
LEMMA RegisterInv ==
    ASSUME HubInv, NEW c \in Conns, Register(c)
    PROVE  HubInv'
<1> DEFINE d == DongleOf[c]
<1> USE HubAssumption DEF HubInv
<1>0. /\ d \in Devices
      /\ pc[c] = "new" /\ pc' = [pc EXCEPT ![c] = "supersede"]
      /\ existing' = [existing EXCEPT ![c] = clients[d]]
      /\ clients' = [clients EXCEPT ![d] = c]
      /\ latest' = [latest EXCEPT ![d] = c]
      /\ count' = [count EXCEPT ![c] = Size(clients')]
      /\ writer' = writer /\ done' = done /\ gauge' = gauge
  BY DEF Register, Goto
<1>1. TypeOK'
  BY <1>0, SizeType DEF TypeOK, MaybeConn, Pcs
<1>2. EntryIsNewest'
  <2> SUFFICES ASSUME NEW e \in Devices
               PROVE  clients'[e] = IF latest'[e] # NoConn /\ pc'[latest'[e]] \in Registered
                                    THEN latest'[e] ELSE NoConn
    BY DEF EntryIsNewest
  <2>1. CASE e = d
    BY <1>0, <2>1 DEF TypeOK, Registered
  <2>2. CASE e # d
    <3>1. clients'[e] = clients[e] /\ latest'[e] = latest[e]
      BY <1>0, <2>2 DEF TypeOK
    <3>2. latest[e] # NoConn => pc'[latest[e]] = pc[latest[e]]
      BY <1>0, <2>2 DEF ExistingIsOld, TypeOK, MaybeConn
    <3> QED BY <3>1, <3>2 DEF EntryIsNewest
  <2> QED BY <2>1, <2>2
<1>3. SupersededIsClosing'
  <2> SUFFICES ASSUME NEW x \in Conns, pc'[x] \in Registered, latest'[DongleOf[x]] # x
               PROVE  done'[x] \/ \E y \in Conns : pc'[y] = "supersede" /\ existing'[y] = x
    BY DEF SupersededIsClosing
  <2>1. x # c /\ pc[x] \in Registered
    BY <1>0 DEF TypeOK
  <2>2. CASE latest[DongleOf[x]] # x
    <3>1. done[x] \/ \E y \in Conns : pc[y] = "supersede" /\ existing[y] = x
      BY <2>1, <2>2 DEF SupersededIsClosing
    <3> QED BY <3>1, <1>0 DEF TypeOK
  <2>3. CASE latest[DongleOf[x]] = x
    <3>1. DongleOf[x] = d
      BY <1>0, <2>3 DEF TypeOK
    <3>2. clients[d] = x
      BY <3>1, <2>1, <2>3, <1>0 DEF EntryIsNewest
    <3> QED BY <3>2, <1>0 DEF TypeOK
  <2> QED BY <2>2, <2>3
<1>4. ExistingIsOld'
  <2>1. \A e \in Devices : latest'[e] # NoConn =>
            DongleOf[latest'[e]] = e /\ pc'[latest'[e]] # "new"
    BY <1>0 DEF ExistingIsOld, TypeOK, MaybeConn
  <2>2. clients[d] # NoConn => DongleOf[clients[d]] = d
    BY <1>0 DEF EntryIsNewest, ExistingIsOld
  <2>3. \A x \in Conns : existing'[x] # NoConn => DongleOf[existing'[x]] = DongleOf[x]
    BY <1>0, <2>2 DEF ExistingIsOld, TypeOK
  <2> QED BY <2>1, <2>3 DEF ExistingIsOld
<1> QED BY <1>1, <1>2, <1>3, <1>4 DEF HubInv

\* Everything a connection does besides entering and leaving the map.
LEMMA OtherStepsInv ==
    ASSUME HubInv, NEW c \in Conns,
           \/ CloseExisting(c) \/ RegisterGauge(c) \/ ReadFails(c)
           \/ UnregisterGauge(c) \/ ReaderCloses(c)
           \/ WriteFails(c) \/ WriterSeesDone(c) \/ WriterCloses(c)
    PROVE  HubInv'
<1> USE HubAssumption DEF HubInv
<1> USE DEF CloseExisting, RegisterGauge, ReadFails, UnregisterGauge, ReaderCloses,
            WriteFails, WriterSeesDone, WriterCloses, WriterStep, Goto, TypeOK
<1>0. /\ clients' = clients /\ existing' = existing /\ count' = count /\ latest' = latest
      /\ pc' \in [Conns -> Pcs] /\ writer' \in [Conns -> {"off", "writing", "closing"}]
      /\ gauge' \in Nat
  BY DEF Pcs
<1>d. done' \in [Conns -> BOOLEAN]
  <2>1. CASE CloseExisting(c)
    <3>1. done' = [x \in Conns |-> done[x] \/ x = existing[c]]
      BY <2>1
    <3>2. \A x \in Conns : (done[x] \/ x = existing[c]) \in BOOLEAN
      OBVIOUS
    <3> QED BY <3>1, <3>2, Zenon
  <2>2. CASE done' = done
    BY <2>2
  <2>3. CASE done' = [done EXCEPT ![c] = TRUE]
    BY <2>3
  <2> QED BY <2>1, <2>2, <2>3
<1>1. \A x \in Conns : /\ pc'[x] \in Registered <=> pc[x] \in Registered
                       /\ pc'[x] = "new" <=> pc[x] = "new"
                       /\ done[x] => done'[x]
  BY DEF Registered
<1>2. \A y \in Conns : pc[y] = "supersede" =>
          pc'[y] = "supersede" \/ (existing[y] \in Conns => done'[existing[y]])
  OBVIOUS
<1> HIDE DEF CloseExisting, RegisterGauge, ReadFails, UnregisterGauge, ReaderCloses,
             WriteFails, WriterSeesDone, WriterCloses, WriterStep, Goto, TypeOK
<1>3. TypeOK'
  BY <1>0, <1>d DEF TypeOK
<1>4. EntryIsNewest'
  <2> SUFFICES ASSUME NEW e \in Devices
               PROVE  clients[e] = IF latest[e] # NoConn /\ pc'[latest[e]] \in Registered
                                   THEN latest[e] ELSE NoConn
    BY <1>0 DEF EntryIsNewest
  <2>1. latest[e] \in Conns \/ latest[e] = NoConn
    BY DEF TypeOK, MaybeConn
  <2> QED BY <2>1, <1>1 DEF EntryIsNewest
<1>5. SupersededIsClosing'
  <2> SUFFICES ASSUME NEW x \in Conns, pc'[x] \in Registered, latest[DongleOf[x]] # x
               PROVE  done'[x] \/ \E y \in Conns : pc'[y] = "supersede" /\ existing[y] = x
    BY <1>0 DEF SupersededIsClosing
  <2>1. done[x] \/ \E y \in Conns : pc[y] = "supersede" /\ existing[y] = x
    BY <1>1 DEF SupersededIsClosing
  <2> QED BY <2>1, <1>1, <1>2
<1>6. ExistingIsOld'
  <2>1. \A e \in Devices : latest[e] # NoConn => latest[e] \in Conns
    BY DEF TypeOK, MaybeConn
  <2> QED BY <2>1, <1>0, <1>1 DEF ExistingIsOld
<1> QED BY <1>3, <1>4, <1>5, <1>6 DEF HubInv

\* Unregister: the entry goes only if it is still this connection.
LEMMA UnregisterInv ==
    ASSUME HubInv, NEW c \in Conns, Unregister(c)
    PROVE  HubInv'
<1> DEFINE d == DongleOf[c]
<1> USE HubAssumption DEF HubInv
<1>0. /\ d \in Devices
      /\ pc[c] = "unregister" /\ pc' = [pc EXCEPT ![c] = "unregGauge"]
      /\ clients' = [clients EXCEPT ![d] = IF @ = c THEN NoConn ELSE @]
      /\ count' = [count EXCEPT ![c] = Size(clients')]
      /\ writer' = writer /\ done' = done /\ gauge' = gauge
      /\ existing' = existing /\ latest' = latest
  BY DEF Unregister, Goto
<1>1. TypeOK'
  <2>1. clients' \in [Devices -> MaybeConn]
    BY <1>0 DEF TypeOK, MaybeConn
  <2>2. count' \in [Conns -> Nat]
    BY <1>0, SizeType DEF TypeOK
  <2> QED BY <1>0, <2>1, <2>2 DEF TypeOK, Pcs
<1>2. EntryIsNewest'
  <2> SUFFICES ASSUME NEW e \in Devices
               PROVE  clients'[e] = IF latest[e] # NoConn /\ pc'[latest[e]] \in Registered
                                    THEN latest[e] ELSE NoConn
    BY <1>0 DEF EntryIsNewest
  <2>1. clients[e] = IF latest[e] # NoConn /\ pc[latest[e]] \in Registered
                     THEN latest[e] ELSE NoConn
    BY DEF EntryIsNewest
  <2>2. latest[e] # NoConn => latest[e] \in Conns /\ DongleOf[latest[e]] = e
    BY DEF TypeOK, MaybeConn, ExistingIsOld
  <2>3. CASE latest[e] = c
    <3>1. e = d /\ clients[e] = c
      BY <2>1, <2>2, <2>3, <1>0 DEF Registered
    <3>2. clients'[e] = NoConn /\ pc'[c] \notin Registered
      BY <3>1, <1>0 DEF TypeOK, Registered
    <3> QED BY <3>2, <2>3
  <2>4. CASE latest[e] # c
    <3>1. clients[e] # c
      BY <2>1, <2>4, <1>0
    <3>2. clients'[e] = clients[e]
      BY <3>1, <1>0 DEF TypeOK
    <3>3. latest[e] # NoConn => pc'[latest[e]] = pc[latest[e]]
      BY <2>2, <2>4, <1>0 DEF TypeOK
    <3> QED BY <2>1, <3>2, <3>3
  <2> QED BY <2>3, <2>4
<1>3. SupersededIsClosing'
  <2> SUFFICES ASSUME NEW x \in Conns, pc'[x] \in Registered, latest[DongleOf[x]] # x
               PROVE  done[x] \/ \E y \in Conns : pc'[y] = "supersede" /\ existing[y] = x
    BY <1>0 DEF SupersededIsClosing
  <2>1. pc[x] \in Registered
    BY <1>0 DEF TypeOK, Registered
  <2>2. done[x] \/ \E y \in Conns : pc[y] = "supersede" /\ existing[y] = x
    BY <2>1 DEF SupersededIsClosing
  <2> QED BY <2>2, <1>0 DEF TypeOK
<1>4. ExistingIsOld'
  BY <1>0 DEF ExistingIsOld, TypeOK, MaybeConn
<1> QED BY <1>1, <1>2, <1>3, <1>4 DEF HubInv

\* Every step keeps the invariant.
LEMMA HubStepInv == HubInv /\ [Next]_hubVars => HubInv'
<1> SUFFICES ASSUME HubInv, [Next]_hubVars PROVE HubInv'
  OBVIOUS
<1>1. CASE UNCHANGED hubVars
  BY <1>1 DEF hubVars, HubInv, TypeOK, EntryIsNewest, SupersededIsClosing, ExistingIsOld
<1>2. CASE Next
  <2> PICK c \in Conns : Serve(c) \/ Write(c) \/ Network(c) \/ ReadFails(c)
    BY <1>2 DEF Next
  <2> QED BY RegisterInv, UnregisterInv, OtherStepsInv DEF Serve, Write, Network
<1> QED BY <1>1, <1>2

\* The types of the hub's map, locals and program counters hold for any
\* devices and connections.
THEOREM HubType == Spec => []TypeOK
<1>1. HubInv => TypeOK
  BY DEF HubInv
<1> QED BY <1>1, HubInitInv, HubStepInv, PTL DEF Spec

\* GetClient returns the connection that registered last, for as long as its
\* read pump has not unregistered it.
THEOREM HubEntryIsNewest == Spec => []EntryIsNewest
<1>1. HubInv => EntryIsNewest
  BY DEF HubInv
<1> QED BY <1>1, HubInitInv, HubStepInv, PTL DEF Spec

\* No connection is replaced without being closed.
THEOREM HubSupersededIsClosing == Spec => []SupersededIsClosing
<1>1. HubInv => SupersededIsClosing
  BY DEF HubInv
<1> QED BY <1>1, HubInitInv, HubStepInv, PTL DEF Spec

-----------------------------------------------------------------------------
(* The calls on top of it. *)


\* The calls do nothing to the hub that WsHub does not allow.
LEMMA RpcStepIsHubStep == [RpcNext]_vars => [Next]_hubVars
<1> SUFFICES ASSUME [RpcNext]_vars PROVE [Next]_hubVars
  OBVIOUS
<1>1. CASE UNCHANGED vars
  BY <1>1 DEF vars
<1>2. CASE \E k \in Callers : Caller(k) \/ \E d \in Devices : GetClient(k, d)
  BY <1>2 DEF Caller, GetClient, InsertPending, SendRPCRequest, Select, DeletePending
<1>3. ASSUME NEW c \in Conns, Connection(c) PROVE Next
  BY <1>3 DEF Connection, Next
<1>4. ASSUME NEW c \in Conns,
             \/ WriteMessage(c) \/ Deliver(c)
             \/ \E m \in Requests : DeviceAnswers(c, m) \/ LookUp(c, m)
      PROVE  UNCHANGED hubVars
  BY <1>4 DEF WriteMessage, Deliver, DeviceAnswers, LookUp
<1> QED BY <1>1, <1>2, <1>3, <1>4 DEF RpcNext

\* The server with its callers implements the hub on its own.
THEOREM RpcImplementsHub == RpcSpec => Spec
<1>1. RpcInit => Init
  BY DEF RpcInit
<1> QED BY <1>1, RpcStepIsHubStep, PTL DEF RpcSpec, Spec

-----------------------------------------------------------------------------
LEMMA RpcInitInv == RpcInit => RpcInv
<1> SUFFICES ASSUME RpcInit PROVE RpcInv
  OBVIOUS
<1> USE RpcAssumption, HubAssumption DEF RpcInit
<1>1. RpcTypeOK
  <2>1. NoCall \in CallRec
    BY DEF NoCall, CallRec, CallPcs, MaybeConn
  <2>2. \A c \in Conns : sendCh[c] = <<>> /\ sendCh[c] \in Seq(Requests) /\ Len(sendCh[c]) <= SendCap
    OBVIOUS
  <2>3. ch \in [Calls -> 0 .. MaxCalls] /\ nextID \in 0 .. MaxCalls /\ answers \in 0 .. MaxAnswers
    OBVIOUS
  <2> QED BY <2>1, <2>2, <2>3 DEF RpcTypeOK
<1>2. AnswerIsOwn
  BY DEF AnswerIsOwn
<1>3. PendingExact
  BY DEF PendingExact, NoCall
<1>4. IdsAreOwn
  BY DEF IdsAreOwn, OwnId, NoCall
<1> QED BY <1>1, <1>2, <1>3, <1>4 DEF RpcInv

\* GetClient: the caller takes note of the connection.
LEMMA GetClientInv ==
    ASSUME RpcInv, TypeOK, NEW k \in Callers, NEW d \in Devices, GetClient(k, d)
    PROVE  RpcInv'
<1> DEFINE row == [pc |-> "insert", conn |-> clients[d], id |-> 0, n |-> 0]
<1> USE RpcAssumption, HubAssumption DEF RpcInv
<1>0. /\ call[k].pc = "idle" /\ clients[d] \in Conns
      /\ call' = [call EXCEPT ![k] = row]
      /\ nextID' = nextID /\ pending' = pending /\ ch' = ch /\ sendCh' = sendCh
      /\ received' = received /\ inbox' = inbox /\ delivery' = delivery /\ answers' = answers
  BY DEF GetClient, At, TypeOK, MaybeConn
<1>1. /\ row \in CallRec
      /\ row.pc = "insert" /\ row.id = 0 /\ row.n = 0 /\ row.conn \in Conns
  BY <1>0 DEF CallRec, CallPcs, MaybeConn
<1> HIDE DEF row
<1>2. RpcTypeOK'
  BY <1>0, <1>1 DEF RpcTypeOK
<1>3. AnswerIsOwn'
  BY <1>0 DEF AnswerIsOwn
<1>4. \A x \in Callers : /\ x # k => call'[x] = call[x]
                         /\ call'[k].pc = "insert" /\ call'[k].id = 0 /\ call'[k].n = 0
                         /\ call'[k].conn \in Conns
  BY <1>0, <1>1 DEF RpcTypeOK
<1>5. PendingExact'
  <2>1. {x \in Callers : call'[x].pc \in {"send", "select", "delete"}}
          = {x \in Callers : call[x].pc \in {"send", "select", "delete"}}
    BY <1>0, <1>4
  <2> QED BY <1>0, <1>4, <2>1 DEF PendingExact
<1>6. IdsAreOwn'
  <2>1. call[k].id = 0
    BY <1>0 DEF IdsAreOwn
  <2> QED BY <1>0, <1>4, <2>1 DEF IdsAreOwn, OwnId
<1> QED BY <1>2, <1>3, <1>5, <1>6 DEF RpcInv

\* nextRequestID and the pending entry: an id nobody has.
LEMMA InsertPendingInv ==
    ASSUME RpcInv, NEW k \in Callers, InsertPending(k)
    PROVE  RpcInv'
<1> DEFINE i == nextID + 1
           row == [pc |-> "send", conn |-> call[k].conn, id |-> i, n |-> i]
<1> USE RpcAssumption, HubAssumption DEF RpcInv
<1>0. /\ call[k].pc = "insert" /\ nextID < MaxCalls
      /\ nextID' = i
      /\ pending' = {p \in pending : p[1] # i} \cup {<<i, i>>}
      /\ call' = [call EXCEPT ![k] = row]
      /\ ch' = ch /\ sendCh' = sendCh
      /\ received' = received /\ inbox' = inbox /\ delivery' = delivery /\ answers' = answers
  BY DEF InsertPending, At, RequestId
<1>1. i \in Calls /\ i \in 1 .. MaxCalls /\ nextID \in Nat
  BY <1>0 DEF RpcTypeOK, Calls
<1>r. /\ row \in CallRec
      /\ row.pc = "send" /\ row.id = i /\ row.n = i /\ row.conn = call[k].conn
  <2>1. call[k] \in CallRec
    BY DEF RpcTypeOK
  <2>2. call[k].conn \in MaybeConn
    BY <2>1 DEF CallRec
  <2> QED BY <1>1, <2>2 DEF CallRec, CallPcs
<1> HIDE DEF row
<1>2. /\ call'[k].pc = "send" /\ call'[k].id = i /\ call'[k].n = i
      /\ call'[k].conn = call[k].conn
      /\ \A x \in Callers : x # k => call'[x] = call[x]
      /\ call[k].id = 0
  BY <1>0, <1>r DEF RpcTypeOK, IdsAreOwn
<1>3. pending' = pending \cup {<<i, i>>}
  <2>1. \A p \in pending : p[1] # i
    BY <1>1 DEF IdsAreOwn, OwnId, RpcTypeOK, Requests, Calls
  <2> QED BY <1>0, <2>1
<1>4. RpcTypeOK'
  <2>1. call' \in [Callers -> CallRec]
    BY <1>0, <1>r DEF RpcTypeOK
  <2>2. pending' \subseteq Requests /\ nextID' \in 0 .. MaxCalls
    BY <1>0, <1>1, <1>3 DEF RpcTypeOK, Requests
  <2> QED BY <1>0, <2>1, <2>2 DEF RpcTypeOK
<1>5. AnswerIsOwn'
  BY <1>0 DEF AnswerIsOwn
<1>6. PendingExact'
  <2>1. {x \in Callers : call'[x].pc \in {"send", "select", "delete"}}
          = {x \in Callers : call[x].pc \in {"send", "select", "delete"}} \cup {k}
    BY <1>0, <1>2
  <2>2. k \notin {x \in Callers : call[x].pc \in {"send", "select", "delete"}}
    BY <1>0
  <2> QED BY <1>2, <1>3, <2>1, <2>2 DEF PendingExact
<1>7. IdsAreOwn'
  <2>1. OwnId(pending)'
    BY <1>0, <1>1, <1>3 DEF IdsAreOwn, OwnId, RpcTypeOK, Requests, Calls
  <2>2. \A c \in Conns : /\ \A j \in 1 .. Len(sendCh'[c]) : OwnId({sendCh[c][j]})'
                         /\ OwnId(inbox[c])' /\ OwnId(delivery[c])'
    <3> TAKE c \in Conns
    <3>1. \A j \in 1 .. Len(sendCh[c]) : sendCh[c][j] \in Requests
      BY DEF RpcTypeOK
    <3>2. inbox[c] \subseteq Requests /\ delivery[c] \subseteq Requests
      BY DEF RpcTypeOK
    <3> QED BY <1>0, <1>1, <3>1, <3>2 DEF IdsAreOwn, OwnId, Requests, Calls
  <2>3. \A e \in Devices : OwnId(received[e])'
    <3> TAKE e \in Devices
    <3>1. received[e] \subseteq Requests
      BY DEF RpcTypeOK
    <3> QED BY <1>0, <1>1, <3>1 DEF IdsAreOwn, OwnId, Requests, Calls
  <2>4. \A x \in Callers : call'[x].id = call'[x].n /\ call'[x].id <= nextID'
    <3> TAKE x \in Callers
    <3>1. call[x].id \in Nat /\ call[x].id = call[x].n /\ call[x].id <= nextID
      BY DEF RpcTypeOK, CallRec, IdsAreOwn
    <3>2. CASE x = k
      BY <1>0, <1>1, <1>2, <3>2
    <3>3. CASE x # k
      BY <1>0, <1>1, <1>2, <3>1, <3>3
    <3> QED BY <3>2, <3>3
  <2>5. \A x, y \in Callers : call'[x].id = call'[y].id => call'[x].id = 0 \/ x = y
    <3> TAKE x, y \in Callers
    <3>1. call[x].id \in Nat /\ call[y].id \in Nat
      BY DEF RpcTypeOK, CallRec
    <3> QED BY <1>1, <1>2, <3>1 DEF IdsAreOwn
  <2>6. \A x \in Callers : call'[x].pc \in {"send", "select", "delete"} <=> call'[x].id # 0
    BY <1>1, <1>2 DEF IdsAreOwn
  <2>7. \A x \in Callers : call'[x].pc # "idle" => call'[x].conn \in Conns
    BY <1>0, <1>2 DEF IdsAreOwn
  <2> QED BY <1>0, <2>1, <2>2, <2>3, <2>4, <2>5, <2>6, <2>7 DEF IdsAreOwn
<1> QED BY <1>4, <1>5, <1>6, <1>7 DEF RpcInv

\* A step that moves one caller on to another place inside doCall keeps
\* what is said about the callers.
LEMMA ThenInv ==
    ASSUME RpcInv, NEW k \in Callers, NEW from, NEW to \in {"select", "delete"},
           At(k, from), from \in {"send", "select"}, Then(k, to),
           nextID' = nextID, pending' = pending
    PROVE  /\ call' \in [Callers -> CallRec]
           /\ PendingExact'
           /\ \A x \in Callers : /\ call'[x].id = call[x].id /\ call'[x].n = call[x].n
                                 /\ call'[x].conn = call[x].conn
                                 /\ call'[x].pc # "idle" => call[x].pc # "idle"
                                 /\ call'[x].pc \in {"send", "select", "delete"}
                                      <=> call[x].pc \in {"send", "select", "delete"}
<1> DEFINE row == [call[k] EXCEPT !.pc = to]
<1> USE DEF RpcInv
<1>0. call[k] \in CallRec /\ call[k].pc = from /\ call' = [call EXCEPT ![k] = row]
  BY DEF RpcTypeOK, At, Then
<1>1. /\ row \in CallRec /\ row.pc = to
      /\ row.id = call[k].id /\ row.n = call[k].n /\ row.conn = call[k].conn
  BY <1>0 DEF CallRec, CallPcs
<1> HIDE DEF row
<1>2. call' \in [Callers -> CallRec]
  BY <1>0, <1>1 DEF RpcTypeOK
<1>3. \A x \in Callers : call'[x] = IF x = k THEN row ELSE call[x]
  BY <1>0 DEF RpcTypeOK
<1>4. \A x \in Callers : /\ call'[x].id = call[x].id /\ call'[x].n = call[x].n
                         /\ call'[x].conn = call[x].conn
                         /\ call'[x].pc # "idle" => call[x].pc # "idle"
                         /\ call'[x].pc \in {"send", "select", "delete"}
                              <=> call[x].pc \in {"send", "select", "delete"}
  BY <1>0, <1>1, <1>3
<1>5. {x \in Callers : call'[x].pc \in {"send", "select", "delete"}}
        = {x \in Callers : call[x].pc \in {"send", "select", "delete"}}
  BY <1>4
<1>6. PendingExact'
  BY <1>4, <1>5 DEF PendingExact
<1> QED BY <1>2, <1>4, <1>6

\* SendRPCRequest appends the caller's own request, if there is room.
LEMMA SendRPCRequestInv ==
    ASSUME RpcInv, NEW k \in Callers, SendRPCRequest(k)
    PROVE  RpcInv'
<1> DEFINE c == call[k].conn
           m == <<call[k].id, call[k].n>>
<1> USE RpcAssumption, HubAssumption DEF RpcInv
<1>0. /\ call[k].pc = "send" /\ At(k, "send") /\ Then(k, "select")
      /\ sendCh' = IF HasRoom(c) THEN [sendCh EXCEPT ![c] = Append(@, m)] ELSE sendCh
      /\ nextID' = nextID /\ pending' = pending /\ ch' = ch
      /\ received' = received /\ inbox' = inbox /\ delivery' = delivery /\ answers' = answers
  BY DEF SendRPCRequest, At
<1>1. /\ call' \in [Callers -> CallRec]
      /\ PendingExact'
      /\ \A x \in Callers : /\ call'[x].id = call[x].id /\ call'[x].n = call[x].n
                            /\ call'[x].conn = call[x].conn
                            /\ call'[x].pc # "idle" => call[x].pc # "idle"
                            /\ call'[x].pc \in {"send", "select", "delete"}
                                 <=> call[x].pc \in {"send", "select", "delete"}
  BY <1>0, ThenInv
<1>2. c \in Conns /\ m \in Requests /\ m[1] = m[2] /\ m[1] <= nextID
  <2>1. call[k] \in CallRec
    BY DEF RpcTypeOK
  <2> QED BY <1>0, <2>1 DEF IdsAreOwn, CallRec, Requests, Calls
<1> HIDE DEF c, m
<1>3. \A x \in Conns : sendCh[x] \in Seq(Requests) /\ Len(sendCh[x]) \in Nat
  BY DEF RpcTypeOK
<1>4. \A x \in Conns :
        \/ sendCh'[x] = sendCh[x]
        \/ sendCh'[x] = Append(sendCh[x], m) /\ Len(sendCh[x]) < SendCap
  BY <1>0, <1>2 DEF RpcTypeOK, HasRoom
<1>5. \A x \in Conns : /\ sendCh'[x] \in Seq(Requests) /\ Len(sendCh'[x]) <= SendCap
                       /\ \A i \in 1 .. Len(sendCh'[x]) : OwnId({sendCh'[x][i]})
  <2> TAKE x \in Conns
  <2>1. CASE sendCh'[x] = sendCh[x]
    BY <2>1 DEF RpcTypeOK, IdsAreOwn
  <2>2. CASE sendCh'[x] = Append(sendCh[x], m) /\ Len(sendCh[x]) < SendCap
    <3>1. sendCh'[x] \in Seq(Requests) /\ Len(sendCh'[x]) = Len(sendCh[x]) + 1
      BY <1>2, <1>3, <2>2
    <3>2. \A i \in 1 .. Len(sendCh'[x]) :
             sendCh'[x][i] = IF i <= Len(sendCh[x]) THEN sendCh[x][i] ELSE m
      BY <1>2, <1>3, <2>2
    <3>3. \A i \in 1 .. Len(sendCh'[x]) : OwnId({sendCh'[x][i]})
      <4> TAKE i \in 1 .. Len(sendCh'[x])
      <4>1. CASE i <= Len(sendCh[x])
        BY <1>3, <3>1, <3>2, <4>1 DEF IdsAreOwn
      <4>2. CASE ~(i <= Len(sendCh[x]))
        BY <1>2, <3>2, <4>2 DEF OwnId
      <4> QED BY <4>1, <4>2
    <3> QED BY <1>3, <2>2, <3>1, <3>3
  <2> QED BY <1>4, <2>1, <2>2
<1>6. RpcTypeOK'
  <2>1. sendCh' \in [Conns -> Seq(Requests)]
    <3>1. CASE HasRoom(c)
      <4>1. Append(sendCh[c], m) \in Seq(Requests)
        BY <1>2, <1>3
      <4> QED BY <1>0, <3>1, <4>1 DEF RpcTypeOK
    <3>2. CASE ~HasRoom(c)
      BY <1>0, <3>2 DEF RpcTypeOK
    <3> QED BY <3>1, <3>2
  <2> QED BY <1>0, <1>1, <1>5, <2>1 DEF RpcTypeOK
<1>7. AnswerIsOwn'
  BY <1>0 DEF AnswerIsOwn
<1>8. IdsAreOwn'
  BY <1>0, <1>1, <1>5 DEF IdsAreOwn, OwnId
<1> QED BY <1>1, <1>6, <1>7, <1>8 DEF RpcInv

\* The select takes the answer, the timeout or the end of the connection.
LEMMA SelectInv ==
    ASSUME RpcInv, NEW k \in Callers, Select(k)
    PROVE  RpcInv'
<1> USE RpcAssumption, HubAssumption DEF RpcInv
<1>0. /\ At(k, "select") /\ Then(k, "delete")
      /\ ch' = ch \/ ch' = [ch EXCEPT ![call[k].n] = 0]
      /\ nextID' = nextID /\ pending' = pending /\ sendCh' = sendCh
      /\ received' = received /\ inbox' = inbox /\ delivery' = delivery /\ answers' = answers
  BY DEF Select
<1>1. /\ call' \in [Callers -> CallRec]
      /\ PendingExact'
      /\ \A x \in Callers : /\ call'[x].id = call[x].id /\ call'[x].n = call[x].n
                            /\ call'[x].conn = call[x].conn
                            /\ call'[x].pc # "idle" => call[x].pc # "idle"
                            /\ call'[x].pc \in {"send", "select", "delete"}
                                 <=> call[x].pc \in {"send", "select", "delete"}
  BY <1>0, ThenInv
<1>2. /\ ch' \in [Calls -> 0 .. MaxCalls]
      /\ \A n \in Calls : ch'[n] = ch[n] \/ ch'[n] = 0
  <2>1. ch \in [Calls -> 0 .. MaxCalls] /\ 0 \in 0 .. MaxCalls
    BY DEF RpcTypeOK
  <2>2. CASE ch' = ch
    BY <2>1, <2>2
  <2>3. CASE ch' = [ch EXCEPT ![call[k].n] = 0]
    BY <2>1, <2>3
  <2> QED BY <1>0, <2>2, <2>3
<1>3. RpcTypeOK'
  BY <1>0, <1>1, <1>2 DEF RpcTypeOK
<1>4. AnswerIsOwn'
  BY <1>2 DEF AnswerIsOwn
<1>5. IdsAreOwn'
  BY <1>0, <1>1 DEF IdsAreOwn, OwnId
<1> QED BY <1>1, <1>3, <1>4, <1>5 DEF RpcInv

\* The deferred delete takes out the caller's own entry and no other.
LEMMA DeletePendingInv ==
    ASSUME RpcInv, NEW k \in Callers, DeletePending(k)
    PROVE  RpcInv'
<1> USE RpcAssumption, HubAssumption DEF RpcInv
<1>0. /\ call[k].pc = "delete"
      /\ pending' = {p \in pending : p[1] # call[k].id}
      /\ call' = [call EXCEPT ![k] = NoCall]
      /\ nextID' = nextID /\ ch' = ch /\ sendCh' = sendCh
      /\ received' = received /\ inbox' = inbox /\ delivery' = delivery /\ answers' = answers
  BY DEF DeletePending, At
<1>1. NoCall \in CallRec /\ NoCall.pc = "idle" /\ NoCall.id = 0 /\ NoCall.n = 0
  BY DEF NoCall, CallRec, CallPcs, MaybeConn
<1>2. \A x \in Callers : call'[x] = IF x = k THEN NoCall ELSE call[x]
  BY <1>0 DEF RpcTypeOK
<1>3. RpcTypeOK'
  BY <1>0, <1>1 DEF RpcTypeOK
<1>4. AnswerIsOwn'
  BY <1>0 DEF AnswerIsOwn
<1>5. PendingExact'
  <2> DEFINE U == {x \in Callers : call[x].pc \in {"send", "select", "delete"}}
             V == {x \in Callers : call'[x].pc \in {"send", "select", "delete"}}
  <2>1. V = U \ {k}
    BY <1>1, <1>2
  <2>2. k \in U
    BY <1>0
  <2>3. \A x \in U : call[x].id = call[k].id => x = k
    BY <2>2 DEF IdsAreOwn
  <2>4. pending = {<<call[x].id, call[x].n>> : x \in U}
    BY DEF PendingExact
  <2>5. pending' = {<<call[x].id, call[x].n>> : x \in U \ {k}}
    BY <1>0, <2>3, <2>4
  <2>6. pending' = {<<call'[x].id, call'[x].n>> : x \in V}
    BY <1>2, <2>1, <2>5
  <2> QED BY <2>6 DEF PendingExact
<1>6. IdsAreOwn'
  BY <1>0, <1>1, <1>2 DEF IdsAreOwn, OwnId, RpcTypeOK
<1> QED BY <1>3, <1>4, <1>5, <1>6 DEF RpcInv

\* writePump and the device move a request on, unchanged.
LEMMA DeviceInv ==
    ASSUME RpcInv, NEW c \in Conns,
           WriteMessage(c) \/ \E m \in Requests : DeviceAnswers(c, m)
    PROVE  RpcInv'
<1> USE RpcAssumption, HubAssumption DEF RpcInv
<1>0. /\ call' = call /\ nextID' = nextID /\ pending' = pending /\ ch' = ch
      /\ delivery' = delivery
  BY DEF WriteMessage, DeviceAnswers
<1>1. ASSUME WriteMessage(c) PROVE RpcTypeOK' /\ IdsAreOwn'
  <2> DEFINE m == Head(sendCh[c])
             e == DongleOf[c]
  <2>1. /\ sendCh[c] # <<>> /\ e \in Devices
        /\ sendCh' = [sendCh EXCEPT ![c] = Tail(@)]
        /\ received' = [received EXCEPT ![e] = @ \cup {m}]
        /\ inbox' = inbox /\ answers' = answers
    BY <1>1 DEF WriteMessage
  <2>2. /\ sendCh[c] \in Seq(Requests) /\ Len(sendCh[c]) \in Nat \ {0}
        /\ \A i \in 1 .. Len(sendCh[c]) : OwnId({sendCh[c][i]})
    BY <2>1 DEF RpcTypeOK, IdsAreOwn
  <2>3. m = sendCh[c][1] /\ m \in Requests /\ OwnId({m})
    BY <2>2
  <2>4. /\ Tail(sendCh[c]) \in Seq(Requests)
        /\ Len(Tail(sendCh[c])) = Len(sendCh[c]) - 1
        /\ \A i \in 1 .. Len(Tail(sendCh[c])) : Tail(sendCh[c])[i] = sendCh[c][i + 1]
    BY <2>1, <2>2
  <2>5. \A i \in 1 .. Len(Tail(sendCh[c])) : OwnId({Tail(sendCh[c])[i]})
    <3> TAKE i \in 1 .. Len(Tail(sendCh[c]))
    <3>1. i + 1 \in 1 .. Len(sendCh[c])
      BY <2>2, <2>4
    <3>2. Tail(sendCh[c])[i] = sendCh[c][i + 1]
      BY <2>4
    <3>3. OwnId({sendCh[c][i + 1]})
      BY <2>2, <3>1
    <3> QED BY <3>2, <3>3
  <2> HIDE DEF m, e
  <2>6. \A x \in Conns : /\ Len(sendCh'[x]) <= SendCap
                         /\ \A i \in 1 .. Len(sendCh'[x]) : OwnId({sendCh'[x][i]})
    <3> TAKE x \in Conns
    <3>1. CASE x = c
      <4>1. sendCh'[x] = Tail(sendCh[c])
        BY <2>1, <3>1 DEF RpcTypeOK
      <4>2. Len(sendCh[c]) <= SendCap
        BY DEF RpcTypeOK
      <4> QED BY <2>2, <2>4, <2>5, <4>1, <4>2
    <3>2. CASE x # c
      BY <2>1, <3>2 DEF RpcTypeOK, IdsAreOwn
    <3> QED BY <3>1, <3>2
  <2>7. RpcTypeOK'
    <3>1. sendCh' \in [Conns -> Seq(Requests)]
      BY <2>1, <2>4 DEF RpcTypeOK
    <3>2. received' \in [Devices -> SUBSET Requests]
      BY <2>1, <2>3 DEF RpcTypeOK
    <3> QED BY <1>0, <2>1, <2>6, <3>1, <3>2 DEF RpcTypeOK
  <2>8. \A x \in Devices : OwnId(received'[x])
    <3> TAKE x \in Devices
    <3>1. OwnId(received[x]) /\ received'[x] \subseteq received[x] \cup {m}
      BY <2>1 DEF RpcTypeOK, IdsAreOwn
    <3> QED BY <2>3, <3>1 DEF OwnId
  <2> QED BY <1>0, <2>1, <2>6, <2>7, <2>8 DEF IdsAreOwn, OwnId
<1>2. ASSUME NEW m \in Requests, DeviceAnswers(c, m) PROVE RpcTypeOK' /\ IdsAreOwn'
  <2>1. /\ m \in received[DongleOf[c]] /\ DongleOf[c] \in Devices
        /\ inbox' = [inbox EXCEPT ![c] = @ \cup {m}]
        /\ answers' = answers + 1 /\ answers < MaxAnswers
        /\ sendCh' = sendCh /\ received' = received
    BY <1>2 DEF DeviceAnswers
  <2>2. OwnId({m})
    BY <2>1 DEF IdsAreOwn, OwnId
  <2>3. \A x \in Conns : OwnId(inbox'[x])
    <3> TAKE x \in Conns
    <3>1. OwnId(inbox[x]) /\ inbox'[x] \subseteq inbox[x] \cup {m}
      BY <2>1 DEF RpcTypeOK, IdsAreOwn
    <3> QED BY <2>2, <3>1 DEF OwnId
  <2>4. RpcTypeOK'
    <3>1. inbox' \in [Conns -> SUBSET Requests] /\ answers' \in 0 .. MaxAnswers
      BY <2>1 DEF RpcTypeOK
    <3> QED BY <1>0, <2>1, <3>1 DEF RpcTypeOK
  <2> QED BY <1>0, <2>1, <2>3, <2>4 DEF IdsAreOwn, OwnId
<1>3. AnswerIsOwn' /\ PendingExact'
  BY <1>0 DEF AnswerIsOwn, PendingExact
<1> QED BY <1>1, <1>2, <1>3 DEF RpcInv

\* HandleResponse: the call found by its id is the call the answer is for,
\* so what goes into its channel is its own answer.
LEMMA HandleResponseInv ==
    ASSUME RpcInv, NEW c \in Conns,
           Deliver(c) \/ \E m \in Requests : LookUp(c, m)
    PROVE  RpcInv'
<1> USE RpcAssumption, HubAssumption DEF RpcInv
<1>0. /\ call' = call /\ nextID' = nextID /\ pending' = pending
      /\ sendCh' = sendCh /\ received' = received /\ answers' = answers
  BY DEF Deliver, LookUp
<1>1. PendingExact'
  BY <1>0 DEF PendingExact
<1>2. ASSUME Deliver(c) PROVE RpcTypeOK' /\ IdsAreOwn' /\ AnswerIsOwn'
  <2>1. PICK m \in delivery[c] :
           ch' = IF ch[m[1]] = 0 THEN [ch EXCEPT ![m[1]] = m[2]] ELSE ch
    BY <1>2 DEF Deliver
  <2>2. delivery' = [delivery EXCEPT ![c] = {}] /\ inbox' = inbox
    BY <1>2 DEF Deliver
  <2>3. m[1] = m[2] /\ m[1] \in Calls /\ m[2] \in 0 .. MaxCalls
    BY DEF IdsAreOwn, OwnId, RpcTypeOK, Requests, Calls
  <2>4. /\ ch' \in [Calls -> 0 .. MaxCalls]
        /\ \A n \in Calls : ch'[n] \in {0, n}
    BY <2>1, <2>3 DEF RpcTypeOK, AnswerIsOwn
  <2>5. delivery' \in [Conns -> SUBSET Requests]
    BY <2>2 DEF RpcTypeOK
  <2>6. \A x \in Conns : delivery'[x] \subseteq delivery[x]
    BY <2>2 DEF RpcTypeOK
  <2>7. RpcTypeOK'
    BY <1>0, <2>2, <2>4, <2>5 DEF RpcTypeOK
  <2>8. IdsAreOwn'
    BY <1>0, <2>2, <2>6 DEF IdsAreOwn, OwnId
  <2> QED BY <2>4, <2>7, <2>8 DEF AnswerIsOwn
<1>3. ASSUME NEW m \in Requests, LookUp(c, m)
      PROVE  RpcTypeOK' /\ IdsAreOwn' /\ AnswerIsOwn'
  <2> DEFINE hits == {<<p[2], m[2]>> : p \in {q \in pending : q[1] = m[1]}}
  <2>1. /\ m \in inbox[c] /\ ch' = ch
        /\ inbox' = [inbox EXCEPT ![c] = @ \ {m}]
        /\ delivery' = [delivery EXCEPT ![c] = hits]
    BY <1>3 DEF LookUp
  <2>2. m[1] = m[2] /\ m[1] <= nextID
    BY <2>1 DEF IdsAreOwn, OwnId
  <2>3. hits \subseteq {m}
    <3>1. \A q \in pending : q[1] = m[1] => q[2] = m[2]
      BY <2>2 DEF IdsAreOwn, OwnId
    <3>2. m = <<m[1], m[2]>>
      BY DEF Requests
    <3> QED BY <3>1, <3>2, <2>2
  <2> HIDE DEF hits
  <2>4. /\ inbox' \in [Conns -> SUBSET Requests] /\ delivery' \in [Conns -> SUBSET Requests]
        /\ \A x \in Conns : inbox'[x] \subseteq inbox[x]
        /\ \A x \in Conns : delivery'[x] \subseteq delivery[x] \cup {m}
    BY <2>1, <2>3 DEF RpcTypeOK
  <2>5. RpcTypeOK'
    BY <1>0, <2>1, <2>4 DEF RpcTypeOK
  <2>6. IdsAreOwn'
    BY <1>0, <2>2, <2>4 DEF IdsAreOwn, OwnId
  <2> QED BY <2>1, <2>5, <2>6 DEF AnswerIsOwn
<1> QED BY <1>1, <1>2, <1>3 DEF RpcInv

\* Every step keeps the invariant.
LEMMA RpcStepInv == RpcInv /\ TypeOK /\ [RpcNext]_vars => RpcInv'
<1> SUFFICES ASSUME RpcInv, TypeOK, [RpcNext]_vars PROVE RpcInv'
  OBVIOUS
<1>1. CASE UNCHANGED rpcVars
  BY <1>1 DEF rpcVars, RpcInv, RpcTypeOK, AnswerIsOwn, PendingExact, IdsAreOwn, OwnId
<1>2. ASSUME NEW k \in Callers, Caller(k) \/ \E d \in Devices : GetClient(k, d)
      PROVE  RpcInv'
  BY <1>2, GetClientInv, InsertPendingInv, SendRPCRequestInv, SelectInv, DeletePendingInv
     DEF Caller
<1>3. ASSUME NEW c \in Conns,
             \/ WriteMessage(c) \/ Deliver(c)
             \/ \E m \in Requests : DeviceAnswers(c, m) \/ LookUp(c, m)
      PROVE  RpcInv'
  BY <1>3, DeviceInv, HandleResponseInv
<1>4. ASSUME NEW c \in Conns, Connection(c) PROVE UNCHANGED rpcVars
  BY <1>4 DEF Connection
<1> QED BY <1>1, <1>2, <1>3, <1>4 DEF RpcNext, vars

\* A call only ever gets the answer to its own request.
THEOREM RpcAnswerIsOwn == RpcSpec => []AnswerIsOwn
<1>1. RpcInv => AnswerIsOwn
  BY DEF RpcInv
<1> QED BY <1>1, RpcInitInv, RpcStepInv, RpcImplementsHub, HubType, PTL DEF RpcSpec

\* The pending table holds exactly the calls under way.
THEOREM RpcPendingExact == RpcSpec => []PendingExact
<1>1. RpcInv => PendingExact
  BY DEF RpcInv
<1> QED BY <1>1, RpcInitInv, RpcStepInv, RpcImplementsHub, HubType, PTL DEF RpcSpec

\* The types of callers, table and channels, and the bound on the latter.
THEOREM RpcType == RpcSpec => []RpcTypeOK
<1>1. RpcInv => RpcTypeOK
  BY DEF RpcInv
<1> QED BY <1>1, RpcInitInv, RpcStepInv, RpcImplementsHub, HubType, PTL DEF RpcSpec
=============================================================================
