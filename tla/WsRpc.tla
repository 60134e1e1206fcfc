------------------------------- MODULE WsRpc --------------------------------
(***************************************************************************)
(* Calls from the server to a device over its connection: RPCCaller in      *)
(* internal/ws/methods.go, the send channel and the response branch of      *)
(* handleMessage in internal/ws/client.go, on top of WsHub.  One RPCCaller  *)
(* serves every connection, and an answer is matched to its call by the     *)
(* request id alone.                                                        *)
(*                                                                         *)
(* A call is known by the position it got in the order of all calls, its    *)
(* request by <<id, position>>; the id is all that the code compares.       *)
(***************************************************************************)
EXTENDS WsHub, Sequences

CONSTANTS
    Callers,        \* goroutines that call devices
    SendCap,        \* sendChSize
    MaxCalls,       \* bound: calls ever made
    MaxAnswers      \* bound: answers devices ever send

ASSUME RpcAssumption == SendCap \in Nat /\ MaxCalls \in Nat /\ MaxAnswers \in Nat

VARIABLES
    call,       \* per caller: progress of doCall, connection, id, position
    nextID,     \* RPCCaller.nextID
    pending,    \* RPCCaller.pending: <<id, position>>
    ch,         \* per call: the position of the answer in pendingCall.ch, or 0
    sendCh,     \* per connection: Client.sendCh
    received,   \* per device: requests that reached it
    inbox,      \* per connection: answers on their way to readPump
    delivery,   \* per connection: HandleResponse between lookup and send
    answers     \* the bounded counter

rpcVars == <<call, nextID, pending, ch, sendCh, received, inbox, delivery, answers>>
vars    == <<hubVars, rpcVars>>

Calls    == 1 .. MaxCalls
Requests == Calls \X Calls
NoCall   == [pc |-> "idle", conn |-> NoConn, id |-> 0, n |-> 0]

CallPcs == {"idle", "insert", "send", "select", "delete"}
CallRec == [pc : CallPcs, conn : MaybeConn, id : 0 .. MaxCalls, n : 0 .. MaxCalls]

RpcInit ==
    /\ Init
    /\ call     = [k \in Callers |-> NoCall]
    /\ nextID   = 0
    /\ pending  = {}
    /\ ch       = [n \in Calls |-> 0]
    /\ sendCh   = [c \in Conns |-> <<>>]
    /\ received = [d \in Devices |-> {}]
    /\ inbox    = [c \in Conns |-> {}]
    /\ delivery = [c \in Conns |-> {}]
    /\ answers  = 0

-----------------------------------------------------------------------------
(* The caller: GetClient, then doCall.                                     *)

At(k, from) == call[k].pc = from
Then(k, to)   == call' = [call EXCEPT ![k] = [@ EXCEPT !.pc = to]]

GetClient(k, d) ==
    /\ At(k, "idle") /\ clients[d] # NoConn
    /\ call' = [call EXCEPT ![k] =
                   [pc |-> "insert", conn |-> clients[d], id |-> 0, n |-> 0]]
    /\ UNCHANGED <<hubVars, nextID, pending, ch, sendCh, received, inbox, delivery, answers>>

RequestIdMutant == Cardinality(pending) + 1     \* the first number not in use

RequestId == nextID + 1

\* nextRequestID, and the entry in the pending table (under the lock).
InsertPending(k) ==
    /\ At(k, "insert") /\ nextID < MaxCalls
    /\ nextID' = nextID + 1
    /\ pending' = {p \in pending : p[1] # RequestId} \cup {<<RequestId, nextID + 1>>}
    /\ call' = [call EXCEPT ![k] = [pc |-> "send", conn |-> @.conn,
                                    id |-> RequestId, n |-> nextID + 1]]
    /\ UNCHANGED <<hubVars, ch, sendCh, received, inbox, delivery, answers>>

HasRoom(c) == Len(sendCh[c]) < SendCap

\* SendRPCRequest: into the send channel, or dropped when it is full.
SendRPCRequest(k) ==
    /\ At(k, "send")
    /\ LET c == call[k].conn IN
       sendCh' = IF HasRoom(c)
                 THEN [sendCh EXCEPT ![c] = Append(@, <<call[k].id, call[k].n>>)]
                 ELSE sendCh
    /\ Then(k, "select")
    /\ UNCHANGED <<hubVars, nextID, pending, ch, received, inbox, delivery, answers>>

SelectMutant(k) ==                 \* waits for the answer or the hang-up only
    /\ At(k, "select")
    /\ ch[call[k].n] # 0 \/ done[call[k].conn]
    /\ Then(k, "delete")
    /\ UNCHANGED <<hubVars, nextID, pending, ch, sendCh, received, inbox, delivery, answers>>

\* The select of doCall: the answer (taken out of the channel), the timeout,
\* or the end of the connection, whichever is found ready.
Select(k) ==
    /\ At(k, "select")
    /\ \/ ch[call[k].n] # 0 /\ ch' = [ch EXCEPT ![call[k].n] = 0]
       \/ UNCHANGED ch      \* time.After, or done
    /\ Then(k, "delete")
    /\ UNCHANGED <<hubVars, nextID, pending, sendCh, received, inbox, delivery, answers>>

DeletePendingMutant(k) ==          \* only the answered call is deleted
    /\ At(k, "delete")
    /\ pending' = IF done[call[k].conn] THEN pending
                  ELSE {p \in pending : p[1] # call[k].id}
    /\ call' = [call EXCEPT ![k] = NoCall]
    /\ UNCHANGED <<hubVars, nextID, ch, sendCh, received, inbox, delivery, answers>>

\* The deferred delete, on every way out.
DeletePending(k) ==
    /\ At(k, "delete")
    /\ pending' = {p \in pending : p[1] # call[k].id}
    /\ call' = [call EXCEPT ![k] = NoCall]
    /\ UNCHANGED <<hubVars, nextID, ch, sendCh, received, inbox, delivery, answers>>

Caller(k) == InsertPending(k) \/ SendRPCRequest(k) \/ Select(k) \/ DeletePending(k)

-----------------------------------------------------------------------------
(* The pumps and the device.                                               *)

\* writePump sends the head of the channel.  A write that fails is
\* WriteFails; a write that succeeds can still be lost with the connection.
WriteMessage(c) ==
    /\ writer[c] = "writing" /\ ~done[c] /\ sendCh[c] # <<>>
    /\ sendCh' = [sendCh EXCEPT ![c] = Tail(@)]
    /\ received' = [received EXCEPT ![DongleOf[c]] = @ \cup {Head(sendCh[c])}]
    /\ UNCHANGED <<hubVars, call, nextID, pending, ch, inbox, delivery, answers>>

\* The device answers a request it received on this or an earlier
\* connection, late, again or never.
DeviceAnswers(c, m) ==
    /\ pc[c] = "reading" /\ ~done[c] /\ answers < MaxAnswers
    /\ m \in received[DongleOf[c]]
    /\ inbox' = [inbox EXCEPT ![c] = @ \cup {m}]
    /\ answers' = answers + 1
    /\ UNCHANGED <<hubVars, call, nextID, pending, ch, sendCh, received, delivery>>

\* HandleResponse, under the lock: <<call found, call answered>>.
LookUp(c, m) ==
    /\ pc[c] = "reading" /\ delivery[c] = {} /\ m \in inbox[c]
    /\ inbox' = [inbox EXCEPT ![c] = @ \ {m}]
    /\ delivery' = [delivery EXCEPT ![c] = {<<p[2], m[2]>> : p \in {q \in pending : q[1] = m[1]}}]
    /\ UNCHANGED <<hubVars, call, nextID, pending, ch, sendCh, received, answers>>

DeliverMutant(c) ==                \* a blocking send
    /\ \E m \in delivery[c] : ch[m[1]] = 0 /\ ch' = [ch EXCEPT ![m[1]] = m[2]]
    /\ delivery' = [delivery EXCEPT ![c] = {}]
    /\ UNCHANGED <<hubVars, call, nextID, pending, sendCh, received, inbox, answers>>

\* The non-blocking send into the buffered channel of the call found.
Deliver(c) ==
    /\ \E m \in delivery[c] :
          ch' = IF ch[m[1]] = 0 THEN [ch EXCEPT ![m[1]] = m[2]] ELSE ch
    /\ delivery' = [delivery EXCEPT ![c] = {}]
    /\ UNCHANGED <<hubVars, call, nextID, pending, sendCh, received, inbox, answers>>

\* The connections come and go as in WsHub; a read pump that is inside
\* HandleResponse does not read.
Connection(c) ==
    /\ Serve(c) \/ Write(c) \/ Network(c) \/ (delivery[c] = {} /\ ReadFails(c))
    /\ UNCHANGED rpcVars

RpcNext ==
    \/ \E k \in Callers : Caller(k) \/ \E d \in Devices : GetClient(k, d)
    \/ \E c \in Conns :
          \/ Connection(c) \/ WriteMessage(c) \/ Deliver(c)
          \/ \E m \in Requests : DeviceAnswers(c, m) \/ LookUp(c, m)

RpcSpec == RpcInit /\ [][RpcNext]_vars

\* The connections are served as in WsHub, callers and readers are scheduled
\* and time.After fires.  The device owes nothing.
RpcFairSpec ==
    /\ RpcSpec
    /\ \A k \in Callers : WF_vars(SendRPCRequest(k) \/ Select(k) \/ DeletePending(k))
    /\ \A c \in Conns : /\ WF_vars(Serve(c) /\ UNCHANGED rpcVars)
                        /\ WF_vars(Write(c) /\ UNCHANGED rpcVars)
                        /\ WF_vars(done[c] /\ delivery[c] = {} /\ ReadFails(c) /\ UNCHANGED rpcVars)
                        /\ WF_vars(Deliver(c))

-----------------------------------------------------------------------------
(* Properties.                                                             *)

\* The Go types of the caller's locals, the table and the channels; a send
\* channel holds at most sendChSize messages and a reader one response.
RpcTypeOK ==
    /\ call \in [Callers -> CallRec]
    /\ nextID \in 0 .. MaxCalls
    /\ pending \subseteq Requests
    /\ ch \in [Calls -> 0 .. MaxCalls]
    /\ sendCh \in [Conns -> Seq(Requests)]
    /\ received \in [Devices -> SUBSET Requests]
    /\ inbox \in [Conns -> SUBSET Requests]
    /\ delivery \in [Conns -> SUBSET Requests]
    /\ answers \in 0 .. MaxAnswers
    /\ \A c \in Conns : Len(sendCh[c]) <= SendCap

\* A call is only ever given the answer to its own request, however late or
\* often the device answers and over whichever connection (ids are never
\* used again while the server runs).
AnswerIsOwn == \A n \in Calls : ch[n] \in {0, n}

\* The pending table holds exactly the calls that are under way: a timeout
\* or a lost connection leaves no entry behind and no call without one.
PendingExact ==
    pending = {<<call[k].id, call[k].n>> :
                  k \in {x \in Callers : call[x].pc \in {"send", "select", "delete"}}}

\* A device that answers twice, or after the caller has left, does not hold
\* up the read pump of its connection.
ReaderNotHeldUp == \A c \in Conns : delivery[c] # {} ~> delivery[c] = {}

\* Every call returns, also when its request was dropped because the send
\* channel was full.
CallReturns == \A k \in Callers : call[k].pc = "send" ~> call[k].pc = "idle"

\* What makes AnswerIsOwn inductive: a request is identified by its id
\* wherever it is.
OwnId(S) == \A m \in S : m[1] = m[2] /\ m[1] <= nextID

IdsAreOwn ==
    /\ OwnId(pending)
    /\ \A c \in Conns : /\ \A i \in 1 .. Len(sendCh[c]) : OwnId({sendCh[c][i]})
                        /\ OwnId(inbox[c]) /\ OwnId(delivery[c])
    /\ \A d \in Devices : OwnId(received[d])
    /\ \A k \in Callers : call[k].id = call[k].n /\ call[k].id <= nextID
    /\ \A k, j \in Callers : call[k].id = call[j].id => call[k].id = 0 \/ k = j
    /\ \A k \in Callers : call[k].pc \in {"send", "select", "delete"} <=> call[k].id # 0
    /\ \A k \in Callers : call[k].pc # "idle" => call[k].conn \in Conns

RpcInv == RpcTypeOK /\ AnswerIsOwn /\ PendingExact /\ IdsAreOwn
=============================================================================
