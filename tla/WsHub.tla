------------------------------- MODULE WsHub --------------------------------
(***************************************************************************)
(* The WebSocket hub (internal/ws/hub.go) and the goroutines that serve a   *)
(* connection (internal/ws/client.go, HandleWebSocket in handler.go).  The  *)
(* hub maps a dongle id to the one connection the rest of the server talks  *)
(* to.  The map is changed under the lock; the previous connection is       *)
(* closed, and the ws_connected_devices gauge is set, after the lock is     *)
(* given back, so both are actions of their own.                            *)
(*                                                                         *)
(* A connection is used once: Conns bounds the connections ever made.       *)
(* A definition named XMutant is X with a plausible bug, used only to show  *)
(* that a property can fail.                                                *)
(***************************************************************************)
EXTENDS Integers, FiniteSets

CONSTANTS
    Devices,    \* dongle ids
    Conns,      \* connections devices will ever open
    DongleOf,   \* the device that opens a connection
    NoConn

ASSUME HubAssumption ==
    /\ IsFiniteSet(Devices)
    /\ DongleOf \in [Conns -> Devices]
    /\ NoConn \notin Conns

VARIABLES
    clients,    \* Hub.clients
    pc,         \* per connection: HandleWebSocket up to Run, then readPump
    writer,     \* per connection: writePump
    existing,   \* Register's local: the entry it replaced
    count,      \* Register's and Unregister's local: the size they saw
    done,       \* Client.done is closed, and the socket with it
    gauge,      \* ws_connected_devices
    latest      \* history: the connection that registered last

hubVars == <<clients, pc, writer, existing, count, done, gauge, latest>>

Pcs == {"new", "supersede", "regGauge", "reading", "unregister",
        "unregGauge", "close", "gone"}

\* From Register to Unregister.
Registered == {"supersede", "regGauge", "reading", "unregister"}

MaybeConn == Conns \cup {NoConn}

Init ==
    /\ clients  = [d \in Devices |-> NoConn]
    /\ pc       = [c \in Conns |-> "new"]
    /\ writer   = [c \in Conns |-> "off"]
    /\ existing = [c \in Conns |-> NoConn]
    /\ count    = [c \in Conns |-> 0]
    /\ done     = [c \in Conns |-> FALSE]
    /\ gauge    = 0
    /\ latest   = [d \in Devices |-> NoConn]

\* len(h.clients)
Size(m) == Cardinality({d \in Devices : m[d] # NoConn})

Goto(c, from, to) == pc[c] = from /\ pc' = [pc EXCEPT ![c] = to]

-----------------------------------------------------------------------------
\* Register, under the lock: put the connection in, remember the old one.
Register(c) ==
    /\ Goto(c, "new", "supersede")
    /\ LET d == DongleOf[c] IN
       /\ existing' = [existing EXCEPT ![c] = clients[d]]
       /\ clients'  = [clients EXCEPT ![d] = c]
       /\ latest'   = [latest EXCEPT ![d] = c]
    /\ count' = [count EXCEPT ![c] = Size(clients')]
    /\ UNCHANGED <<writer, done, gauge>>

CloseExistingMutant(c) ==
    /\ Goto(c, "supersede", "regGauge")
    /\ UNCHANGED <<clients, writer, existing, count, done, gauge, latest>>

\* existing.Close(), after the lock.
CloseExisting(c) ==
    /\ Goto(c, "supersede", "regGauge")
    /\ done' = [x \in Conns |-> done[x] \/ x = existing[c]]
    /\ UNCHANGED <<clients, writer, existing, count, gauge, latest>>

\* SetConnectedDevices; HandleWebSocket goes on to Run, which starts both
\* pumps, also of a connection that was superseded meanwhile.
RegisterGauge(c) ==
    /\ Goto(c, "regGauge", "reading")
    /\ gauge' = count[c]
    /\ writer' = [writer EXCEPT ![c] = "writing"]
    /\ UNCHANGED <<clients, existing, count, done, latest>>

\* ReadMessage fails: the peer went away, no pong came in time, or the
\* socket was closed here.
ReadFails(c) ==
    /\ Goto(c, "reading", "unregister")
    /\ UNCHANGED <<clients, writer, existing, count, done, gauge, latest>>

UnregisterMutant(c) ==
    /\ Goto(c, "unregister", "unregGauge")
    /\ clients' = [clients EXCEPT ![DongleOf[c]] = NoConn]
    /\ count' = [count EXCEPT ![c] = Size(clients')]
    /\ UNCHANGED <<writer, existing, done, gauge, latest>>

\* Unregister, under the lock: only an entry that is still this connection.
Unregister(c) ==
    /\ Goto(c, "unregister", "unregGauge")
    /\ clients' = [clients EXCEPT ![DongleOf[c]] = IF @ = c THEN NoConn ELSE @]
    /\ count' = [count EXCEPT ![c] = Size(clients')]
    /\ UNCHANGED <<writer, existing, done, gauge, latest>>

UnregisterGauge(c) ==
    /\ Goto(c, "unregGauge", "close")
    /\ gauge' = count[c]
    /\ UNCHANGED <<clients, writer, existing, count, done, latest>>

\* readPump's deferred Close.
ReaderCloses(c) ==
    /\ Goto(c, "close", "gone")
    /\ done' = [done EXCEPT ![c] = TRUE]
    /\ UNCHANGED <<clients, writer, existing, count, gauge, latest>>

WriterStep(c, from, to) ==
    /\ writer[c] = from
    /\ writer' = [writer EXCEPT ![c] = to]
    /\ UNCHANGED <<clients, pc, existing, count, gauge, latest>>

\* A message or a ping cannot be written.
WriteFails(c) == WriterStep(c, "writing", "closing") /\ UNCHANGED done

WriterSeesDoneMutant(c) == FALSE

\* The done case of writePump's select.
WriterSeesDone(c) == done[c] /\ WriterStep(c, "writing", "closing") /\ UNCHANGED done

WriterCloses(c) ==
    /\ WriterStep(c, "closing", "off")
    /\ done' = [done EXCEPT ![c] = TRUE]

\* What the goroutines of a connection do of their own accord ...
Serve(c) ==
    \/ CloseExisting(c) \/ RegisterGauge(c)
    \/ Unregister(c) \/ UnregisterGauge(c) \/ ReaderCloses(c)

Write(c) == WriterSeesDone(c) \/ WriterCloses(c)

\* ... and what the network and the device do to them.
Network(c) == Register(c) \/ WriteFails(c)

Next == \E c \in Conns : Serve(c) \/ Write(c) \/ Network(c) \/ ReadFails(c)

Spec == Init /\ [][Next]_hubVars

\* Goroutines are scheduled, and reading a closed socket fails.  No device
\* ever has to connect, and no open socket ever has to fail.
HubFairness(c) ==
    /\ WF_hubVars(Serve(c))
    /\ WF_hubVars(Write(c))
    /\ WF_hubVars(done[c] /\ ReadFails(c))

FairSpec == Spec /\ \A c \in Conns : HubFairness(c)

-----------------------------------------------------------------------------
(* Properties.                                                             *)

\* The Go types of the map, the locals and the program counters.
TypeOK ==
    /\ clients \in [Devices -> MaybeConn]
    /\ pc \in [Conns -> Pcs]
    /\ writer \in [Conns -> {"off", "writing", "closing"}]
    /\ existing \in [Conns -> MaybeConn]
    /\ count \in [Conns -> Nat]
    /\ done \in [Conns -> BOOLEAN]
    /\ gauge \in Nat
    /\ latest \in [Devices -> MaybeConn]

\* GetClient returns the connection that registered last until its own read
\* pump unregisters it, and nothing afterwards: a superseded connection that
\* ends late takes neither its successor nor its own entry's place
\* (the comparison in Unregister).
EntryIsNewest ==
    \A d \in Devices :
        clients[d] = IF latest[d] # NoConn /\ pc[latest[d]] \in Registered
                     THEN latest[d] ELSE NoConn

\* A connection that was replaced in the hub is closed, is about to be closed
\* by the goroutine that replaced it, or has already stopped reading.
SupersededIsClosing ==
    \A c \in Conns :
        pc[c] \in Registered /\ latest[DongleOf[c]] # c =>
            \/ done[c]
            \/ \E x \in Conns : pc[x] = "supersede" /\ existing[x] = c

\* "At most one active connection per device": a replaced connection does
\* not stay open.
SupersededCloses ==
    \A c \in Conns : pc[c] # "new" /\ latest[DongleOf[c]] # c ~> done[c]

\* Closing a connection ends both of its pumps: no goroutine is left behind.
ClosedDrains ==
    \A c \in Conns : done[c] ~> (pc[c] = "gone" /\ writer[c] = "off")

\* What Register still holds while it is about to close the old connection.
ExistingIsOld ==
    /\ \A c \in Conns : existing[c] # NoConn => DongleOf[existing[c]] = DongleOf[c]
    /\ \A d \in Devices : latest[d] # NoConn => /\ DongleOf[latest[d]] = d
                                                /\ pc[latest[d]] # "new"

HubInv == TypeOK /\ EntryIsNewest /\ SupersededIsClosing /\ ExistingIsOld
=============================================================================
