-------------------------- MODULE BackfillProgress --------------------------
(***************************************************************************)
(* What the backfill promises about the progress of its jobs, with no      *)
(* worker, no handlers and no crashes: jobs are opened in id order with a  *)
(* fixed filter, at most one is live at a time, and a job only ever        *)
(* advances, one route of its filter at a time, in the order it was asked  *)
(* for and never past its cap.                                             *)
(***************************************************************************)
EXTENDS Integers

CONSTANTS Jobs, Routes, NameOf, Filters, NoFilter

VARIABLES
    opened,     \* number of jobs opened
    live,       \* the jobs that may be worked on
    filter,     \* job -> its filter
    done,       \* job -> routes counted
    token       \* job -> name of the last route counted, 0 for none

pvars == <<opened, live, filter, done, token>>

PInit ==
    /\ opened = 0 /\ live = {}
    /\ filter = [j \in Jobs |-> NoFilter]
    /\ done   = [j \in Jobs |-> 0]
    /\ token  = [j \in Jobs |-> 0]

Open(f) ==
    /\ live = {}
    /\ opened + 1 \in Jobs
    /\ opened' = opened + 1
    /\ live' = {opened + 1}
    /\ filter' = [filter EXCEPT ![opened + 1] = f]
    /\ UNCHANGED <<done, token>>

\* Leave the live state, for good or for a while; come back to it.
Rest(j)  == j \in live /\ live' = live \ {j} /\ UNCHANGED <<opened, filter, done, token>>
Rouse(j) == live = {} /\ live' = {j} /\ UNCHANGED <<opened, filter, done, token>>

NotBehind(f, last, name) ==
    last = 0 \/ (IF f.newest THEN name <= last ELSE name >= last)

Advance(j, r) ==
    /\ r \in filter[j].routes
    /\ NotBehind(filter[j], token[j], NameOf[r])
    /\ filter[j].max = 0 \/ done[j] < filter[j].max
    /\ done' = [done EXCEPT ![j] = @ + 1]
    /\ token' = [token EXCEPT ![j] = NameOf[r]]
    /\ UNCHANGED <<opened, live, filter>>

PNext ==
    \/ \E f \in Filters : Open(f)
    \/ \E j \in Jobs : Rest(j) \/ Rouse(j) \/ \E r \in Routes : Advance(j, r)

PSpec == PInit /\ [][PNext]_pvars
=============================================================================
