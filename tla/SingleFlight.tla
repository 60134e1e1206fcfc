----------------------------- MODULE SingleFlight -----------------------------
(***************************************************************************)
(* What a worker pool with an in-flight set promises, with no queue, no    *)
(* capacity and no stages of work: an item is claimed before anybody waits *)
(* for it, is in one hand at most, and its claim goes when the hand that   *)
(* had it is done, not before and not later.  The four pools of the server *)
(* (extractor, transcoder, redaction builder, thumbnailer) were written    *)
(* one by one around a map and a channel; each of them implements this.    *)
(***************************************************************************)
CONSTANTS Items, Hands

VARIABLES
  claims,     \* the in-flight set
  waiting,    \* the items claimed that no hand has
  hand        \* [Hands -> SUBSET Items], the item a hand has, or nothing

sfVars == <<claims, waiting, hand>>

SFInit == claims = {} /\ waiting = {} /\ hand = [h \in Hands |-> {}]

Claim(i) ==
  /\ i \notin claims
  /\ claims' = claims \cup {i} /\ waiting' = waiting \cup {i}
  /\ UNCHANGED hand

Start(h, i) ==
  /\ hand[h] = {} /\ i \in waiting
  /\ waiting' = waiting \ {i} /\ hand' = [hand EXCEPT ![h] = {i}]
  /\ UNCHANGED claims

Finish(h, i) ==
  /\ i \in hand[h]
  /\ claims' = claims \ {i} /\ hand' = [hand EXCEPT ![h] = {}]
  /\ UNCHANGED waiting

(* The process dies: all of it is memory. *)
Lose == claims' = {} /\ waiting' = {} /\ hand' = [h \in Hands |-> {}]

SFNext ==
  \/ \E i \in Items : Claim(i)
  \/ \E h \in Hands : \E i \in Items : Start(h, i)
  \/ \E h \in Hands : \E i \in Items : Finish(h, i)
  \/ Lose

SFSpec == SFInit /\ [][SFNext]_sfVars
=============================================================================
