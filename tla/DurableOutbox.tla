--------------------------- MODULE DurableOutbox ---------------------------
(***************************************************************************)
(* What the NAS log collector promises of its outbox ("durable,            *)
(* at-least-once"): entries put on disk stay there until every one of them *)
(* has arrived.  The box may be filled anew only while nothing of it has   *)
(* left; crashes and failed calls are no steps at all.                     *)
(***************************************************************************)

CONSTANT Entries  (* what can be put into the box                           *)

VARIABLES box,     (* the entries on disk that are not acknowledged          *)
          arrived  (* the entries the receiver has                           *)

Init == box = {} /\ arrived = {}

Put == /\ box \cap arrived = {}
       /\ box' \in SUBSET Entries
       /\ UNCHANGED arrived

Arrive == /\ arrived' \in SUBSET Entries
          /\ arrived \subseteq arrived'
          /\ arrived' \subseteq arrived \cup box
          /\ UNCHANGED box

Acknowledge == /\ box \subseteq arrived
               /\ box' = {}
               /\ UNCHANGED arrived

Next == Put \/ Arrive \/ Acknowledge

Spec == Init /\ [][Next]_<<box, arrived>>
=============================================================================
