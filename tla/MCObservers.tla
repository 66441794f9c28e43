----------------------------- MODULE MCObservers -----------------------------
(* One feed for the proof of the banIP sets; Observers.cfg has the rest.     *)
EXTENDS Observers

MCFeedOrder == <<"dshield">>
==============================================================================
