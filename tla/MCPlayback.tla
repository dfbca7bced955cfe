----------------------------- MODULE MCPlayback -----------------------------
(***************************************************************************)
(* Two models side by side, one to a behaviour: the page's playback over   *)
(* what its output reckons, and the engine under that output.              *)
(***************************************************************************)
EXTENDS PlaybackEngine, AudioTransport

VARIABLE part

MCInit ==
  \/ part = "page"   /\ PInit /\ AInit /\ rate = 1 /\ ~slow /\ ~tracked /\ ~subscribed
  \/ part = "engine" /\ PInit /\ AInit /\ (tracked <=> ~subscribed)

MCNext ==
  /\ UNCHANGED part
  /\ \/ part = "page"   /\ PNext /\ UNCHANGED aVars
     \/ part = "engine" /\ ANext /\ UNCHANGED vars

MCSpec == MCInit /\ [][MCNext]_<<vars, aVars, part>>

\* Both types, and a page and an output that agree once quiet.
PlaybackSafe == PTypeOK /\ ATypeOK /\ AgreesOnceQuiet
=============================================================================
