---------------------------- MODULE RemotePart ----------------------------
(***************************************************************************)
(* The remote control in the page's places.                                *)
(***************************************************************************)
EXTENDS Naturals, PagePlaces

CONSTANTS Sliders, SliderValues, MaxRemoteSearches, MaxRemoteWire, MaxHostSearches

ASSUME RemoteAssumption ==
  /\ Sliders \subseteq {"seek", "volume", "track"} /\ 9 \notin SliderValues    \* its None
  /\ {MaxRemoteSearches, MaxHostSearches} \subseteq Nat

Remote == INSTANCE RemoteControl WITH status <- v1, hostHere <- v2, seen <- v3, draft <- v4, freed
             <- v5, late <- v6, paced <- v7, held <- v8, asked <- v9, timer <- v10, found <- v11,
             wanted <- v12, shownFor <- v13, up <- v14, down <- v15, online <- v16, hostVal <- v17,
             hasSong <- v18, working <- v19, moved <- v20, Values <- SliderValues, MaxSearches <-
             MaxRemoteSearches, MaxWire <- MaxRemoteWire, Hasty <- FALSE

\* What becomes of the places while they are the remote's.
RemotePartSpec ==
  /\ part = "remote" => Remote!RemoteInit
  /\ [][part' = part /\ (part = "remote" => Remote!RemoteNext)]_<<part, places>>

\* RemoteControl: drafts and searches end, what is dragged gets to the host,
\* and at rest the remote shows what the host has.
RemoteSafe == part = "remote" => Remote!RemoteTypes /\ Remote!RemoteRight
=============================================================================
