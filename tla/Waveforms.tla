----------------------------- MODULE Waveforms -----------------------------
(***************************************************************************)
(* The waveform of a track, in tiles that a worker of the track's own      *)
(* paints: frontend/src/editing/playback/waveform_worker.ts, its client    *)
(* waveform_worker_client.ts, and the tiles of                             *)
(* editing/mixer/audio_track_view.tsx.  A tile's canvas is handed to the   *)
(* worker once; a draw of it is a number.                                  *)
(***************************************************************************)
EXTENDS Integers, Sequences, FiniteSets

CONSTANTS Tiles, MaxDraws, MaxWire, MaxMounts

VARIABLES loaded,                    \* the engine has the track
          mounted, releasing,        \* tiles, and the ones to be released in a microtask
          asked, timer, mounts,      \* each tile's draw, whether it waits out the debounce; mounts so far
          alive, owned, wire,        \* the client: the worker, its tiles, messages to it
          attached, waiting, shown,  \* the worker's: its canvases, draws that wait for peaks, draws painted
          peaks, build               \* the peaks are there; a read of the track is under way

waveVars == <<loaded, mounted, releasing, asked, timer, mounts, alive, owned, wire, attached, waiting, shown, peaks, build>>
tileVars   == <<mounted, asked, timer, mounts>>
workerVars == <<attached, waiting, shown, peaks, build>>

Nothing == [t \in Tiles |-> 0]

WaveInit ==
  /\ loaded = TRUE /\ mounted = {} /\ releasing = {} /\ asked = Nothing /\ timer = {} /\ mounts = 0
  /\ alive = FALSE /\ owned = {} /\ wire = <<>>
  /\ attached = {} /\ waiting = Nothing /\ shown = Nothing /\ peaks = FALSE /\ build = FALSE

Post(msgs) == wire' = wire \o msgs
Attach(t) == [kind |-> "attach", tile |-> t, draw |-> 0]
Render(t, n) == [kind |-> "render", tile |-> t, draw |-> n]
ReleaseOf(t) == [kind |-> "release", tile |-> t, draw |-> 0]
Register == [kind |-> "register", tile |-> CHOOSE t \in Tiles : TRUE, draw |-> 0]

\* Mutant: a tile is attached to a track that was dropped since it was rendered.
MayAttachDropped == TRUE

MayAttach == loaded

\* Mutant: what was to be released of the tile before is released after all.
ReleasedAnyway(t) == releasing

StillReleased(t) == releasing \ {t}

\* A tile appears: its canvas goes to the worker, and it's drawn at once.
Mount(t) ==
  /\ t \notin mounted /\ mounts < MaxMounts
  /\ mounted' = mounted \union {t} /\ mounts' = mounts + 1
  /\ asked' = [asked EXCEPT ![t] = 1]
  /\ IF MayAttach
     THEN /\ releasing' = StillReleased(t)
          /\ alive' = TRUE /\ owned' = owned \union {t}
          /\ Post((IF alive THEN <<>> ELSE <<Register>>) \o <<Attach(t), Render(t, 1)>>)
     ELSE UNCHANGED <<releasing, alive, owned, wire>>
  /\ UNCHANGED <<loaded, timer, workerVars>>

Unmount(t) ==
  /\ t \in mounted
  /\ mounted' = mounted \ {t} /\ timer' = timer \ {t}
  /\ releasing' = releasing \union {t}
  /\ UNCHANGED <<loaded, asked, mounts, alive, owned, wire, workerVars>>

\* The microtask of a tile's cleanup.
ReleaseChunk(t) ==
  /\ t \in releasing
  /\ releasing' = releasing \ {t}
  /\ IF t \in owned THEN owned' = owned \ {t} /\ Post(<<ReleaseOf(t)>>) ELSE UNCHANGED <<owned, wire>>
  /\ UNCHANGED <<loaded, tileVars, alive, workerVars>>

\* The tile is to look otherwise: after the debounce, unless it changes again.
Redraw(t) ==
  /\ t \in mounted /\ asked[t] < MaxDraws
  /\ asked' = [asked EXCEPT ![t] = @ + 1] /\ timer' = timer \union {t}
  /\ UNCHANGED <<loaded, mounted, mounts, releasing, alive, owned, wire, workerVars>>

RenderChunk(t) ==
  /\ t \in timer /\ timer' = timer \ {t} /\ Len(wire) < MaxWire
  /\ IF t \in owned THEN Post(<<Render(t, asked[t])>>) ELSE UNCHANGED wire
  /\ UNCHANGED <<loaded, mounted, asked, mounts, releasing, alive, owned, workerVars>>

DropTrack ==
  /\ loaded /\ loaded' = FALSE
  /\ alive' = FALSE /\ owned' = {} /\ wire' = <<>>
  /\ attached' = {} /\ waiting' = Nothing /\ shown' = Nothing /\ peaks' = FALSE /\ build' = FALSE
  /\ UNCHANGED <<tileVars, releasing>>

(***************************************************************************)
(* The worker.                                                             *)
(***************************************************************************)
\* Mutant: a draw that waits is kept though a later one is asked for.
LatestKept(t, n) == IF waiting[t] # 0 THEN waiting ELSE [waiting EXCEPT ![t] = n]

Latest(t, n) == [waiting EXCEPT ![t] = n]

PaintTile(t, n) ==
  IF t \notin attached THEN UNCHANGED <<waiting, shown, build>>
  ELSE IF peaks THEN shown' = [shown EXCEPT ![t] = n] /\ UNCHANGED <<waiting, build>>
  ELSE waiting' = Latest(t, n) /\ build' = TRUE /\ UNCHANGED shown

OnMessage ==
  /\ wire # <<>> /\ wire' = Tail(wire)
  /\ LET msg == Head(wire) IN
     \/ msg.kind = "register" /\ build' = TRUE /\ UNCHANGED <<attached, waiting, shown>>
     \/ /\ msg.kind = "attach" /\ attached' = attached \union {msg.tile}
        /\ shown' = [shown EXCEPT ![msg.tile] = 0] /\ UNCHANGED <<waiting, build>>
     \/ msg.kind = "render" /\ PaintTile(msg.tile, msg.draw) /\ UNCHANGED attached
     \/ /\ msg.kind = "release" /\ attached' = attached \ {msg.tile}
        /\ waiting' = [waiting EXCEPT ![msg.tile] = 0] /\ shown' = [shown EXCEPT ![msg.tile] = 0]
        /\ UNCHANGED build
  /\ UNCHANGED <<loaded, tileVars, releasing, alive, owned, peaks>>

\* Mutant: what waited for the peaks is forgotten when they come.
PaintedNone == shown

Painted == [t \in Tiles |-> IF waiting[t] # 0 /\ t \in attached THEN waiting[t] ELSE shown[t]]

\* buildPeaks ends; one that fails leaves what waits, for the next draw to try again.
BuildDone ==
  /\ build /\ build' = FALSE
  /\ \/ peaks' = TRUE /\ shown' = Painted /\ waiting' = Nothing
     \/ UNCHANGED <<peaks, shown, waiting>>
  /\ UNCHANGED <<loaded, tileVars, releasing, alive, owned, wire, attached>>

WaveNext ==
  \/ \E t \in Tiles : Mount(t) \/ Unmount(t) \/ ReleaseChunk(t) \/ Redraw(t) \/ RenderChunk(t)
  \/ DropTrack \/ OnMessage \/ BuildDone

WaveSpec == WaveInit /\ [][WaveNext]_waveVars

(***************************************************************************)
(* Properties                                                              *)
(***************************************************************************)
WaveTypes ==
  /\ mounted \subseteq Tiles /\ owned \subseteq Tiles /\ attached \subseteq Tiles
  /\ asked \in [Tiles -> 0..MaxDraws] /\ waiting \in [Tiles -> 0..MaxDraws]

\* No worker outlives its track, and none holds canvases of tiles that are gone.
WorkerGoes ==
  /\ ~loaded => ~alive
  /\ wire = <<>> /\ releasing = {} => attached = owned /\ (loaded => owned = mounted)

\* Once nothing is under way, each tile shows what was last asked of it, if the
\* track could be read; and nothing waits for a read that isn't under way,
\* unless one failed.
ShowsLast ==
  wire = <<>> /\ peaks =>
    /\ waiting = Nothing
    /\ \A t \in mounted \ timer : shown[t] = asked[t]

WaveRight == WorkerGoes /\ ShowsLast
=============================================================================
