---------------------------- MODULE TrackEffects ----------------------------
(***************************************************************************)
(* The effects of the tracks the browser plays: applyEffects and endEffects *)
(* of web_audio_output.ts, track_effects.ts, and the worklet's way out     *)
(* (track_effects_worklet.ts).  The worklet loads once a context, when an  *)
(* effect is first asked for; until then a track plays dry.  A mask says   *)
(* which effects; 0 is none.                                               *)
(***************************************************************************)
EXTENDS Naturals, FiniteSets

CONSTANTS Tracks, Masks, MaxSlots, MaxNodes   \* the last two are bounds

VARIABLES effects,      \* each track's, as a mask
          slot,         \* each track's slot: [id, mask, node], id 0 without one; node is the mask it applies, 0 for dry
          slots,        \* slots made so far
          load, waiters,    \* the worklet, and who waits for it: [track, id, mask]
          missed,           \* slots that waited for a load that failed
          nodes, ending     \* nodes alive, and those told to end that haven't yet

fxVars == <<effects, slot, slots, load, waiters, missed, nodes, ending>>

NoSlot == [id |-> 0, mask |-> 0, node |-> 0]

FxInit ==
  /\ effects \in [Tracks -> Masks]
  /\ slot = [t \in Tracks |-> NoSlot] /\ slots = 0
  /\ load = "idle" /\ waiters = {} /\ missed = {} /\ nodes = 0 /\ ending = 0

\* The nodes as a slot's goes.
Gone(s) == IF s.node # 0 THEN 1 ELSE 0

\* applyEffects(): the node is replaced if the mask changed; dry, and waiting
\* for the worklet, until that has loaded.
Applied(s, mask) ==
  [s EXCEPT !.mask = mask, !.node = IF mask = 0 THEN 0 ELSE IF load = "loaded" THEN mask ELSE s.node]
Dry(s) == s.mask # 0 /\ s.node = 0
Made(old, new) == IF new.node # old.node /\ new.node # 0 THEN 1 ELSE 0
Ended(old, new) == IF new.node # old.node THEN Gone(old) ELSE 0

ApplyEffects(t, old, mask) ==
  LET new == Applied(old, mask) IN
  /\ slot' = [slot EXCEPT ![t] = new]
  /\ missed' = missed \ {new.id}
  /\ nodes' = nodes + Made(old, new) /\ ending' = ending + Ended(old, new)
  /\ IF Dry(new) THEN /\ waiters' = waiters \union {[track |-> t, id |-> new.id, mask |-> mask]}
                      /\ load' = "loading"
     ELSE UNCHANGED <<waiters, load>>

\* ensureSlot(): with the effects the track has now.
EnsureSlot(t) ==
  /\ slot[t].id = 0 /\ slots < MaxSlots /\ slots' = slots + 1
  /\ ApplyEffects(t, [NoSlot EXCEPT !.id = slots + 1], effects[t])
  /\ UNCHANGED effects

SetTrackEffects(t, mask) ==
  /\ mask # effects[t] /\ nodes < MaxNodes /\ effects' = [effects EXCEPT ![t] = mask]
  /\ IF slot[t].id # 0 THEN ApplyEffects(t, slot[t], mask) ELSE UNCHANGED <<slot, nodes, ending, waiters, missed, load>>
  /\ UNCHANGED slots

\* Mutant: a slot that goes takes its node out of the graph, and doesn't end it.
DisconnectUnended(s) == 0

DisconnectEnds(s) == Gone(s)

DisconnectSlot(t) ==
  /\ slot[t].id # 0 /\ slot' = [slot EXCEPT ![t] = NoSlot]
  /\ ending' = ending + DisconnectEnds(slot[t])
  /\ UNCHANGED <<effects, slots, load, waiters, missed, nodes>>

\* Mutant: whoever waits is given the effects, whatever it wants by now.
StillWantedAny(w) == slot[w.track].id # 0

\* One that waited still wants what it waited for, and has it not yet.
StillWanted(w) == slot[w.track].id = w.id /\ slot[w.track].mask = w.mask

\* The worklet is there: all that waited go on, at once.
Loaded ==
  /\ load = "loading" /\ load' = "loaded" /\ waiters' = {}
  /\ LET served == {w \in waiters : StillWanted(w)}
         fresh  == {t \in Tracks : slot[t].node = 0 /\ \E w \in served : w.track = t}
     IN /\ slot' = [t \in Tracks |-> IF t \in fresh
                      THEN LET w == CHOOSE w \in served : w.track = t IN [slot[t] EXCEPT !.node = w.mask, !.mask = w.mask]
                      ELSE slot[t]]
        /\ nodes' = nodes + Cardinality(fresh)
  /\ UNCHANGED <<effects, slots, missed, ending>>

\* A load that fails is forgotten, so that the next one who asks tries again.
LoadFails ==
  /\ load = "loading" /\ load' = "idle" /\ waiters' = {}
  /\ missed' = missed \union {w.id : w \in {x \in waiters : slot[x.track].id = x.id}}
  /\ UNCHANGED <<effects, slot, slots, nodes, ending>>

\* The processor confirms it has stopped.
ProcessorEnded ==
  /\ ending > 0 /\ ending' = ending - 1 /\ nodes' = nodes - 1
  /\ UNCHANGED <<effects, slot, slots, load, waiters, missed>>

FxNext ==
  \/ \E t \in Tracks : EnsureSlot(t) \/ DisconnectSlot(t) \/ \E mask \in Masks : SetTrackEffects(t, mask)
  \/ Loaded \/ LoadFails \/ ProcessorEnded

FxSpec == FxInit /\ [][FxNext]_fxVars

(***************************************************************************)
(* Properties                                                              *)
(***************************************************************************)
FxTypes ==
  /\ effects \in [Tracks -> Masks] /\ load \in {"idle", "loading", "loaded"}
  /\ \A t \in Tracks : slot[t].node \in Masks /\ slot[t].mask \in Masks

\* A playing track is heard with its own effects once they have loaded, and
\* never with others; but one that waited for a load that failed stays dry
\* until its effects change or it is played anew.
EffectsHeard ==
  \A t \in Tracks : slot[t].id # 0 =>
    /\ slot[t].mask = effects[t]
    /\ slot[t].node \in {0, effects[t]}
    /\ load = "loaded" /\ slot[t].id \notin missed => slot[t].node = effects[t]

\* Every node is a slot's or on its way out: none keeps its WASM instance for good.
NodesEnd == nodes = ending + Cardinality({t \in Tracks : slot[t].node # 0})

FxRight == EffectsHeard /\ NodesEnd
=============================================================================
