---------------------------- MODULE AudioDevices ----------------------------
(***************************************************************************)
(* The microphone that is heard live, and its choice:                      *)
(* frontend/src/audio_devices/audio_device_presenter.ts over               *)
(* web_audio_backend.ts.  A call of ensureMonitor() is under way while the *)
(* browser asks for permission or opens the device; calls may overlap, and *)
(* nothing tells a call that it was overtaken: raced remembers that one    *)
(* was, which MicAsChosen allows for.                                      *)
(***************************************************************************)
EXTENDS Naturals, Sequences, SequencesExt

CONSTANTS Inputs, MaxCalls

None == "none"         \* NONE_DEVICE_ID
NoMic == [input |-> None, muted |-> TRUE]

VARIABLES input, muted,          \* the store's
          saved,                 \* what is kept of them
          permission, started,
          calls,                 \* [step, input, muted], those two as they were when the device was asked for
          live, lost,            \* the backend's stream, and whether one runs on that it has no hold of
          raced                  \* a call was overtaken since the last choice made with none under way

devVars == <<input, muted, saved, permission, started, calls, live, lost, raced>>

Devices == Inputs \union {None}
Prefs(i, m) == [input |-> i, muted |-> m]

DevInit ==
  /\ saved \in [input : Devices, muted : BOOLEAN]
  /\ input = None /\ muted = TRUE
  /\ permission = "unknown" /\ started = FALSE
  /\ calls = <<>> /\ live = NoMic /\ lost = FALSE /\ raced = FALSE

(***************************************************************************)
(* ensureMonitor().                                                        *)
(***************************************************************************)
Call(step, i, m) == [step |-> step, input |-> i, muted |-> m]

Opening == \E n \in DOMAIN calls : calls[n].step = "open"

\* A call that goes on finds another opening a device, or done with it.
Overtaken == Opening \/ live # NoMic

\* startMonitor() stops what is there before it asks for the device.
StartMonitor(others, i, m) == live' = NoMic /\ calls' = Append(others, Call("open", i, m))

\* Mutant: None leaves the monitor as it is.
StopMonitorLater == live

StopMonitor == NoMic

EnsureMonitor(others, i, m) ==
  IF i = None THEN live' = StopMonitor /\ calls' = others
  ELSE IF permission' # "granted" THEN calls' = Append(others, Call("permission", i, m)) /\ UNCHANGED live
  ELSE StartMonitor(others, i, m)

Free == Len(calls) < MaxCalls

\* init(): what was saved, then what the browser says of the permission.
InitDevices ==
  /\ ~started /\ started' = TRUE /\ Free
  /\ input' = saved.input /\ muted' = saved.muted
  /\ calls' = Append(calls, Call("query", None, TRUE))
  /\ UNCHANGED <<saved, permission, live, lost, raced>>

\* setInputDevice(): saved at once, by the autorun.
SetInputDevice(i) ==
  /\ started /\ i # input /\ Free
  /\ input' = i /\ saved' = Prefs(i, muted)
  /\ permission' = permission
  /\ EnsureMonitor(calls, i, muted)
  /\ raced' = IF calls = <<>> /\ (i = None \/ permission = "granted") THEN lost ELSE raced \/ Opening
  /\ UNCHANGED <<muted, started, lost>>

\* Mutant: the mute is only remembered.
GainIgnored(m) == live

\* setMicGain(): of the stream there is.
Gain(m) == IF live = NoMic THEN live ELSE [live EXCEPT !.muted = m]

SetMicMuted(m) ==
  /\ started /\ m # muted
  /\ muted' = m /\ saved' = Prefs(input, m)
  /\ live' = Gain(m)
  /\ raced' = (raced \/ Opening)
  /\ UNCHANGED <<input, permission, started, calls, lost>>

Dispose ==
  /\ started /\ started' = FALSE
  /\ live' = NoMic
  /\ raced' = (raced \/ calls # <<>>)
  /\ UNCHANGED <<input, muted, saved, permission, calls, lost>>

(***************************************************************************)
(* The browser's answers, in any order.                                    *)
(***************************************************************************)
Queried(n) ==
  /\ calls[n].step = "query"
  /\ permission' \in {"unknown", "prompt", "granted", "denied"}
  /\ EnsureMonitor(RemoveAt(calls, n), input, muted)
  /\ raced' = (raced \/ Overtaken)
  /\ UNCHANGED <<input, muted, saved, started, lost>>

\* Goes on with what is chosen by now.
Asked(n) ==
  /\ calls[n].step = "permission"
  /\ permission' \in {"prompt", "granted", "denied"}
  /\ IF permission' = "granted" THEN StartMonitor(RemoveAt(calls, n), input, muted)
     ELSE calls' = RemoveAt(calls, n) /\ UNCHANGED live
  /\ raced' = (raced \/ Overtaken)
  /\ UNCHANGED <<input, muted, saved, started, lost>>

\* The stream is the backend's now, whatever it had; there is none of the device None.
Opened(n) ==
  /\ calls[n].step = "open" /\ calls[n].input # None
  /\ live' = [input |-> calls[n].input, muted |-> calls[n].muted]
  /\ lost' = (lost \/ live # NoMic)
  /\ calls' = RemoveAt(calls, n)
  /\ UNCHANGED <<input, muted, saved, permission, started, raced>>

OpenFails(n) ==
  /\ calls[n].step = "open"
  /\ live' = NoMic
  /\ calls' = RemoveAt(calls, n)
  /\ UNCHANGED <<input, muted, saved, permission, started, lost, raced>>

DevNext ==
  \/ InitDevices \/ Dispose
  \/ \E i \in Devices : SetInputDevice(i)
  \/ \E m \in BOOLEAN : SetMicMuted(m)
  \/ \E n \in DOMAIN calls : Queried(n) \/ Asked(n) \/ Opened(n) \/ OpenFails(n)

DevSpec == DevInit /\ [][DevNext]_devVars

(***************************************************************************)
(* Properties                                                              *)
(***************************************************************************)
DevTypes ==
  /\ input \in Devices /\ saved \in [input : Devices, muted : BOOLEAN]
  /\ permission \in {"unknown", "prompt", "granted", "denied"}
  /\ live \in [input : Devices, muted : BOOLEAN] /\ Len(calls) <= MaxCalls

\* "Bring capture into line with the current input selection: stop it for
\* "None"" (audio_device_presenter.ts): once no call is under way, a live
\* microphone is the one selected, at its gain, and no other is open; unless
\* what is selected was changed, or another was opened, as a device was being opened.
MicAsChosen ==
  calls = <<>> /\ ~raced =>
    /\ ~lost
    /\ live # NoMic => started /\ live = Prefs(input, muted)
=============================================================================
