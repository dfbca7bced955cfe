# utai.au in TLA+

utai.au is a karaoke machine. A page (browser, or the Tauri desktop app) holds a
queue of songs, prepares them with the help of a Python backend ("aligner"), plays
them, and is driven by phones. This directory models the parts of it that can go wrong
in an order nobody tried: what is interrupted, overtaken, cancelled, reconnected or
restarted; and the algorithms that lyrics, scores and waveforms rest on.

Paths below are relative to `src/`; `page` stands for `frontend/src`. `PROJECT.json` maps
each definition to the lines it stands for, and lists components, runs, mutants, hazards,
findings and theorems.

Contents: [the system](#the-system) · [modules](#modules) · [runs](#runs) ·
[what the violations say](#what-the-violations-say) ·
[what the properties allow](#what-the-properties-allow) · [bounds](#bounds) ·
[fairness](#fairness) · [proofs](#proofs) · [not modelled](#not-modelled) · [plan](#plan)

## The system

```
 phones (remotes) ──ws──┐                                  ┌── OnTheSpot (downloads songs)
                        │                                  │
 page ── session ──ws── relay ─ lanes ─ GPU lock ─ GPU jobs│
  │      host          (sessions.py)        (job_stream.py)│
  ├── song queue ── prepare ──http── fetch jobs, song cache┘
  │        │ start, next
  ├── playback engine ── output ──┬─ipc── audio engine (Rust)
  │        │ clock                └────── Web Audio ── workers (PCM, waveforms)
  ├── backing video, skip segments, lyrics overlay, scoring ── microphone
  └── dialogs, panels, settings, updates
```

| Component | Its state | Its operations | What is hard | What makes it correct |
|---|---|---|---|---|
| **GPU lock** `aligner/app/round_robin_lock.py` | owner flag, lanes in rotation, each a deque of futures | `acquire`, `release`, cancellation at any await | a waiter cancelled after it was granted the lock; a release that meets a cancelled future before its task has noticed | one owner; a grant is never lost; no waiter stranded; lanes take turns |
| **GPU jobs** `job_stream.py`, `request_context.py`, `analysis_routes.py`, `align_routes.py`, `provisioning.py` | a generator per job, its worker thread and scratch dir, results on disk, the models' gate, the models in memory | request, look in the cache, wait for the gate, for the lock, work, store; disconnect anywhere; download models, reload them | a client that leaves while a thread works; the gate against the lock; a result found after queueing | the GPU has one user, on the models in memory; no work outlives its files or is repeated; every stream ends |
| **Session relay** `sessions.py` | sessions by id, idle clock, host, remotes, last state; an outbox and a writer task per socket | create, look up, sweep; join, publish, command, reply, leave; takeover | takeovers while the old host's frames and its leaving are to be handled; ids reused | members kept; an idle session goes at its TTL and no other does; remotes end at the truth; a replaced host is final |
| **Session host** `page/session/session_client.ts`, `session_host_presenter.ts`, `host_page_presenter.ts` | socket, reconnect timer, status, code, queue, `replacedSinceOpen` | open, reconnect, host frames, publish, restore, reclaim, replace a lost session | every way a connection ends has a sequel of its own; what is published in between is lost | pages and relay agree once quiet; no queued song is lost, but what a reload can't add again; nobody fights for ever |
| **Remote control** `page/session/remote/` | drafts of sliders, throttles, the search asked for and its timer | drag, release, search, pick; frames; the connection's life | drafts must end; answers come late, twice or never | what is dragged lands; results are of the last search; at rest the remote shows the host |
| **Song queue** `page/queue/queue_presenter.ts`, `queue_store.ts`, `karaoke/song_io_presenter.ts` | items and their status, the one being prepared, downloads, preload, the one starting, history | add, move, remove, skip, remount; ends of prepares, videos, loads, plays, songs | each end arrives after an await, about a song that may be gone | one at a time; ready means complete; never silent beside a ready song; the queue moves on |
| **Preparing a song** `page/queue/prepare_song.ts`, `net/` | a task per request, the stage shown, toasts | fetch, look up, separate, align, measure; abort | ten requests side by side, each of which may fail in five ways | only the audio can lose a song; every other failure is told; no download is left behind |
| **Song downloads** `music/fetch_jobs.py`, `music/facade.py`, `pipeline/video/fetch.py`, `song_cache.py` | jobs, OnTheSpot's queue, song folders by use, adopting and video threads, trims | start, poll, cancel, take, forget; enqueue, adopt; download the video; trim | threads that outlive their cancelled tasks; two jobs for one download; a trim at work | a download is moved once; what a client is told to get is there; every job ends |
| **Playback engine** `page/editing/playback/playback_engine.ts`, `native_audio_output.ts` | player state, time, end timer; commands on the way to Rust | play, pause, resume, stop, seek, speed, offset; answers; the end | an answer to what has been superseded | page and audio agree once quiet; only a song heard to its end ends |
| **Native audio engine** `crates/audio/src/transport.rs`, `device.rs`, `stream.rs`, `src-tauri/src/audio.rs` | atomics for playhead, playing, speed, discontinuity and seek id; the output's rate; the tracks' stretchers; a window of chunks per track | commands, a block of output, a change of device, telemetry; preload, add, remove; a feeder's looks and reads | threads that share the atomics without a lock | the page is never moved back behind its seek; no jump escapes a stretcher or a feeder; a preloaded opening is there when it is to be heard |
| **Local backend** `src-tauri/src/local_backend.rs`, `processes.rs`, `capability.rs` | two processes and their ports, who waits for them, the ids of their children | first start, supervision, install, remove, exit | a process may die, and the app exit, at any of their awaits | one of each process, none while its packages are replaced, none after the app but one child (below) |
| **Web audio output** `page/editing/playback/web_audio_output.ts`, `time_stretch.ts`, `song_pcm*.ts`, `track_effects*.ts` | a slot per stem, a pool of stretchers, chunks on the way from a worker, effect nodes | start, pause, seek, speed, gain, effects; a stretcher or worklet that loads; a chunk, room handed back | what loads arrives when its song has moved on; two sides count one window | stems in step and heard once, no stretcher or node lost, no frame skipped or starved |
| **Waveforms, loudness** `waveform_*.ts`, `loudness.ts`, `editing/mixer/audio_track_view.tsx` | a worker per track, canvases, draws; a pyramid of peaks | mount, draw, release; one pass over the song, a stretch at a time | a canvas can be handed over once; the passes see the song in pieces | the last draw shows; no worker outlives its track; pieces measure as the whole |
| **Backing video, skip segments** `page/video/`, `skip_segments/` | two elements, the load each is for, the embed, the follower's lead; segments of the song | song changes, loads, failures, the fallback; frames of the clock; lookups | what was loading when the song changed; a correction that is under way | what shows is the song's, in step; two corrections do; only its own segments are skipped |
| **Scoring, devices** `page/scoring/`, `audio_devices/` | sessions, the microphone, frames, votes, results | start, stop, frames, seeks; choice, permission, mute | starts and choices that end after they were taken back | the microphone is given back; each note is judged once, by the singer's octave |
| **Lyrics** `page/lyrics/`, `editing/lyrics/`, `karaoke/karaoke_lyrics_overlay.tsx` | matches, lines and words in time, readings, alignments | look up, align, parse, lay out, show at a time | overtaken searches, retries; blank stamps, gaps, words without room | in order, in time, without overlap; what is written is read back |
| **Panels, dialogs, settings** `page/provisioning/`, `music_source/`, `settings/`, `server_setup/`, `updates/`, `ui/` | toasts, searches, orders, local storage, open panels and the focus | polls, presses, answers, several windows, effects that run later | answers in any order; state that lives across elements | the last request shows; one notice; what the user chose is kept |

How they interact: a prepare (page) starts a fetch job and GPU jobs by HTTP, each GPU job
in the lane of the session that asked (`sessions.py` resolves it); the queue reacts to the
store that prepares and the playback engine write; the session host publishes that store
through the relay, and applies what remotes command; the video, the overlay, the segments
and the scoring read the playback engine's clock. Everything in the backend but threads
runs on one asyncio loop, everything in the page but workers on one JavaScript thread, so a
step of a model is what runs between two awaits; threads, workers, sockets, Rust and
OnTheSpot are the true concurrency.

The components left out (effects, WebGL, the model pipelines, views, deployment) are listed
with the reason in `PROJECT.json`; see [not modelled](#not-modelled).

## Modules

| Module | Models | Composes |
|---|---|---|
| `LaneMutex` | abstract: a mutex whose waiters of one lane are served first come first served, and may withdraw | — |
| `RoundRobinLock` | `round_robin_lock.py`, every method, cancellation at every await | refines `LaneMutex` through `ImplementsLaneMutex` |
| `RoundRobinTurns` | a monitor beside the lock that counts the turns a waiter is overtaken | extends `RoundRobinLock` |
| `GpuJobs_proof`, `SessionRelay_proof`, `Session_proof`, `SongQueue_proof`, `SongFetch_proof`, `Playback_proof`, `Page_proof` | the theorems | each extends what it is about: `GpuJobs_proof` the lock and the monitor as well, `Session_proof` `SessionHost` and `RemotePart`, `Playback_proof` `MCPlayback` |
| `SequenceLemmas` | what the sequence operators do, for all of them | — |
| `GpuJobs` | the jobs over the lock, the model gate, download and reload | extends `RoundRobinLock` |
| `SessionRelay` | `sessions.py`; and, as `ISpec`, a monitor beside it: since when each session has really been unused | — |
| `SessionHost` | the page's socket and presenter against a relay in their terms | — |
| `SongQueue` | the queue presenter, loading and preloading | — |
| `PlaybackEngine` | the engine and the desktop's output over the Rust command queue | — |
| `AudioTransport` | the engine's transport between its four threads, and the page's reading of it | — |
| `MCPlayback` | the two models of playback in one run | extends `PlaybackEngine`, `AudioTransport` |
| `SongFetch` | fetch jobs, video downloads, OnTheSpot, folders and trims | — |
| `PrepareSong` | a prepare, the requests it makes and the clients it makes them with | — |
| `RemoteControl` | a phone, the connection both ways, and the host's side of its commands | — |
| `BackingVideo`, `FollowClock` | the loads and elements; the follower and the segments | — |
| `Scoring` | sessions, frames, judging, octaves | — |
| `WebOutput`, `PcmStream`, `TrackEffects` | the browser's output; a stem's stream; its effects | — |
| `Waveforms` | tiles, canvases and a track's worker | — |
| `NativeStream` | a track's feeder, window and way into the mix, with the playhead and the output's rate it follows | — |
| `AudioDevices` | the live microphone | — |
| `LocalBackend` | the desktop's backend and the children it starts | — |
| `Provisioning`, `MusicPanel`, `AppShell`, `LyricsPanel`, `Controls`, `Furigana` | the models' notice; searches and services; settings, server, updates; the lyrics dialog and alignments; menus, dialogs and steppers; readings | — |
| `SongMatching`, `LyricFile`, `LyricsShown`, `LyricLayout`, `SongPasses` | algorithms, as operators | — |
| `PagePlaces`, `RemotePart`, `Page` | parts of the page, and of the desktop, one to a behaviour, in places they share, their constants still open: the ones `Session_proof` (the remote) and `Page_proof` (the others) are about | both extend `PagePlaces`; INSTANCE `RemoteControl`; `PrepareSong`, `BackingVideo`, `FollowClock`, `Scoring`, `AudioDevices`, `LocalBackend` |
| `MCPage` | the other parts beside them, and the algorithms with the inputs they are checked over, in one run | extends `Page` and `RemotePart`, INSTANCEs the others |
| `MC…` | constants and symmetric sets for TLC | — |

**RoundRobinLock.** The variables are the class's own (`held`, `order`, `waiters`) and,
per task, where it is, its future, and whether it is to be cancelled. asyncio's two-step wake-up is explicit: `set_result`
marks the future, the task runs later (`Resume`), and between the two it may be cancelled
(`ResumeGrantedCancelled` passes the lock on). `release()`'s loop over cancelled futures is
three actions that run without interruption (`Quiet` holds everything else back).

**GpuJobs.** A job is a producer (`serialized_gpu_stream`/`once_loaded`, at one of its
awaits or yields), a consumer (`stream()`, which pulls), a thread, and a scratch dir. A
client leaves at any await: `CancelPull`, `CancelInLock`, `CancelWork`, `CancelStore`, or
`Finalize` for a generator abandoned at a yield. `Provision` is the startup load, the
download and the reload, which drains the GPU through the lock's lane `""`. Models are
versions: `disk` the newest, `resident` the one in memory, `ver[j]` what a job works with.
What came of the work is stored by another thread for a GPU job (stems, vocals; `WorkDone`,
`StoreDone`), after which an alignment works on (`AlignVocals`); beats and alignments are
written at once (`WorkWritten`). Several files stored one after another are one, and
converting stems that an earlier version left as FLAC is left out.

**SessionRelay.** Each socket has a handler (accepted, in, done), an outbox and a writer;
`JoinHost`, `JoinRemote`, `Publish`, `Reply`, `Command`, `LeaveHost`, `LeaveRemote` are the
handler's branches, `Write`, `WriteLast` the writer's. `view` is what a client that reads its
frames believes. Ids are typed in several spellings (`Normalize`); the registry's clock is a
bounded counter.

**SessionHost.** `Event`s of a page's socket are delivered in order. `OnOpen`, `OnHello`,
`OnClose`, `Reconnect` and `Created` are the client's handlers with the presenter's
callbacks inside them; `Admit`, `Receive`, `Restart` are the relay as pages see it (one
`Admit` does what `SessionRelay` does in `Accept` and `JoinHost`/`Refuse`; a lost socket's
host leaves at once). Queues are sets of songs: their order plays no part here. `Streamed`
are the songs with a track, which are all that `restore()` adds again (`Restored`);
`reopened` remembers at which sessions a page was ever opened or reloaded.

**SongQueue.** MobX reactions (`ReactToNext`, `ReactToPreload`) run before anything else
once what they read has changed. A prepare is one asynchronous step that succeeds or fails
(`PrepareSong` has what is inside it); `Prepared`, `PrepareFailed`, `VideoDone`, `WaitOver`
are its ends. A start is the awaits of `playItem()`: its audio, a retry, the video's first
frame, the transport's play.

**PlaybackEngine.** `cmds` is the queue of IPC commands, which Rust runs in order and then
answers in order; `dev` is what is heard. Each answer resumes the code that awaited it
(`Started`, `StartedStale`, `StartFailed`, `Paused`, `Resumed`) and finds `current` false if its
token was superseded. Time is whole steps of the song; `Advance` is Rust playing on, `Frame`
the page's clock, `Finish` the end timer.

**AudioTransport.** Each action is one access to what the threads share. The command thread
(`TPlay` … `TSpeed`) runs what the page asks for (`Ask…`), with `at` where it is and `got` what
it has read; a change of output device is `SwapPosition` … `SwapMark` (`retune()`, the callback being
gone meanwhile); a block is `BEpoch`, `BLook`, `BMove`, `BMix`; a telemetry message is `TickId`,
`TickFrame`, `TickPlaying`, and `OnTelemetry` in the page. `fed` is where a stretcher believes the
playhead is. A block is one frame, and a second one or two. The mix holds one track, or none.

**SongFetch.** A job's task (`pc`), its video's task and thread (`vid`) and its adopting
thread (`adopting`, which goes on when the task is cancelled). OnTheSpot is external: its
queue keeps entries of old downloads (`items`), it has one file per track (`file`), and may
lose its queue. `Trim` looks at the folders, oldest first; `TrimRemove` removes one.

**PrepareSong.** A task per request, `idle`, `run` or what it ended with. `Begin` is the code
that runs once what it awaits is in; `Answered` an answer of any kind, with what the
`catch`, the toast or the retry makes of it; `Posted`, `Polled` the fetch job followed.
`source` is what never changes of the song (has it a file, a title, a video …).

**RemoteControl.** `up` and `down` are the connection's two directions, in order. A slider
has a draft, what is to be sent when its 150 ms are over (`late`, `paced`), and what the host
has; a search has its id, its timer and what the page shows. What several sliders have
pending when the tab changes is sent in any order of them.

**BackingVideo, FollowClock.** A load (`current`, `standby`) is for one video in one of two
elements and is being asked for, unanswered, loading, ready, on a frame, or bad; `embed` is
the YouTube player. The follower is one element against the audio's clock, with a seek that
lands a latency later.

**WebOutput, PcmStream, TrackEffects, Waveforms.** `slots[t]` has a stem's plain source, its
stretched one and the one that plays until the stretcher has loaded; `lag` is how far a source
is from the clock. A stream has messages both ways, each with its generation (a seek makes a
new one), room in the worker and chunks, or a stretcher's window, in the page.

**NativeStream.** `pc` is where the feeder's loop is, between one access to what it shares and the
next; `Fail` is a request that failed, wherever it is made. `cmd` is the command thread (`Add`,
`Rewind`, `Join`: the mix takes the track before the playhead is rewound and the feeder told), `swap`
`retune()`. A chunk is one frame, and a second one or two of them. `others` is the last song, whose
tracks are removed before or after this one's is added.

**LocalBackend.** `task` holds the lock, at `step`; `boots`, `works` and `look` wait for it.
Processes have ids, which are used again; `pids` is what the exit handler knows, `running` and
`mine` the handles kept by the state and by the task. `Dies` and `KillAll` may come at any step.
`Links` is the one child that is spawned past the registry (`link_bundled_ffmpeg()`, by `output()`), so even
while the app exits. Children that aren't the backend's are left out: the GPU probes, the
pitch sidecar (stopped by a handle of its own), the file manager.

**The panels.** Each is its presenter's store, and its requests one by one, pending until
answered. Effects and microtasks, which run after what caused them has been drawn, are actions
of their own (`pending` in `Controls`, `releasing` in `Waveforms`).

**The algorithms** are operators without variables, each given whole inputs: what a match is
(`SongMatching`), a file's text (`LyricFile`), what shows at a time (`LyricsShown`), where a
row's words are and which notes a word has (`LyricLayout`), the passes over samples
(`SongPasses`). Their properties state what the result is to be without the algorithm's own
steps: an injection instead of the greedy matching, all plans instead of the dynamic
programme, the whole song at once instead of stretches.

## Runs

Every property has a mutant in `PROJECT.json` (a dropped guard, a missing
reset, a swapped order in a mapped definition) under which TLC finds it violated; a
property that has several parts has mutants of several modules.

| Run | Asks | Shows |
|---|---|---|
| `lock` | four tasks, two lanes, all orders of acquiring, releasing, cancelling | `LockInv` (one owner, no lost grant, rotation and queues consistent), `NoStrandedWaiter`, `BoundedOvertaking` (each other lane at most once before mine), `ImplementsLaneMutex`, `OneNotStarved` |
| `gpu_jobs` | two jobs for one song, with or without GPU, disconnects anywhere, download and reload | `GpuSafe` (types, `GpuExclusive`, `OneModelSet`: no job works with models dropped under it), `ScratchOutlivesWork`, `NoWorkTwice` (two jobs never do the same work: the lock is held from the look in the cache to the last file), `AllEnd` |
| `relay` | two sessions that may draw the same id, two hosts and a remote, over a clock | `RelaySafe` (types, `MembersKept`), `ViewsConverge` (read all, and you believe the truth), `ReplacedIsFinal`, `DroppedInTime` and `NotDroppedEarly` (an unused session is swept exactly by its TTL) |
| `host` | two tabs, two sessions, lost connections, restarts, reloads, takeovers | `HostsSafe` (types, `HostsAgreeOnceQuiet`), `QueueKept` (a session with one page loses no song; once one was reloaded or opened there, none with a track), `Settles` |
| `queue` | two songs, local or downloaded, in all orders of user and asynchronous events | `QueueSafe` (types, `OneAtATime`), `VideosMatchQueue`, `NoStall`, `PreloadIsNext`, `QueueMovesOn` |
| `playback` | plays, stops, seeks, pauses and failing starts that overlap | `PlaybackSafe` (types, `AgreesOnceQuiet`), `HeardWhereShown`, `EndScheduled`, `EndsPlayedOut`, `StopWins` |
| `playback`, the engine | every interleaving of commands, blocks, a change of device and telemetry | `ShownAfterSeek`, `StretchFollows` |
| `fetch` | two downloads of one song, OnTheSpot's queue and restarts, threads and trims | `FetchSafe` (types, `MovesAlone`), `AudioThere`, `JobsEnd` |
| `page` | the page's parts and the desktop's own, one to a behaviour (the initial state picks it) | below |
| `gpu_store`, `host_spin`, `queue_play`, `playback_stop` | the violations below | — |

`page` has an invariant for each group of parts:

| Invariant | Parts | Says |
|---|---|---|
| `PrepareSafe` | `PrepareSong` | `OnlyAudioFails`, `StageTrue` (models are said to load exactly while a job waits for them), `FailuresTold`, `LyricsNotMissed`, `NoDownloadLeft` |
| `RemoteSafe` | `RemoteControl`, by slider and by search | `DraftsEnd`, `SearchSettles`, `ResultsAreOfLast`, `DragLands`, `ShowsHost` |
| `VideoSafe` | `BackingVideo`, `FollowClock` | `SlotsRight`, `FrameIsSongs`, `Follows`, `NextWaits`; `TwoSeeksDo`, `SkipsRight` |
| `ScoringSafe` | `Scoring` | `MicReleased`, `JudgedOnce`, `OctaveKept` |
| `SoundSafe` | `WebOutput`, `PcmStream`, `TrackEffects`, `Waveforms`, `NativeStream` | `PlaysAsTold`, `InStep`, `Sounds`, `StretchersRight`; `RoomRight` (room is neither lost nor made), `InARow`, `NeverStarves`; `EffectsHeard`, `NodesEnd`; `WorkerGoes`, `ShowsLast`; `OpeningHeld`, `CaughtUp`, `Bounded`, `Heeded`, `OfOneRate` |
| `MachineSafe` | `AudioDevices`, `LocalBackend` | `MicAsChosen`; `OneOfEach`, `WorkAlone`, `OnlyDebris`, `NoneLost`, `NoneOutlives` |
| `UiSafe` | `Provisioning`, `MusicPanel`, `AppShell`, `LyricsPanel`, `Controls`, `Furigana` | `OneWatch`, `OneNotice`, `ShownUnlessClosed`, `SuccessEarned`; `SearchRight`, `SettingsKept`, `SignInRight`; `SettingsKept`, `ServerFound`, `UpdatesRight`, `NewestFirst`; `DialogRight`, `AlignRight`; `OneOpen`, `StaysOpen`, `FocusInTop`, `FieldRight`; `ReadingsRight`, `WordsRight` |
| `AlgorithmsRight` | the algorithms, over their inputs | `SimilarityRight`, `PhrasesRight`, `PickRight`, `AttemptsRight`, `TitleRight`, `SpansRight`; `RoundTrip`, `StartsOnly`, `AnyLine`, `Rebased`; `LinesInOrder`, `WordsInOrder`, `BlankInGaps`, `CountedIn`, `PaceHolds`, `SegmentsRight`, `SplitRight`; `CellsRight`, `NothingOverlaps`, `LineGoesRight`; `NotesWithin`, `HeldIsOneNote`; `PeaksOfStretches`, `LoudnessOfStretches`, `PeaksDrawn`, `SilenceDoesntCount` |

The parts share no state the models have, so nothing is lost by taking them one at a
time; in one run they share its start and its states' layout (`v1`, `v2`, …, which
INSTANCE names).

### What the violations say

Four places where the code does not do what a comment or a test of it says. Each has a
constant that admits the behaviour; the passing run of the same model leaves it out,
and so says what holds otherwise.

- **`gpu_store`, `ScratchOutlivesJob`.** The GPU jobs `separate()` and `_vocals_for()` store files
  by a plain `to_thread`: a client that leaves then has the GPU lock released and the scratch dir
  removed under the thread. (Beats, off the GPU, are written without a thread.) (`gpu_jobs` checks `ScratchOutlivesWork`, for the threads that are waited for.)
- **`playback_stop`, `StopWins`** (`Hasty`: the page acts before a pause or resume is
  answered). `pause()` and `resume()` set the state after their await without `play()`'s
  look at the token, so a stopped engine says "playing" again, with its end timer running.
  The same gap lets a seek during the await schedule the end of a pausing song.
- **`queue_play`, `MovesOnWhenSilent`** (`Impatient`: play is pressed while a song starts).
  The second play supersedes the start's own; the start finds the transport loading, takes the song for failed and
  moves on to the next.
- **`host_spin`, `SpinStops`.** The relay accepts a socket before it refuses it, so "once
  per open" is reset by every refusal. The run takes a relay restart per round; the cost is
  one session each.

### What the properties allow

Other windows were met while modelling. No document of the repository promises otherwise,
so they are hazards rather than violations; the properties name each, by a variable that
remembers it was entered or a constant that leaves it out, and hold in every other case.

In the native engine, a seek that meets `retune()` between its read of the position and its
write (or reads the old rate) is overwritten, yet its id then reads as done (`crossed`); and
telemetry read in the middle of `retune()` pairs one device's rate with the other's playhead
(`torn`). Both need a change of output device within a command, and the next telemetry or
seek corrects the second. A third is not looked at: `set_speed(1)` may have one block mixed
without a stretcher at the old speed, when the callback read the speed just before.

| Where | What may happen |
|---|---|
| `SessionHost`, `Busy` | a page's state changes before its first hello: the relay's queue is overwritten by the reloaded page's empty one |
| `SessionHost`, `reopened` | a reloaded page restores only what has a track: uploads and bundles are gone, and its first publish takes them from the relay and the remotes too |
| `SongFetch`, `Torn` | a fetch hands out a folder between trim's look at it and its removal |
| `PrepareSong`, `orphan` | a fetch job whose id the page never got goes on after the song is dropped |
| `RemoteControl`: no seek bar, `Hasty` | a song that ends during a drag leaves its draft; a search asked for offline takes the id of the one under way |
| `WebOutput`, `deaf` | once a stretcher failed to load, a stem unmuted off 1x is silent until the next seek or resume |
| `TrackEffects`, `missed` | a slot that waited for a failed load stays dry until its effects change |
| `PcmStream`, `Hasty` | a jump back that overtakes a trim's answer finds its audio dropped |
| `NativeStream`, `reverted` | an open fails, and the output is back at its former rate: chunks are read at the one that failed, as if they were at this |
| `LocalBackend`, `Links` | the python that a first start asks where its ffmpeg is outlives the app, or is started while it exits: the exit handler doesn't know it. It prints a path and ends |
| `AudioDevices`, `raced` | a microphone chosen and given up while it opens goes live |
| `Scoring`, `brokenOff` | the late failure of a stopped start ends the next session. Left out: a stop and a start within one tick of inference leave two loops |
| `MusicPanel`, `overlapped`, `lost` | of two presses on a priority arrow one is undone |
| `Provisioning`, `closed` | a restarted backend's notice counts as dismissed if the same one was before |
| `Controls`, `strayed` | the focus goes astray when a dialog under another closes, or one that focused a control of its own |
| `LyricsPanel` | the offset a user sets during an alignment is undone by its end |
| `Furigana` | a failed batch puts the others off by 30 seconds, with itself |
| `AppShell` | the last window to keep its settings undoes what another kept |

## Bounds

- `lock`: four tasks are enough for a lane with two waiters (so that it stays in the
  rotation after a grant) beside an owner and a waiter of the other lane. Tasks come back
  as often as they like.
- `gpu_jobs`: two jobs for the same song (both looks in the cache matter) and the
  reloader, a third user of the lock; one download is one reload.
- `relay`: two sessions and one id, so that the second reuses the first one's; two hosts
  for takeover; one published state, one frame, a clock to 2 with a TTL of 1.
- `host`: `MaxFaults` lost connections or restarts, `MaxActs` acts of users, `MaxSent`
  states in flight, `MaxSessions` sessions. Two faults and three acts have a reload, a
  takeover and a reclaim interleave with a lost connection.
- `queue`: with two songs there is one to play and one next; a remount doubles the effects.
- `playback`: a song of two steps has a start, a middle and an end; six commands have two
  overlapping starts (seek, play), a stop and a seek. For the engine: two calls of the page (a
  start is a seek and a play, so a seek can meet a running block), speed 1 or another before
  them, one change of device, two rates. The telemetry and the stretcher only look, so a
  behaviour has one of the two.
- `fetch`: two jobs for one song share its folder, OnTheSpot's entry, the adopt lock and
  the video lock; one video slot makes the semaphore bite; `Cap` 1 makes a folder with both files
  too big. With one song, the order of eviction is modelled and not exercised.
- `page`, in `MCPage` beside each INSTANCE. `PrepareSong` needs none: a song has its tasks.
  `RemoteControl`: two values, two searches, two messages a direction, so that an answer is
  overtaken by the next search and a frame by the next drag. `BackingVideo`: two videos, one
  shown and one next, which come back in turn. `FollowClock`: latencies of 1, 3 and 7 ticks (within
  the lead, beyond it, beyond the wait), two jumps, a song of twelve ticks. `Scoring`: two notes whose graces touch, two
  sessions, one seek back, two frames. `WebOutput`: two stems, two speeds, two stretchers, one start (its end is a
  stop at any time). `PcmStream`: a window of four frames in a stem of six, two seeks.
  `TrackEffects`, `Waveforms`: two tracks or tiles that come and go. `NativeStream`: one chunk ahead and one
  behind, seeks to the start and beyond the window, two changes of rate (there and back), one
  request that fails. `LocalBackend`: three ids, so that both processes and an install's child
  can be; two calls and two installs. `AudioDevices`: two calls under way. The panels: two or three requests, so that one is overtaken and one overlaps;
  three watches and toasts; two windows; a menu in a menu; batches of two of four lines.
- The algorithms: all inputs of the kinds in `MCPage` (33 thousand for matches, 12 thousand for
  lyrics, 14 thousand for sounds). Words are few, chosen by how they relate (equal, alike, one
  in the other, a phrase written as one word). Lines follow one another with a gap, an overlap
  or a blank stamp. A file's text is any three of the characters that mean something, or up
  to four tags and words. A song to measure has up to six samples.

Not bounds but assumptions: in `SongFetch` adopting always moves, always fails, or is
not shared, for a whole behaviour (`how`: it is a matter of how OnTheSpot's directory is
mounted), and clients take their audio within the hour that protects a folder, before
OnTheSpot restarts. In `LyricsShown` the overlay's `HIGHLIGHT_LEAD_SEC` is folded into the
times; `SplitRight` takes `FewestParts` from the whole width, spaces at the breaks included,
as the code does, so a line may get one part more than it needs.

## Fairness

- **Lock.** Weak fairness of each task's wake-up, of its release (the holder's work ends)
  and of the release loop: asyncio runs what is ready. None for arrivals and cancellations.
- **GpuJobs.** Weak, per job, of its producer and its unwinding (work ends, asyncio runs
  callbacks), of provisioning's steps and of the loop that passes the lock on. Clients
  need not leave, users need not download.
- **SessionHost.** Weak, per page, of `Goes(p)`: connections are answered, timers fire,
  events are delivered. None of users and faults, which are bounded.
- **SongQueue.** Weak of the reactions, which run synchronously. Strong of the ends of
  prepares, of waits and of a start's awaits: reactions, which come first, disable them again
  and again, but each promise does settle.
- **SongFetch.** Weak of "a job's step, a thread's step or a trim's removal": every job has
  finitely many, so none can starve another for ever.
- `SessionRelay`, `PlaybackEngine`, `AudioTransport` and the parts of `page` need none: their
  properties are safety. What must come about is stated there as what is under way when
  nothing shows yet (a timer, a request, a queued line).

## Proofs

Seven modules of theorems, and `SequenceLemmas`: what appending, taking, removing, moving
and inserting do to a sequence's elements, its order and its having no duplicates. `tlapm` checks
about 20 thousand obligations. Every theorem is about the specification the run of the same
component checks, for all values of its constants that meet the module's assumption, and for
sets of any size (sessions, jobs, songs and tabs are finite sets where something is counted
or searched). The bounds of [Bounds](#bounds) are constants like the others: `MaxFaults`,
`MaxCalls` … are any numbers. Each inductive invariant was a TLC invariant first, on the
instances of the run or smaller.

| Module | Assumes | Proves (`Spec =>`) | Property of a run |
|---|---|---|---|
| `GpuJobs_proof`, the lock | `LockAssumption`: no task is `NoTask` | `LockInvariant`, `LockMutualExclusion`, `LockNeverLost`, `WaitersAreServed`, `OvertakingIsBounded`, `LockImplementsMutex` | `LockInv`, `NoStrandedWaiter`, `BoundedOvertaking`, `ImplementsLaneMutex` |
| `GpuJobs_proof`, the jobs | `JobsAssumption`: a job has a lane and a song, the reload is no job | `GpuInvariant`, `JobsUseLock`, `GpuIsSafe`, `ScratchIsKept`, `WorkIsDoneOnce` | `GpuSafe`, `ScratchOutlivesWork`, `NoWorkTwice` |
| `SessionRelay_proof` | `RelayAssumption`: finitely many ids, a TTL of at least 1 | `RelayInvariant`, `MembersAreKept`, `RemotesConverge`, `ReplacedHearNoMore`; over the clock `ClocksOnly`, `IdleInvariant`, `IdleIsDropped`, `NoneDroppedEarly` | `RelaySafe`, `ViewsConverge`, `ReplacedIsFinal`, `DroppedInTime`, `NotDroppedEarly` |
| `Session_proof`, the host | `HostAssumption`: finitely many tabs; what has a track is a song | `HostInvariant`, `HostsAreSafe`; if not `Busy`: `QueueIsKept` | `HostsSafe`, `QueueKept` |
| `Session_proof`, the remote | `RemoteAssumption` | if no seek bar is among the sliders: `RemoteIsSafe` (of `RemotePartSpec`: the places while they are the remote's) | `RemoteSafe` |
| `SongQueue_proof` | `QueueAssumption`: finitely many songs | `QueueInvariant`, `VideosAreOfTheQueue`, `NextIsPreloaded`; if not `Impatient`: `OneStart`, `QueueIsSafe`, `NeverStalls`, `MovesOnUnhurried` | `VideosMatchQueue`, `PreloadIsNext`, `QueueSafe`, `NoStall` |
| `SongFetch_proof` | `SongFetchAssumption`: finitely many jobs and songs, a video slot | `FetchInvariant`, `FetchIsSafe`; if not `Torn`: `ToldIsThere` | `FetchSafe`, `AudioThere` |
| `Playback_proof` | `PlaybackAssumption`: a song has a length; `TransportAssumption`: rates aren't 0 | if not `Hasty`: `PlaybackInvariant`, `PageAgrees`, `HeardIsShown`, `EndIsScheduled`, `EndsAreHeard`, `StopIsFinal`; `TransportInvariant`, `TransportTypes`, `SeekIsShown`, `StretcherFollows`; of the two side by side (not `Hasty`) `PlaybackIsSafe` | `HeardWhereShown`, `EndScheduled`, `EndsPlayedOut`, `StopWins`, `ShownAfterSeek`, `StretchFollows`, `PlaybackSafe` |
| `Page_proof` | `PageAssumption` | `PrepareIsSafe`, `VideoIsSafe`, `ScoringIsSafe`, `MachineIsSafe` (of `PageSpec`) | `PrepareSafe`, `VideoSafe`, `ScoringSafe`, `MachineSafe` |

`RemoteAssumption` and `PageAssumption` say what kind of thing each constant is: sliders are of the
three kinds and `None` is no value of one; "no video" is no video and 1 is a speed; no process has
the id 0; a note's start, end and pitch, and what is sung, are whole numbers; bounds are natural
numbers. Three are about numbers of the code: a seek takes some time (`Latencies`),
`MAX_SEEK_LEAD_SEC` is at most `MAX_SEEK_WAIT_SEC`, and a song is long enough for its opening,
its ending and two segments between them not to touch.

The hypotheses `Busy`, `Impatient`, `Torn`, `Hasty` and a seek bar are the constants that admit what
[the violations](#what-the-violations-say) and [windows](#what-the-properties-allow) need; the
passing runs have them FALSE as well. What doesn't need one is proved without: whatever the
users do, the relay and the pages agree once quiet, and videos match the queue.

The arguments, and what the invariants add to the properties:

- **Lock.** `LockInv` was written to be inductive: that the lock has one owner follows only
  from who may hold it at all (`Owners`), that a grant isn't lost from which futures are in
  which queue, and that waiters are found from the rotation holding exactly the lanes with a
  queue. `TurnsInv` says of the monitor that a lane overtook a waiter at most once, and where it stands
  in the rotation if it has. `LockImplementsMutex` maps the owner to the one in `Owners` and a lane's
  queue to its live waiters in order (`Kept`): acquiring, granting, cancelling, discarding and
  releasing are steps of `LaneMutex` or change nothing of it (one lemma per action, `…Refines`). What
  `Kept` does for sequences of every length is by induction over the set of sequences it is right for,
  which first-order provers can use (`SequencesFromEmpty`).
- **GPU jobs.** The jobs take every step of theirs by the lock's own actions (`UsesLock`), so
  `LockInv` carries over by implication (`JobsUseLock`). Beside it, `LockUse` says where in
  its code a task holds or awaits the lock, `ThreadInv` what a thread does from where its
  producer is, `ModelsInv` that what a GPU job works on is in memory. That no work is done twice
follows from the lock: of two jobs for one song only one is between its look and its last file.
- **Relay.** `Shows(outbox, view, field, value)`: what a client believes once it has read what is
  queued for it. That it equals the session's state and host (`TruthInv`) is kept by each
  handler because a frame is queued in the same step as what it tells changes; `FinalInv` has a close
  last, and only in a replaced host's queue. The clock's theorems rest on the relay's through
  `ClocksOnly`.
- **Host.** `Shaped` is what a connection may bring its page: opened, then greeted, then closed. With it, a
  page hosts its session exactly while it is connected and its close isn't on its way
  (`RoleOK`), and once greeted the last state it published is what it shows (`ToldOK`). That the queue is
  kept needs more: of the only page of a session, that of what lasts (`Lasting`) the relay's copy, the states under way
  and the queue each hold what the one before holds (`Rising`), that one which hasn't restored has
  nothing yet, and that a page gives up a session only when it is gone (else another
  page would become the only one with a queue of its own).
- **Queue.** `PrepOK` and `DownOK` relate the item being prepared, each item's video and its
  wait; `SeenInv` says what the reactions did from what they last ran on, which is all that holds before they
  run again; `StartInv` ties the song starting to its one play.
- **Fetch.** `TaskInv` and `MoveInv` say who has a download's lock and file; `Kept` why what a client
  was told stays: a folder because it was just used, a file because only adopting moves it.
- **Playback.** The invariants are about the queue of commands: an idle page has a stop under way
  for whatever still plays, a loading page has one start to be answered and nothing that would
  stop it, a playing one only seeks and one pause or resume, and the last command that moves the
  engine leaves it where the output reckons. `CarriedInv` was missing from the first version: TLC's
  instances had not needed it, the proof of `Started` did. The engine's say, at each access to a shared
  atomic, what a command, a block, a change of device and a telemetry message may rely
  on (`SeeksInv`, `MovedInv`, `TickInv`, `FedInv`, `StretchInv`).

- **Prepare.** Beside the properties, in what order the tasks begin: of the mix, of the lyrics, of the
  download (`MixOrder`, `LyricsOrder`, `DownloadOrder`). A failure is told since `Said` and `Down`
  only add to the toasts, and the tasks that speak of it begin after the ones it excuses.
- **Video.** `LoadsRight`, `ElementsRight`: what is being loaded is for the element it is to show
  in, and an element that runs has the transport's speed. `FollowClock`'s are about one correction
  under way: where the video will be when it lands (`Corrected`), and how far off the last one
  says the lead is (`Measured`): the second lands where the first missed by.
- **Scoring.** `JudgedSoFar`: the outcome is what judging the notes from the first one on, over all that
  was heard, comes to. `Judge` is a recursive function over an unbounded sequence: it is only ever
  used as "a function that meets this equation", and that one exists for every number of notes is
  by the set of those numbers (`StepsExist`). What is heard later can't change it as a judged note's window is
  past (`JudgedPast`), and so are the windows before it: of notes that overlap, the next waits.
  `OctaveKept` then needs that the register is the octave kept to, however votes are weighted.
- **Remote.** `KnownInv`: the last message of the host's state on its way is the state, and if none
  is, the remote has it. `DraftInv`: a draft lands (it is pending and its timer runs, or the last
  message of it in `up` has it, or the host does) unless what will drop it is on its way in `down`.
  The seek bar is left out by hypothesis: a song that ends takes its own, and the draft stays.
- **Devices, backend.** `MicKept` follows the calls in their order; of the backend, who holds the
  lock (`LockHolds`) says which of the two processes may be, and `ProcsKnown` that every process is
  known by exactly one handle and, but for the one that links, to the exit handler.

Each proof has a lemma per action (or, where the invariant has many parts, per part), and
the theorem combines them.

Only model-checked:

- liveness (`OneNotStarved`, `AllEnd`, `Settles`, `QueueMovesOn`, `JobsEnd`): fairness and
  `ENABLED` are beyond the prover;
- `SoundSafe` and `UiSafe`: eleven modules, whose invariants have not been made inductive; nothing
  the prover lacks stands in the way;
- `AlgorithmsRight`: what an algorithm computes for every input needs an induction over
  data, whose theorems the installed provers cannot instantiate. (The way round by sets that
  `Kept`, `StepsExist` and the sequences' lemmas took needs a first-order statement for each
  algorithm's loop, and has not been tried on them.)

## Not modelled

`PROJECT.json` gives the reason for each component. In short: signal processing, model
pipelines and WebGL; views, navigation, layout and animation; the network's own formats and
wrappers of one request and its answer; build and deployment; the pitch sidecar and the session
gateway of the desktop. Inside the modelled
components: wording and layout of messages, logging, paths; labels and saved songs of the queue;
the `.utai` file and its zip; effects, delay, mixing and microphone of the native engine; the
browser's sink, gains and delay; vibrato and glides of the scoring; fonts and text metrics; decoded PCM copies and JSON results in the song folders.

## Plan

Theorems, of what only TLC has checked: the parts of `SoundSafe` and `UiSafe`, each moved from `MCPage`
to `Page` or a module like `RemotePart`, first those whose invariants are nearly inductive (`RoomRight` and
`InARow`, `NodesEnd`, `ReadingsRight`, `AlignRight`), last `NativeStream`'s. Then the
refinement that is left: the relay as `SessionHost` sees it against `SessionRelay`.

Models, if they are extended: PCM copies (`_make_pcm_once`) and results in `SongFetch`'s
folders; several tracks of a song in `NativeStream`, whose feeders share only the playhead; the
microphone's rings between input and output callbacks.
