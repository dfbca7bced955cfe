------------------------------- MODULE GpuJobs -------------------------------
(***************************************************************************)
(* The backend's job streams and model reloads, sharing the GPU lock:      *)
(* aligner/app/job_stream.py, request_context.py, provisioning.py.         *)
(*                                                                         *)
(* A job is one request, served by two asyncio tasks.  The consumer        *)
(* (stream() and pump_with_heartbeat, run by Starlette) pulls envelopes    *)
(* from the producer (once_loaded, serialized_gpu_stream and job(), whose  *)
(* every pull is a task of its own), which stops at each `yield` (states   *)
(* "y...") until the next pull.  The producer's blocking work runs in      *)
(* threads.  Heartbeats change no state and are left out.                  *)
(*                                                                         *)
(* One provisioner loads the models at startup and, when the user asks,    *)
(* downloads new ones and reloads, draining the GPU jobs first.            *)
(***************************************************************************)
EXTENDS RoundRobinLock

CONSTANTS Jobs,           \* the requests
          Reloader,       \* the task of Provisioner._download()
          Songs, SongOf,  \* the song a job is for
          LaneOf,         \* the session lane of a job
          DefaultLane,    \* the lane "" the reload queues in
          MaxDownloads    \* bound: how often the user asks for a download

ASSUME JobsAssumption ==
  /\ Tasks = Jobs \cup {Reloader} /\ Reloader \notin Jobs
  /\ LaneOf \in [Jobs -> Lanes] /\ DefaultLane \in Lanes
  /\ SongOf \in [Jobs -> Songs]
  /\ MaxDownloads \in Nat

VARIABLES gpuOnly,    \* the jobs run with gpu=True (the others skip the lock)
          at,         \* where the job's producer is
          consumer,   \* where the job's consumer is
          thread,     \* the job's worker thread
          ver,        \* the model version the job's thread runs on
          scratch,    \* jobs whose scratch dir exists
          cached,     \* songs whose result, of the GPU or not, is on disk
          loaded,     \* ProvisionStatus._loaded
          pstate,     \* ProvisionStatus._state
          modelsLock, \* who holds Provisioner._models_lock
          startup,    \* where the startup _load() is
          reload,     \* where _download() is
          resident,   \* version of the models in memory, 0: none
          disk,       \* version of the models on disk
          downloads   \* downloads asked for so far

jobVars  == <<at, consumer, thread, ver, scratch, cached>>
provVars == <<loaded, pstate, modelsLock, startup, reload, resident, disk, downloads>>
allVars  == <<vars, jobVars, provVars>>

Yields == {"yLoading", "yQueued", "yRunning", "yResult"}

\* What a job computes, and caches when it is done.
Result(j) == <<SongOf[j], j \in gpuOnly>>

JTypeOK ==
  /\ gpuOnly \subseteq Jobs
  /\ at \in [Jobs -> Yields \cup {"new", "start", "loadWait", "loadWoken", "lockWait",
                                  "work", "workCancelled", "store", "align", "ended"}]
  /\ consumer \in [Jobs -> {"new", "pull", "unwind", "gone"}]
  /\ thread \in [Jobs -> {"none", "work", "stopping", "store"}]
  /\ ver \in [Jobs -> 0..(MaxDownloads + 1)]
  /\ scratch \subseteq Jobs /\ cached \subseteq Songs \X BOOLEAN
  /\ loaded \in BOOLEAN
  /\ pstate \in {"checking", "ready", "available", "downloading", "error"}
  /\ modelsLock \in {"free", "startup", "reload"}
  /\ startup \in {"start", "warm", "done"}
  /\ reload \in {"idle", "provision", "wantModels", "lockWait", "reset", "warm"}
  /\ resident \in 0..disk /\ disk \in 1..(MaxDownloads + 1)
  /\ downloads \in 0..MaxDownloads

JInit ==
  /\ Init
  /\ at = [j \in Jobs |-> "new"]
  /\ consumer = [j \in Jobs |-> "new"]
  /\ thread = [j \in Jobs |-> "none"]
  /\ ver = [j \in Jobs |-> 0]
  /\ scratch = {}
  /\ gpuOnly \in SUBSET Jobs
  /\ cached \in {{}, Songs \X BOOLEAN}
  /\ loaded = FALSE
  /\ pstate = "checking"
  /\ modelsLock = "free"
  /\ startup = "start"
  /\ reload = "idle"
  /\ resident = 0
  /\ disk = 1
  /\ downloads = 0

-----------------------------------------------------------------------------
\* The producer.

\* serialized_gpu_stream up to its first await or yield; _unlocked without GPU.
\* A free lock is taken at once; a held one is announced with `queued` first.
EnterStream(j) ==
  IF j \notin gpuOnly
  THEN at' = [at EXCEPT ![j] = "yRunning"] /\ UNCHANGED vars
  ELSE IF held
  THEN at' = [at EXCEPT ![j] = "yQueued"] /\ UNCHANGED vars
  ELSE at' = [at EXCEPT ![j] = "yRunning"] /\ AcquireFree(j)

\* The endpoint: the audio is read into a fresh scratch dir and the stream
\* opened, which answers a cached song straight away, without models or lock.
Request(j) ==
  /\ Quiet /\ at[j] = "new"
  /\ IF Result(j) \in cached
     THEN /\ at' = [at EXCEPT ![j] = "ended"]
          /\ consumer' = [consumer EXCEPT ![j] = "gone"]
          /\ UNCHANGED scratch
     ELSE /\ at' = [at EXCEPT ![j] = "start"]
          /\ consumer' = [consumer EXCEPT ![j] = "pull"]
          /\ scratch' = scratch \cup {j}
  /\ UNCHANGED <<vars, thread, ver, cached, provVars>>

\* once_loaded: say `loading` first, if they aren't.
PullFirst(j) ==
  /\ Quiet /\ at[j] = "start" /\ consumer[j] = "pull"
  /\ IF loaded THEN EnterStream(j)
     ELSE at' = [at EXCEPT ![j] = "yLoading"] /\ UNCHANGED vars
  /\ UNCHANGED <<consumer, thread, ver, scratch, cached, provVars>>

\* ... then wait for the Event.  A waiter it woke goes on even if the Event
\* has been cleared since (SetLoaded wakes them).
PullAfterLoading(j) ==
  /\ Quiet /\ at[j] = "yLoading" /\ consumer[j] = "pull"
  /\ IF loaded THEN EnterStream(j)
     ELSE at' = [at EXCEPT ![j] = "loadWait"] /\ UNCHANGED vars
  /\ UNCHANGED <<consumer, thread, ver, scratch, cached, provVars>>

LoadWoken(j) ==
  /\ Quiet /\ at[j] = "loadWoken" /\ consumer[j] = "pull"
  /\ EnterStream(j)
  /\ UNCHANGED <<consumer, thread, ver, scratch, cached, provVars>>

\* `queued` was sent: acquire, at once if the lock came free meanwhile.
PullAfterQueued(j) ==
  /\ Quiet /\ at[j] = "yQueued" /\ consumer[j] = "pull"
  /\ \/ AcquireFree(j) /\ at' = [at EXCEPT ![j] = "yRunning"]
     \/ AcquireWait(j, LaneOf[j]) /\ at' = [at EXCEPT ![j] = "lockWait"]
  /\ UNCHANGED <<consumer, thread, ver, scratch, cached, provVars>>

LockGranted(j) ==
  /\ at[j] = "lockWait" /\ Resume(j)
  /\ at' = [at EXCEPT ![j] = "yRunning"]
  /\ UNCHANGED <<consumer, thread, ver, scratch, cached, provVars>>

\* A worker thread starts (run_cancellable) on the models in memory or, without,
\* on new ones (Lazy.get).
StartWork(j, place) ==
  /\ at' = [at EXCEPT ![j] = place]
  /\ thread' = [thread EXCEPT ![j] = "work"]
  /\ resident' = IF resident = 0 THEN disk ELSE resident
  /\ ver' = [ver EXCEPT ![j] = resident']

\* Mutant: job() trusts stream()'s earlier look in the cache.
PullWithoutLook(j) ==
  /\ Quiet /\ at[j] = "yRunning" /\ consumer[j] = "pull"
  /\ StartWork(j, "work")
  /\ UNCHANGED <<vars, consumer, scratch, cached,
                 loaded, pstate, modelsLock, startup, reload, disk, downloads>>

\* `running` was sent: job() looks in the cache again, else starts the work.
PullAfterRunning(j) ==
  /\ Quiet /\ at[j] = "yRunning" /\ consumer[j] = "pull"
  /\ IF Result(j) \in cached
     THEN /\ at' = [at EXCEPT ![j] = "yResult"]
          /\ UNCHANGED <<thread, ver, resident>>
     ELSE StartWork(j, "work")
  /\ UNCHANGED <<vars, consumer, scratch, cached,
                 loaded, pstate, modelsLock, startup, reload, disk, downloads>>

\* serialized_gpu_stream's `finally`.
LeaveStream(j) == IF j \in gpuOnly THEN Release(j) ELSE UNCHANGED vars

\* Mutant: the GPU lock covers the work on the GPU, not the storing.
WorkDoneUnlocked(j) ==
  /\ Quiet /\ at[j] = "work" /\ consumer[j] = "pull" /\ j \in gpuOnly
  /\ at' = [at EXCEPT ![j] = "store"]
  /\ thread' = [thread EXCEPT ![j] = "store"]
  /\ LeaveStream(j)
  /\ UNCHANGED <<consumer, ver, scratch, cached, provVars>>

\* A GPU job's file (a stem, or the vocals to align with) is moved into the
\* song's folder by another thread: plain to_thread(store_file).
WorkDone(j) ==
  /\ Quiet /\ at[j] = "work" /\ consumer[j] = "pull" /\ j \in gpuOnly
  /\ at' = [at EXCEPT ![j] = "store"]
  /\ thread' = [thread EXCEPT ![j] = "store"]
  /\ UNCHANGED <<vars, consumer, ver, scratch, cached, provVars>>

\* Beats and an alignment are written at once (write_json).  Or the work raised,
\* or fell back: nothing is cached.
WorkWritten(j) ==
  /\ Quiet /\ at[j] \in {"work", "align"} /\ consumer[j] = "pull"
  /\ at' = [at EXCEPT ![j] = "yResult"]
  /\ thread' = [thread EXCEPT ![j] = "none"]
  /\ cached' \in {cached, cached \cup {Result(j)}}
  /\ UNCHANGED <<vars, consumer, ver, scratch, provVars>>

\* The last file is stored, or couldn't be.
StoreDone(j) ==
  /\ Quiet /\ at[j] = "store" /\ consumer[j] = "pull"
  /\ at' = [at EXCEPT ![j] = "yResult"]
  /\ thread' = [thread EXCEPT ![j] = "none"]
  /\ cached' \in {cached, cached \cup {Result(j)}}
  /\ UNCHANGED <<vars, consumer, ver, scratch, provVars>>

\* The vocals are stored, or couldn't be: align() goes on to the aligner.
AlignVocals(j) ==
  /\ Quiet /\ at[j] = "store" /\ consumer[j] = "pull"
  /\ StartWork(j, "align")
  /\ UNCHANGED <<vars, consumer, scratch, cached,
                 loaded, pstate, modelsLock, startup, reload, disk, downloads>>

PullAfterResult(j) ==
  /\ Quiet /\ at[j] = "yResult" /\ consumer[j] = "pull"
  /\ at' = [at EXCEPT ![j] = "ended"]
  /\ LeaveStream(j)
  /\ UNCHANGED <<consumer, thread, ver, scratch, cached, provVars>>

-----------------------------------------------------------------------------
\* The consumer.

\* The stream is over: stream()'s `finally` drops the scratch dir.
StreamOver(j) ==
  /\ Quiet /\ consumer[j] \in {"pull", "unwind"} /\ at[j] = "ended"
  /\ consumer' = [consumer EXCEPT ![j] = "gone"]
  /\ scratch' = scratch \ {j}
  /\ UNCHANGED <<vars, at, thread, ver, cached, provVars>>

\* Mutant: a pull under way is cancelled but not waited out.
DisconnectAtOnce(j) ==
  /\ Quiet /\ consumer[j] = "pull"
  /\ consumer' = [consumer EXCEPT ![j] = IF at[j] \in Yields THEN "gone" ELSE "unwind"]
  /\ scratch' = scratch \ {j}
  /\ IF at[j] = "lockWait" THEN Cancel(j) ELSE UNCHANGED vars
  /\ UNCHANGED <<at, thread, ver, cached, provVars>>

\* The client goes away, and Starlette cancels the consumer, which is in its
\* `wait_for`.  A pull under way is cancelled and waited out (wait_out); one
\* already done leaves the producer at a yield, to be finalized.
Disconnect(j) ==
  /\ Quiet /\ consumer[j] = "pull"
  /\ IF at[j] \in Yields
     THEN /\ consumer' = [consumer EXCEPT ![j] = "gone"]
          /\ scratch' = scratch \ {j}
     ELSE /\ consumer' = [consumer EXCEPT ![j] = "unwind"]
          /\ UNCHANGED scratch
  /\ IF at[j] = "lockWait" THEN Cancel(j) ELSE UNCHANGED vars
  /\ UNCHANGED <<at, thread, ver, cached, provVars>>

\* The cancelled pull raises where it awaits: outside the lock it just ends...
CancelPull(j) ==
  /\ Quiet /\ consumer[j] = "unwind"
  /\ at[j] \in {"start", "loadWait", "loadWoken"}
  /\ at' = [at EXCEPT ![j] = "ended"]
  /\ UNCHANGED <<vars, consumer, thread, ver, scratch, cached, provVars>>

\* ... in acquire() it leaves the queue, or passes the lock on...
CancelInLock(j) ==
  /\ at[j] = "lockWait"
  /\ ResumeCancelled(j) \/ ResumeGrantedCancelled(j)
  /\ at' = [at EXCEPT ![j] = "ended"]
  /\ UNCHANGED <<consumer, thread, ver, scratch, cached, provVars>>

\* Mutant: run_cancellable sets the token and raises, not waiting for the thread.
CancelWorkAtOnce(j) ==
  /\ Quiet /\ consumer[j] = "unwind" /\ at[j] \in {"work", "align"}
  /\ at' = [at EXCEPT ![j] = "ended"]
  /\ thread' = [thread EXCEPT ![j] = "stopping"]
  /\ LeaveStream(j)
  /\ UNCHANGED <<consumer, ver, scratch, cached, provVars>>

\* ... in run_cancellable it sets the token and waits for the thread, which
\* stops at its next check_cancelled(), before it goes on to release...
CancelWork(j) ==
  /\ Quiet /\ consumer[j] = "unwind" /\ at[j] \in {"work", "align"}
  /\ at' = [at EXCEPT ![j] = "workCancelled"]
  /\ thread' = [thread EXCEPT ![j] = "stopping"]
  /\ UNCHANGED <<vars, consumer, ver, scratch, cached, provVars>>

WorkStopped(j) ==
  /\ Quiet /\ at[j] = "workCancelled"
  /\ at' = [at EXCEPT ![j] = "ended"]
  /\ thread' = [thread EXCEPT ![j] = "none"]
  /\ LeaveStream(j)
  /\ UNCHANGED <<consumer, ver, scratch, cached, provVars>>

\* ... and in to_thread(store_file) it raises at once: the thread goes on.
CancelStore(j) ==
  /\ Quiet /\ consumer[j] = "unwind" /\ at[j] = "store"
  /\ at' = [at EXCEPT ![j] = "ended"]
  /\ LeaveStream(j)
  /\ UNCHANGED <<consumer, thread, ver, scratch, cached, provVars>>

\* The thread left behind stores the song's last file, or but the vocals, or fails to.
StoreAfterCancel(j) ==
  /\ Quiet /\ at[j] = "ended" /\ thread[j] = "store"
  /\ thread' = [thread EXCEPT ![j] = "none"]
  /\ cached' \in {cached, cached \cup {Result(j)}}
  /\ UNCHANGED <<vars, at, consumer, ver, scratch, provVars>>

\* Mutant: no `finally` around serialized_gpu_stream's job.
FinalizeHolding(j) ==
  /\ Quiet /\ consumer[j] = "gone" /\ at[j] \in Yields
  /\ at' = [at EXCEPT ![j] = "ended"]
  /\ UNCHANGED <<vars, consumer, thread, ver, scratch, cached, provVars>>

\* A producer left at a yield is closed by the event loop's asyncgen hook.
Finalize(j) ==
  /\ Quiet /\ consumer[j] = "gone" /\ at[j] \in Yields
  /\ at' = [at EXCEPT ![j] = "ended"]
  /\ IF at[j] \in {"yRunning", "yResult"} THEN LeaveStream(j) ELSE UNCHANGED vars
  /\ UNCHANGED <<consumer, thread, ver, scratch, cached, provVars>>

\* A turn of release()'s loop, of whichever task is in it.
ReleaseTurn ==
  /\ \E t \in Tasks : ReleaseLoop(t)
  /\ UNCHANGED <<jobVars, provVars>>

-----------------------------------------------------------------------------
\* The provisioner.

SetLoaded ==
  /\ loaded' = TRUE
  /\ at' = [j \in Jobs |-> IF at[j] = "loadWait" THEN "loadWoken" ELSE at[j]]

CheckDone ==
  /\ Quiet /\ pstate = "checking"
  /\ pstate' \in {"ready", "available", "error"}
  /\ UNCHANGED <<vars, jobVars, loaded, modelsLock, startup, reload, resident, disk, downloads>>

\* The startup _load(): no lock but _models_lock, as no job is let in yet.
StartupLoad ==
  /\ Quiet /\ startup = "start" /\ modelsLock = "free"
  /\ modelsLock' = "startup" /\ startup' = "warm" /\ loaded' = FALSE
  /\ UNCHANGED <<vars, jobVars, pstate, reload, resident, disk, downloads>>

StartupLoaded ==
  /\ Quiet /\ startup = "warm"
  /\ resident' = IF resident = 0 THEN disk ELSE resident
  /\ modelsLock' = "free" /\ startup' = "done"
  /\ SetLoaded
  /\ UNCHANGED <<vars, consumer, thread, ver, scratch, cached,
                 pstate, reload, disk, downloads>>

\* POST /provision/download, refused while a check or a download is under way.
Download ==
  /\ Quiet /\ downloads < MaxDownloads
  /\ pstate \notin {"checking", "downloading"}
  /\ pstate' = "downloading" /\ reload' = "provision" /\ downloads' = downloads + 1
  /\ UNCHANGED <<vars, jobVars, loaded, modelsLock, startup, resident, disk>>

\* Mutant: set_error keeps the message for the state.
ProvisionedMessage ==
  /\ Quiet /\ reload = "provision"
  /\ \/ reload' = "wantModels" /\ disk' = disk + 1 /\ UNCHANGED pstate
     \/ reload' = "idle" /\ pstate' = "No space left" /\ UNCHANGED disk
  /\ UNCHANGED <<vars, jobVars, loaded, modelsLock, startup, resident, downloads>>

Provisioned ==
  /\ Quiet /\ reload = "provision"
  /\ \/ reload' = "wantModels" /\ disk' = disk + 1 /\ UNCHANGED pstate
     \/ reload' = "idle" /\ pstate' = "error" /\ UNCHANGED disk
  /\ UNCHANGED <<vars, jobVars, loaded, modelsLock, startup, resident, downloads>>

\* Mutant: the reload doesn't drain the GPU jobs.
ReloadUndrained ==
  /\ Quiet /\ reload = "wantModels" /\ modelsLock = "free"
  /\ modelsLock' = "reload" /\ loaded' = FALSE /\ reload' = "reset"
  /\ pc' = [pc EXCEPT ![Reloader] = "holding"]
  /\ UNCHANGED <<held, order, waiters, fut, mustCancel,
                 jobVars, pstate, startup, resident, disk, downloads>>

\* _load(reload=True): no new job is let in while the GPU jobs are drained.
ReloadStart ==
  /\ Quiet /\ reload = "wantModels" /\ modelsLock = "free"
  /\ modelsLock' = "reload" /\ loaded' = FALSE
  /\ \/ AcquireFree(Reloader) /\ reload' = "reset"
     \/ AcquireWait(Reloader, DefaultLane) /\ reload' = "lockWait"
  /\ UNCHANGED <<jobVars, pstate, startup, resident, disk, downloads>>

ReloadGranted ==
  /\ reload = "lockWait" /\ Resume(Reloader)
  /\ reload' = "reset"
  /\ UNCHANGED <<jobVars, loaded, pstate, modelsLock, startup, resident, disk, downloads>>

ModelsReset ==
  /\ Quiet /\ reload = "reset"
  /\ reload' = "warm" /\ resident' = 0
  /\ UNCHANGED <<vars, jobVars, loaded, pstate, modelsLock, startup, disk, downloads>>

\* warm_models() is done: release the GPU, let the jobs in, report ready.
ModelsWarm ==
  /\ Quiet /\ reload = "warm"
  /\ resident' = IF resident = 0 THEN disk ELSE resident
  /\ reload' = "idle" /\ pstate' = "ready" /\ modelsLock' = "free"
  /\ Release(Reloader)
  /\ SetLoaded
  /\ UNCHANGED <<consumer, thread, ver, scratch, cached, startup, disk, downloads>>

-----------------------------------------------------------------------------
Produce(j) ==
  \/ PullFirst(j) \/ PullAfterLoading(j) \/ LoadWoken(j) \/ PullAfterQueued(j)
  \/ LockGranted(j) \/ PullAfterRunning(j) \/ WorkDone(j) \/ WorkWritten(j)
  \/ StoreDone(j) \/ AlignVocals(j) \/ PullAfterResult(j)

Unwind(j) ==
  \/ StreamOver(j) \/ CancelPull(j) \/ CancelInLock(j) \/ CancelWork(j)
  \/ WorkStopped(j) \/ CancelStore(j) \/ StoreAfterCancel(j) \/ Finalize(j)

Provision ==
  \/ CheckDone \/ StartupLoad \/ StartupLoaded \/ Provisioned
  \/ ReloadStart \/ ReloadGranted \/ ModelsReset \/ ModelsWarm

JNext ==
  \/ \E j \in Jobs : Request(j) \/ Produce(j) \/ Disconnect(j) \/ Unwind(j)
  \/ Download \/ Provision
  \/ ReleaseTurn

JSpec == JInit /\ [][JNext /\ UNCHANGED gpuOnly]_<<allVars, gpuOnly>>

\* Tasks that can run do, threads end; requests, disconnects and downloads are
\* the users' choice.
JFairness ==
  /\ \A j \in Jobs : WF_allVars(Produce(j)) /\ WF_allVars(Unwind(j))
  /\ WF_allVars(Provision) /\ WF_allVars(ReleaseTurn)

JFairSpec == JSpec /\ JFairness

-----------------------------------------------------------------------------
\* The GPU is one resource: at most one GPU job's thread or model reload works
\* on it, and the lock is never released under a job still running on it
\* (run_cancellable), whenever its client goes away.
OnGpu == {j \in gpuOnly : thread[j] \in {"work", "stopping"}}
             \cup IF reload \in {"reset", "warm"} THEN {Reloader} ELSE {}

GpuExclusive ==
  \A t, u \in OnGpu : t = u /\ pc[t] = "holding"

\* "One still running would keep the old models resident beside the new ones,
\* or build its own" (provisioning.py): a GPU job's thread always runs on the
\* models in memory.
OneModelSet == \A j \in gpuOnly : thread[j] \in {"work", "stopping"} => ver[j] = resident

\* A job's scratch dir is there as long as its work runs, though the client
\* may go away at any time ("so the caller's cleanup can't pull its temp files
\* from under it", pump_with_heartbeat).
ScratchOutlivesWork ==
  \A j \in Jobs : thread[j] \in {"work", "stopping"} => j \in scratch

\* The same, of every thread of the job, as that comment says.
ScratchOutlivesJob == \A j \in Jobs : thread[j] # "none" => j \in scratch

\* A GPU job at work: from its look in the cache to its last file's storing.
AtWork(j) == j \in gpuOnly /\ at[j] \in {"work", "workCancelled", "store", "align"}

\* A thread of a cancelled job is still storing the result of j's job.
LeftStoring(j) == \E k \in Jobs : at[k] = "ended" /\ thread[k] = "store" /\ Result(k) = Result(j)

\* Two sessions preparing the same song don't both do its work: what a GPU job
\* is at work on is not on disk, nor comes there meanwhile by anyone else's
\* work.  The lock is held from the look in the cache until the last file is
\* stored, through every disconnect; only a thread left behind by a cancelled
\* job (CancelStore) may store its file under the next job's work.
NoWorkTwice ==
  [][\A j \in Jobs : AtWork(j)' /\ Result(j) \in cached' =>
       AtWork(j) /\ (Result(j) \in cached \/ LeftStoring(j))]_allVars

\* Every stream that starts ends, and every reload too: jobs wait for models,
\* a reload waits for jobs, and neither waits for the other for ever.
AllEnd ==
  /\ \A j \in Jobs : at[j] = "start" ~> at[j] = "ended"
  /\ reload = "wantModels" ~> (reload = "idle" /\ loaded)

\* Types, and the GPU's one user, on the models in memory.
GpuSafe == JTypeOK /\ GpuExclusive /\ OneModelSet

\* For the runs: the jobs are of sessions of their own, and for one song.
MCTasks  == Jobs \cup {Reloader}
MCSongOf == [j \in Jobs |-> CHOOSE s \in Songs : TRUE]
MCLaneOf == CHOOSE lane \in [Jobs -> Lanes \ {DefaultLane}] : \A i, j \in Jobs : lane[i] = lane[j] => i = j
=============================================================================
