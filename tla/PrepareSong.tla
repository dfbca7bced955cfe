----------------------------- MODULE PrepareSong -----------------------------
(***************************************************************************)
(* frontend/src/queue/prepare_song.ts, with the clients it calls: from a   *)
(* queued source to a song to play.  Requests run side by side; what waits *)
(* for several of them (a Promise.all) goes on as soon as the last is in,  *)
(* so the Begin... actions come before anything else (Waiting).            *)
(*                                                                         *)
(* An ended task has its answer: "ok", "none" (nothing found), "error",    *)
(* "models" (424: not downloaded), "unreachable" (no answer) or "aborted". *)
(* The two searches answer "native", "romanised" (matches, the best one in *)
(* no script of the sung language) or "none".                              *)
(***************************************************************************)
EXTENDS Naturals, FiniteSets

Public  == {"itunes", "lrclib", "segments", "byArtist", "byTitle"}
Searches == {"byArtist", "byTitle"}
Jobs    == {"separate", "beats", "align"}        \* the backend's streaming jobs
Backend == Jobs \union {"bytes", "language", "pitch"}
Tasks   == Public \union Backend \union {"duration"}
Failures == {"error", "models", "unreachable", "aborted"}
Ends    == Failures \union {"ok", "none", "native", "romanised"}

VARIABLES source,    \* what is constant of the source
          task,    \* of each task: "idle", "run", or its end
          cut,     \* the signal is aborted
          dl, job, orphan,  \* the page's fetch job, the backend's, and one whose id the page never got
          phase, stage, loading, match,
          told,    \* toasts shown, by what they say
          local    \* the desktop's own backend: "up" (or in no desktop), "starting", "failed"

rVars == <<source, task, cut, dl, job, orphan, phase, stage, loading, match, told, local>>

Song(kind, names, has) ==
  [kind |-> kind, names |-> names, titled |-> "title" \in has, hasVideo |-> "video" \in has,
   known |-> "length" \in has, decodable |-> "bad" \notin has]
\* Files with one name to search by, none, or what can't be decoded; tracks
\* named by an uploader or a service, with a video or not, of known length or not.
SongKinds ==
  {Song("file", "both", {}), Song("file", "none", {}), Song("file", "one", {"bad"}),
   Song("streaming", "both", {"title", "video"}), Song("streaming", "one", {"title", "length"}),
   Song("streaming", "both", {"video", "length"}), Song("streaming", "one", {"bad"})}
Quiet   == {"itunes", "lrclib", "segments", "beats", "language", "pitch"}  \* a failure is as good as nothing found
EndedTask(t) == task[t] \in Ends
OfTask(t, is) == [task EXCEPT ![t] = is]

RInit ==
  /\ source \in SongKinds
  /\ cut = FALSE
  /\ dl = (IF source.kind = "streaming" THEN "posting" ELSE "none") /\ job = "none" /\ orphan = FALSE
  /\ task = [t \in Tasks |->
       CASE t = "itunes"   -> IF source.titled THEN "run" ELSE "ok"
         [] t = "segments" -> IF source.hasVideo THEN "run" ELSE "none"
         [] t = "bytes"    -> IF source.kind = "file" THEN "ok" ELSE "idle"
         [] t = "duration" -> IF source.kind = "file" THEN "run" ELSE IF source.known THEN "ok" ELSE "idle"
         [] OTHER          -> "idle"]
  /\ phase = "fetching" /\ stage = (IF source.kind = "streaming" THEN "downloading" ELSE "none")
  /\ loading = {} /\ match = "unknown" /\ told = {}
  /\ local \in {"up", "starting"}

(***************************************************************************)
(* What waits for what.  The audio is in once it's fetched from where the  *)
(* fetch job left it ("bytes").                                            *)
(***************************************************************************)
Identified  == EndedTask("itunes") /\ task["lrclib"] # "run"
LookedUp    == Identified /\ EndedTask("segments")
MusicKnown  == LookedUp /\ task["duration"] = "ok"
AudioFailed == (dl = "failed" /\ task["bytes"] = "idle") \/ task["bytes"] \in Failures
NoSource    == AudioFailed \/ task["duration"] \in Failures
CanRetry    == source.names = "both"

\* The artist's matches, once the sung language is known: without one, any script will do.
InLanguage(found) == found = "native" \/ (found = "romanised" /\ task["language"] # "ok")
NeedsTitle == CanRetry /\ ~InLanguage(task["byArtist"])

DurationDue == phase = "fetching" /\ LookedUp /\ task["duration"] = "idle" /\ task["bytes"] = "ok"
SearchDue   == MusicKnown /\ task["byArtist"] = "idle"
MixDue      == phase = "fetching" /\ MusicKnown /\ task["bytes"] = "ok"
RejectDue   == phase = "fetching" /\ NoSource
LanguageDue == phase = "mixing" /\ EndedTask("separate") /\ task["language"] = "idle"
PickDue     == phase = "mixing" /\ match = "unknown" /\ EndedTask("language") /\ EndedTask("byArtist")
               /\ task["byTitle"] # "run"
AlignDue    == phase = "mixing" /\ match # "unknown" /\ EndedTask("separate") /\ EndedTask("beats")
ReturnDue   == phase = "aligning" /\ (task["align"] = "aborted" \/ {task["align"], task["pitch"]} \intersect {"run"} = {})

Waiting == DurationDue \/ SearchDue \/ MixDue \/ RejectDue \/ LanguageDue \/ PickDue \/ AlignDue \/ ReturnDue

BeginDuration ==
  /\ DurationDue /\ task' = OfTask("duration", "run")
  /\ UNCHANGED <<source, cut, dl, job, orphan, phase, stage, loading, match, told, local>>

\* With neither title nor artist there's nothing to search for.
BeginSearch ==
  /\ SearchDue /\ task' = OfTask("byArtist", IF source.names = "none" THEN "none" ELSE "run")
  /\ UNCHANGED <<source, cut, dl, job, orphan, phase, stage, loading, match, told, local>>

BeginMix ==
  /\ MixDue /\ ~SearchDue /\ phase' = "mixing" /\ stage' = "separating"
  /\ task' = [task EXCEPT !["separate"] = "run", !["beats"] = "run"]
  /\ UNCHANGED <<source, cut, dl, job, orphan, loading, match, told, local>>

RejectPrepare ==
  /\ RejectDue /\ phase' = "rejected"
  /\ UNCHANGED <<source, task, cut, dl, job, orphan, stage, loading, match, told, local>>

BeginLanguage ==
  /\ LanguageDue /\ task' = OfTask("language", IF task["separate"] = "ok" THEN "run" ELSE "none")
  /\ UNCHANGED <<source, cut, dl, job, orphan, phase, stage, loading, match, told, local>>

\* Mutant: the title is searched for only when the artist's matches are none.
PickOnMiss(parsed) ==
  /\ PickDue
  /\ IF CanRetry /\ task["byArtist"] \notin {"native", "romanised"} /\ task["byTitle"] = "idle"
       THEN task' = OfTask("byTitle", "run") /\ UNCHANGED match
       ELSE LET best == CASE NeedsTitle /\ task["byTitle"] \in Ends /\ InLanguage(task["byTitle"]) -> task["byTitle"]
                          [] OTHER -> task["byArtist"] IN
              match' = (IF best \in {"native", "romanised"} /\ parsed THEN "found" ELSE "missed") /\ UNCHANGED task
  /\ UNCHANGED <<source, cut, dl, job, orphan, phase, stage, loading, told, local>>

\* searchSyncedLyrics()'s pick: the artist's best, else the title's if it's in
\* the sung language; lyrics without a line that parses are none.
Pick(parsed) ==
  /\ PickDue
  /\ IF NeedsTitle /\ task["byTitle"] = "idle"
       THEN task' = OfTask("byTitle", "run") /\ UNCHANGED match
       ELSE LET best == IF NeedsTitle /\ InLanguage(task["byTitle"]) THEN task["byTitle"] ELSE task["byArtist"] IN
              match' = (IF best \in {"native", "romanised"} /\ parsed THEN "found" ELSE "missed") /\ UNCHANGED task
  /\ UNCHANGED <<source, cut, dl, job, orphan, phase, stage, loading, told, local>>

BeginAlign ==
  /\ AlignDue
  /\ phase' = IF cut THEN "rejected" ELSE "aligning"
  /\ IF cut THEN UNCHANGED <<task, stage>>
     ELSE /\ task' = [task EXCEPT !["align"] = IF match = "found" THEN "run" ELSE @,
                                  !["pitch"] = IF task["separate"] = "ok" THEN "run" ELSE @]
          /\ stage' = IF match = "found" THEN "aligning" ELSE stage
  /\ UNCHANGED <<source, cut, dl, job, orphan, loading, match, told, local>>

Return ==
  /\ ReturnDue /\ phase' = IF cut THEN "rejected" ELSE "returned"
  /\ UNCHANGED <<source, task, cut, dl, job, orphan, stage, loading, match, told, local>>

Begin == BeginDuration \/ BeginSearch \/ BeginMix \/ RejectPrepare \/ BeginLanguage
         \/ (\E parsed \in BOOLEAN : Pick(parsed)) \/ BeginAlign \/ Return

(***************************************************************************)
(* Answers.                                                                *)
(***************************************************************************)

\* backendFetch(): one "Server is down" at a time, none while the desktop's
\* own backend isn't up.
Down(r, also) == also \union IF r = "unreachable" /\ local = "up" THEN {"serverDown"} ELSE {}

\* Mutant: missing models are always taken for reported.
SaidQuietly(t, r) ==
  CASE t = "separate" /\ r \in {"error", "models"} -> {"keptFullMix"}
    [] t = "align" /\ r = "error" -> {"alignFailed"}
    [] OTHER -> {}

\* What a failed task says, beyond that the server is down.
Said(t, r) ==
  CASE t = "separate" /\ r \in {"error", "models"} -> {"keptFullMix"}
    [] t = "align" /\ (r = "error" \/ (r = "models" /\ task["separate"] = "ok")) -> {"alignFailed"}
    [] OTHER -> {}

\* The signal ends everything but a probe of the length, which has none; the
\* desktop's backend is waited for until it's up, or failed.
MayEnd(t, r) ==
  /\ task[t] = "run"
  /\ r = "aborted" <=> (cut /\ t # "duration")
  /\ r \in {"aborted"} \union
       CASE t \in Searches               -> {"native", "romanised", "none"}
         [] t \in Public \ Searches       -> {"ok", "none"}
         [] t \in {"separate", "align"}   -> {"ok", "error", "models", "unreachable"}
         [] t = "duration"                -> {IF source.decodable THEN "ok" ELSE "error"}
         [] t = "bytes"                   -> {"ok", "error", "unreachable"}
         [] OTHER                         -> {"ok", "none", "unreachable"}
  /\ (t \in Backend /\ r # "aborted") => (local # "starting" /\ (local = "failed" => r = "unreachable"))

\* trackStage(): loadingModels while a job run through the tracker loads them.
Reported(ld) == IF ld # {} THEN "loadingModels" ELSE IF phase = "mixing" THEN "separating" ELSE "aligning"

\* Mutant: a job that ends while loading is still counted.
AnswerWithoutFinally(t, r) ==
  /\ ~Waiting /\ MayEnd(t, r)
  /\ task' = [u \in Tasks |->
       CASE u = t -> IF t \in Quiet /\ r # "ok" THEN "none" ELSE r
         [] u = "lrclib" /\ t = "itunes" /\ r # "ok" /\ ~cut -> "run"
         [] u = "byTitle" /\ t = "byArtist" /\ r \notin {"native", "romanised"} /\ CanRetry -> "run"
         [] OTHER -> task[u]]
  /\ told' = Down(r, told \union Said(t, r))
  /\ UNCHANGED <<source, cut, dl, job, orphan, phase, stage, loading, match, local>>

\* A miss on iTunes asks LRCLIB, a miss of the artist's lyrics searches by title.
Answered(t, r) ==
  /\ ~Waiting /\ MayEnd(t, r)
  /\ task' = [u \in Tasks |->
       CASE u = t -> IF t \in Quiet /\ r # "ok" THEN "none" ELSE r
         [] u = "lrclib" /\ t = "itunes" /\ r # "ok" /\ ~cut -> "run"
         [] u = "byTitle" /\ t = "byArtist" /\ r \notin {"native", "romanised"} /\ CanRetry -> "run"
         [] OTHER -> task[u]]
  /\ told' = Down(r, told \union Said(t, r))
  /\ loading' = loading \ {t} /\ stage' = IF t \in loading THEN Reported(loading \ {t}) ELSE stage
  /\ UNCHANGED <<source, cut, dl, job, orphan, phase, match, local>>

\* A job's progress: it waits for its models, or runs.
Progress(t) ==
  /\ ~Waiting /\ t \in Jobs /\ task[t] = "run" /\ ~cut /\ local = "up"
  /\ \E ld \in {loading \union {t}, loading \ {t}} :
       ld # loading /\ loading' = ld /\ stage' = Reported(ld)
  /\ UNCHANGED <<source, task, cut, dl, job, orphan, phase, match, told, local>>

(***************************************************************************)
(* downloadTrack(): a job started, polled, and cancelled with the signal.  *)
(***************************************************************************)
Posted(r) ==
  /\ ~Waiting /\ dl = "posting" /\ r \in {"ok", "error", "unreachable", "aborted"}
  /\ r = "aborted" <=> cut
  /\ r # "aborted" => (local # "starting" /\ (local = "failed" => r = "unreachable"))
  /\ dl' = IF r = "ok" THEN "polling" ELSE "failed"
  /\ orphan' \in {FALSE, (r \in {"aborted", "unreachable"} /\ local = "up")}
  /\ job' = IF r = "ok" \/ orphan' THEN "running" ELSE job
  /\ told' = Down(r, told)
  /\ UNCHANGED <<source, task, cut, phase, stage, loading, match, local>>

\* A poll finds the audio, which may have to be fetched here; the video is the queue's to wait for.
Polled(r, held) ==
  /\ ~Waiting /\ dl = "polling" /\ r \in {"ok", "error", "unreachable", "aborted"}
  /\ r = "aborted" <=> cut
  /\ job = "failed" => r \in {"error", "unreachable", "aborted"}
  /\ dl' = IF r # "ok" THEN "failed" ELSE IF job = "audio" THEN "ended" ELSE dl
  /\ task' = IF r = "ok" /\ job = "audio"
               THEN OfTask("bytes", IF held THEN "ok" ELSE "run") ELSE task
  /\ told' = Down(r, told)
  /\ UNCHANGED <<source, cut, job, orphan, phase, stage, loading, match, local>>

JobGoesOn ==
  /\ ~Waiting /\ job = "running" /\ dl = "polling" /\ job' \in {"audio", "failed"}
  /\ UNCHANGED <<source, task, cut, dl, orphan, phase, stage, loading, match, told, local>>

\* Mutant: the signal only ends the polling.
AbortPage ==
  /\ ~Waiting /\ ~cut /\ cut' = TRUE
  /\ UNCHANGED <<source, task, dl, job, orphan, phase, stage, loading, match, told, local>>

\* The queue drops the song: the backend is told, if the page knows the job.
AbortPrepare ==
  /\ ~Waiting /\ ~cut /\ cut' = TRUE
  /\ job' = IF ~orphan /\ job \in {"running", "audio"} THEN "cancelled" ELSE job
  /\ UNCHANGED <<source, task, dl, orphan, phase, stage, loading, match, told, local>>

LocalBackend ==
  /\ ~Waiting /\ local = "starting" /\ local' \in {"up", "failed"}
  /\ UNCHANGED <<source, task, cut, dl, job, orphan, phase, stage, loading, match, told>>

RNext ==
  \/ Begin
  \/ ~Waiting /\ \/ \E t \in {u \in Tasks : task[u] = "run"} : (\E r \in Ends : Answered(t, r)) \/ Progress(t)
                 \/ \E r \in Ends : Posted(r) \/ \E held \in BOOLEAN : Polled(r, held)
                 \/ JobGoesOn \/ AbortPrepare \/ LocalBackend

RSpec == RInit /\ [][RNext]_rVars

(***************************************************************************)
(* Properties.                                                             *)
(***************************************************************************)

\* Types.
RTypes ==
  /\ source \in SongKinds /\ task \in [Tasks -> {"idle", "run"} \union Ends]
  /\ {cut, orphan} \subseteq BOOLEAN
  /\ dl \in {"none", "posting", "polling", "ended", "failed"}
  /\ job \in {"none", "running", "audio", "failed", "cancelled"}
  /\ phase \in {"fetching", "mixing", "aligning", "returned", "rejected"}
  /\ stage \in {"none", "downloading", "loadingModels", "separating", "aligning"}
  /\ loading \subseteq Jobs /\ match \in {"unknown", "found", "missed"}
  /\ told \subseteq {"serverDown", "keptFullMix", "alignFailed"} /\ local \in {"up", "starting", "failed"}

\* "Every backend step is best-effort except getting decodable audio"
\* (prepare_song.ts:6): no other failure loses the song.
OnlyAudioFails == phase = "rejected" => cut \/ NoSource

\* The stage shown is what goes on: models are said to load exactly while a
\* job of the phase waits for them, and never once it's over.
StageTrue ==
  /\ stage = "loadingModels" <=> loading # {}
  /\ loading \subseteq {t \in Jobs : task[t] = "run"}
  /\ phase = "mixing" => stage \in {"loadingModels", "separating"}

\* A song that goes without stems, or whose words couldn't be aligned, says
\* why: one of the toasts is there (the desktop reports a backend that failed).
FailuresTold ==
  /\ task["separate"] \in Failures \ {"aborted"} => told \intersect {"keptFullMix", "serverDown"} # {} \/ local = "failed"
  /\ task["align"] \in Failures \ {"aborted"} => told # {} \/ local = "failed"
  /\ task["align"] = "models" /\ task["separate"] = "ok" => "alignFailed" \in told

\* Lyrics are given up only when no search that may be made has any in the
\* sung language.
LyricsNotMissed ==
  phase \in {"aligning", "returned"} /\ CanRetry /\ ~InLanguage(task["byArtist"])
    => EndedTask("byTitle")

\* A song that is dropped leaves no download running at the backend, but for
\* one whose request was aborted, or lost, before it was answered.
NoDownloadLeft == cut /\ job \in {"running", "audio"} => orphan

\* What prepare_song.ts promises of a song, however its parts fail.
PreparedRight == OnlyAudioFails /\ StageTrue /\ FailuresTold /\ LyricsNotMissed /\ NoDownloadLeft
=============================================================================
