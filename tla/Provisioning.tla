---------------------------- MODULE Provisioning ----------------------------
(***************************************************************************)
(* The page's notice of the models that are missing or outdated:           *)
(* frontend/src/provisioning/ over ui/toasts/.  A watch polls the          *)
(* backend's state until it settles; pressing Download starts another      *)
(* watch, whose first request is the download.  The backend's side is      *)
(* GpuJobs', here no more than its state.                                  *)
(***************************************************************************)
EXTENDS Naturals, Sequences

CONSTANTS MaxWatches, MaxToasts, MaxRestarts

VARIABLES state,                          \* the store's status; "none" before the first
          watches, watch,                 \* every watch made, and the one disposeWatch stops (0: none)
          debounce,
          toast, toastState, errorToast,  \* the notices' ids (0: none), and the state of the one it was shown for
          downloading,
          toasts, nextId,                 \* toastStore: [id, kind], newest first
          backend, restarts, local,       \* the backend; whether it's the desktop's own
          closed,                         \* what the user dismissed the notice in, and what for
          presses, successes              \* downloads asked for, and told to have succeeded

provVars == <<state, watches, watch, debounce, toast, toastState, errorToast, downloading, toasts, nextId,
              backend, restarts, local, closed, presses, successes>>
noticeVars == <<toast, toastState, errorToast, toasts, nextId>>

States  == {"checking", "available", "downloading", "ready", "error"}
Settled == {"available", "ready", "error"}

Watch(first) == [first |-> first, step |-> "asking", answer |-> "none", stopped |-> FALSE, reached |-> FALSE]

ProvInit ==
  /\ state = "none" /\ watches = <<>> /\ watch = 0 /\ debounce = FALSE
  /\ toast = 0 /\ toastState = "none" /\ errorToast = 0 /\ downloading = FALSE
  /\ toasts = <<>> /\ nextId = 1
  /\ backend = "checking" /\ restarts = 0 /\ local \in BOOLEAN
  /\ closed = {} /\ presses = 0 /\ successes = 0

(***************************************************************************)
(* The toasts.                                                             *)
(***************************************************************************)
IsShown(id) == \E n \in DOMAIN toasts : toasts[n].id = id
Without(list, id) == SelectSeq(list, LAMBDA t : t.id # id)
Shown(kind, list) == <<[id |-> nextId, kind |-> kind]>> \o list

\* A toast that is seen may be clicked away; three are.
Visible == {toasts[n] : n \in DOMAIN toasts \cap 1..3}

DismissByUser ==
  \E t \in Visible :
    /\ toasts' = Without(toasts, t.id)
    /\ closed' = IF t.id = toast THEN {state, toastState} ELSE closed
    /\ UNCHANGED <<state, watches, watch, debounce, toast, toastState, errorToast, downloading, nextId,
                   backend, restarts, local, presses, successes>>

AutoDismiss ==
  \E n \in DOMAIN toasts :
    /\ toasts[n].kind = "success" /\ toasts' = Without(toasts, toasts[n].id)
    /\ UNCHANGED <<state, watches, watch, debounce, toast, toastState, errorToast, downloading, nextId,
                   backend, restarts, local, closed, presses, successes>>

(***************************************************************************)
(* The presenter.                                                          *)
(***************************************************************************)
\* Mutant: a download leaves the watch before it alone.
StopNothing(w) == w

Stop(w) == IF watch = 0 THEN w ELSE [w EXCEPT ![watch].stopped = TRUE]

Begin(w, first) == watches' = Append(w, Watch(first)) /\ watch' = Len(w) + 1

Start ==
  /\ watches = <<>> /\ Begin(watches, "status")
  /\ UNCHANGED <<state, debounce, noticeVars, downloading, backend, restarts, local, closed, presses, successes>>

Fetch ==
  /\ Len(watches) < MaxWatches
  /\ Begin(Stop(watches), "download")
  /\ debounce' = FALSE /\ downloading' = TRUE /\ presses' = presses + 1
  /\ UNCHANGED <<backend, restarts, local, successes>>

\* Download and Later are the notice's while models are available.
Offered == IsShown(toast) /\ state = "available"

Download == Offered /\ Fetch /\ UNCHANGED <<state, noticeVars, closed>>

Later ==
  /\ Offered
  /\ watches' = Stop(watches) /\ watch' = 0 /\ debounce' = FALSE
  /\ toasts' = Without(toasts, toast) /\ toast' = 0 /\ toastState' = "none" /\ closed' = {state}
  /\ UNCHANGED <<state, errorToast, downloading, nextId, backend, restarts, local, presses, successes>>

Retry ==
  /\ IsShown(errorToast) /\ Fetch
  /\ toasts' = Without(Without(toasts, toast), errorToast)
  /\ toast' = 0 /\ toastState' = "none" /\ errorToast' = 0 /\ state' = "none" /\ closed' = {}
  /\ UNCHANGED nextId

\* Mutant: a notice the user dismissed for this state comes back with the next status.
DismissedNever(s) == FALSE

DismissedFor(s) == toast # 0 /\ toastState = s

\* showToast()
ShowToast(s) ==
  IF IsShown(toast) THEN toastState' = s /\ UNCHANGED <<toast, toasts, nextId>>
  ELSE IF DismissedFor(s) THEN UNCHANGED <<toast, toastState, toasts, nextId>>
  ELSE toast' = nextId /\ toastState' = s /\ toasts' = Shown("info", toasts) /\ nextId' = nextId + 1

\* The watch w reports the status s; it goes on unless s settles it.
OnReady(w) ==
  /\ watches' = Stop(w) /\ watch' = 0 /\ debounce' = FALSE /\ downloading' = FALSE
  /\ toast' = 0 /\ toastState' = "none" /\ UNCHANGED errorToast
  /\ LET rest == Without(toasts, toast) IN
     IF downloading THEN toasts' = Shown("success", rest) /\ nextId' = nextId + 1 /\ successes' = successes + 1
     ELSE toasts' = rest /\ UNCHANGED <<nextId, successes>>

\* Mutant: the error before stays beside the new one.
ErrorsPile == toasts

BeforeError == Without(Without(toasts, toast), errorToast)

OnError(w) ==
  /\ watches' = Stop(w) /\ watch' = 0 /\ debounce' = FALSE /\ downloading' = FALSE
  /\ toast' = 0 /\ toastState' = "none" /\ errorToast' = nextId
  /\ toasts' = Shown("error", BeforeError) /\ nextId' = nextId + 1
  /\ UNCHANGED successes

OnChecking(w) ==
  /\ watches' = w /\ debounce' = (debounce \/ ~IsShown(toast))
  /\ UNCHANGED <<watch, downloading, noticeVars, successes>>

\* available, downloading
OnOther(w, s) ==
  /\ watches' = w /\ debounce' = FALSE /\ downloading' = (downloading /\ s # "available")
  /\ ShowToast(s)
  /\ UNCHANGED <<watch, errorToast, successes>>

OnStatus(w, s) ==
  /\ state' = s /\ closed' = IF s \in closed \union {"checking"} THEN closed ELSE {}
  /\ \/ s = "ready" /\ OnReady(w)
     \/ s = "error" /\ OnError(w)
     \/ s = "checking" /\ OnChecking(w)
     \/ s \in {"available", "downloading"} /\ OnOther(w, s)

\* scheduleToast()'s timer.
Debounced ==
  /\ debounce /\ debounce' = FALSE /\ nextId <= MaxToasts
  /\ IF state = "checking" THEN ShowToast(state) ELSE UNCHANGED <<toast, toastState, toasts, nextId>>
  /\ closed' = IF nextId' = nextId THEN closed ELSE {}
  /\ UNCHANGED <<state, watches, watch, errorToast, downloading, backend, restarts, local, presses, successes>>

(***************************************************************************)
(* A watch: tick() until the state settles.                                *)
(***************************************************************************)
pageVars == <<state, watch, debounce, noticeVars, downloading, closed, presses, successes>>

\* begin_download(), refused while a check or a download is under way.
Asked(p) ==
  IF watches[p].first = "download" /\ backend \notin {"checking", "downloading"} THEN "downloading" ELSE backend

\* The backend gets the request; an aborted one may still get there.
Serve(p) ==
  /\ watches[p].step = "asking"
  /\ backend' = Asked(p)
  /\ watches' = [watches EXCEPT ![p].step = "served", ![p].answer = Asked(p)]
  /\ UNCHANGED <<pageVars, restarts, local>>

\* What comes back, "none" for a request or an answer that is lost, but for the
\* download's, which is told as an error.
Answers(p) ==
  (IF watches[p].step = "served" THEN {watches[p].answer} ELSE {})
    \union {IF watches[p].first = "download" THEN "error" ELSE "none"}

\* Nobody will ever answer: the page isn't the desktop's, and it has been long enough.
GivesUp(p) == ~local /\ ~watches[p].reached

Went(p, s) == [watches EXCEPT ![p].step = IF s \in Settled THEN "over" ELSE "waiting", ![p].answer = "none",
                              ![p].first = "status", ![p].reached = TRUE]

Answered(p) ==
  /\ watches[p].step \in {"asking", "served"} /\ nextId <= MaxToasts
  /\ \E s \in Answers(p) :
       \/ /\ watches[p].stopped
          /\ watches' = [watches EXCEPT ![p].step = "over", ![p].answer = "none", ![p].first = "status"]
          /\ UNCHANGED pageVars
       \/ ~watches[p].stopped /\ s # "none" /\ OnStatus(Went(p, s), s) /\ UNCHANGED presses
       \/ /\ ~watches[p].stopped /\ s = "none"
          /\ \E step \in {"waiting"} \union (IF GivesUp(p) THEN {"over"} ELSE {}) :
               watches' = [watches EXCEPT ![p].step = step, ![p].answer = "none", ![p].first = "status"]
          /\ UNCHANGED pageVars
  /\ UNCHANGED <<backend, restarts, local>>

\* The timer of tick(): a watch that was stopped ends.
Tick(p) ==
  /\ watches[p].step = "waiting"
  /\ watches' = [watches EXCEPT ![p].step = IF watches[p].stopped THEN "over" ELSE "asking"]
  /\ UNCHANGED <<pageVars, backend, restarts, local>>

\* The backend's check and download end; or it is started anew.
BackendMoves ==
  /\ \/ backend = "checking" /\ backend' \in {"available", "ready"} /\ UNCHANGED restarts
     \/ backend = "downloading" /\ backend' \in {"ready", "error"} /\ UNCHANGED restarts
     \/ restarts < MaxRestarts /\ backend' = "checking" /\ restarts' = restarts + 1
  /\ UNCHANGED <<pageVars, watches, local>>

ProvNext ==
  \/ Start \/ Download \/ Later \/ Retry \/ DismissByUser \/ AutoDismiss \/ Debounced \/ BackendMoves
  \/ \E p \in DOMAIN watches : Serve(p) \/ Answered(p) \/ Tick(p)

ProvSpec == ProvInit /\ [][ProvNext]_provVars

(***************************************************************************)
(* Properties                                                              *)
(***************************************************************************)
ProvTypes ==
  /\ state \in States \union {"none"} /\ backend \in States
  /\ watch \in 0..Len(watches) /\ toast < nextId /\ errorToast < nextId

\* However often Download and Retry are pressed, one watch reports, the one
\* that would be stopped.
OneWatch == \A p \in DOMAIN watches : ~watches[p].stopped /\ watches[p].step # "over" => p = watch

OfKind(kind) == {n \in DOMAIN toasts : toasts[n].kind = kind}

\* There is never more than one notice and one error, the presenter's own; an
\* error is never beside a notice of models to get, and none is left once they are
\* there.
OneNotice ==
  /\ \A n \in OfKind("info") : toasts[n].id = toast
  /\ \A n \in OfKind("error") : toasts[n].id = errorToast
  /\ state \in {"ready", "error"} => OfKind("info") = {}

\* A notice that isn't for a check comes up without delay and stays, until the
\* user dismisses it; and then it isn't shown again for the same state.  (As a
\* check doesn't set toastState, that holds across one: the backend that was
\* started anew may find models to get, and the notice is not shown.)
ShownUnlessClosed ==
  /\ state \in {"available", "downloading"} => IsShown(toast) = (state \notin closed)
  /\ debounce => state = "checking" /\ ~IsShown(toast)

\* Success is told once for a download that was asked for.
SuccessEarned == successes <= presses

ProvRight == OneWatch /\ OneNotice /\ ShownUnlessClosed /\ SuccessEarned
=============================================================================
