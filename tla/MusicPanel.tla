----------------------------- MODULE MusicPanel -----------------------------
(***************************************************************************)
(* Searching the streaming services and settling which of them comes       *)
(* first: frontend/src/music_source/.  A search supersedes the one before; *)
(* a change of the settings is a request of its own whose answer is what   *)
(* the page shows then, and nothing orders two of them: overlapped         *)
(* remembers that two were under way, or one failed, since it was all      *)
(* loaded with nothing else under way, and lost that there ever were.      *)
(***************************************************************************)
EXTENDS Naturals, Sequences, FiniteSets, SequencesExt

CONSTANTS Queries, MaxSearches,     \* the searches
          Services, Account,        \* the catalog, as a sequence, and the service that takes an account
          MaxCalls, MaxWrites       \* settings: under way at once, and in all

VARIABLES searchQuery, phase, results, selectedId,  \* the store's
          searches, searchRequestId,                \* every search made; the last one's number
          queued,                                   \* what was last added to the queue
          services, config, loaded,                 \* the store's: who is signed in, the order; loaded
          calls, writes, overlapped, lost,          \* requests about the settings
          session, busy,                            \* SpotifyOAuthControls
          signed, order,                            \* the backend's
          meant                                     \* the order the user's presses add up to

searchVars   == <<searchQuery, phase, results, selectedId, searches, searchRequestId, queued>>
settingsVars == <<services, config, loaded, calls, writes, overlapped, lost, session, busy, signed, order, meant>>
panelVars    == <<searchVars, settingsVars>>

NoQuery == "none"
NoResults == [of |-> NoQuery, tracks |-> {}]
Catalog == ToSet(Services)
NoOrder == <<>>                  \* config is null

PanelInit ==
  /\ searchQuery = NoQuery /\ phase = "idle" /\ results = NoResults /\ selectedId = NoQuery
  /\ searches = <<>> /\ searchRequestId = 0 /\ queued = NoResults
  /\ services = {} /\ config = NoOrder /\ loaded = FALSE /\ calls = <<>> /\ writes = 0 /\ overlapped = FALSE /\ lost = FALSE
  /\ session = FALSE /\ busy = FALSE
  /\ signed \in SUBSET {Account} /\ order = Services /\ meant = Services

(***************************************************************************)
(* Searching.                                                              *)
(***************************************************************************)
SetQuery(q) ==
  /\ q # searchQuery /\ searchQuery' = q
  /\ UNCHANGED <<phase, results, selectedId, searches, searchRequestId, queued, settingsVars>>

\* Mutant: the pick of the results before stays.
PickStays == selectedId

NoPick == NoQuery

\* search(): the form can't be submitted without a query.
Search ==
  /\ searchQuery # NoQuery /\ Len(searches) < MaxSearches
  /\ searchRequestId' = searchRequestId + 1
  /\ searches' = Append(searches, [of |-> searchQuery, pending |-> TRUE])
  /\ phase' = "searching" /\ selectedId' = NoPick
  /\ UNCHANGED <<searchQuery, results, queued, settingsVars>>

\* Mutant: an answer that was overtaken counts.
AnyAnswer(n) == TRUE

IsCurrent(n) == n = searchRequestId

\* An answer, an abort or a failure: a search that was overtaken leaves no trace.
Searched(n) ==
  /\ searches[n].pending /\ searches' = [searches EXCEPT ![n].pending = FALSE]
  /\ \/ ~IsCurrent(n) /\ UNCHANGED <<phase, results, selectedId>>
     \/ IsCurrent(n) /\ phase' = "error" /\ UNCHANGED <<results, selectedId>>
     \/ /\ IsCurrent(n)
        /\ \E tracks \in {{}, {"first"}, {"first", "second"}} :
             /\ results' = [of |-> searches[n].of, tracks |-> tracks]
             /\ phase' = IF tracks = {} THEN "no-results" ELSE "results"
             /\ selectedId' = IF Cardinality(tracks) = 1 THEN CHOOSE id \in tracks : TRUE ELSE NoQuery
  /\ UNCHANGED <<searchQuery, searchRequestId, queued, settingsVars>>

SelectResult(id) ==
  /\ phase = "results" /\ id \in results.tracks /\ selectedId' = id
  /\ UNCHANGED <<searchQuery, phase, results, searches, searchRequestId, queued, settingsVars>>

\* The button is disabled while the selected one isn't among the results.
AddSelectedToQueue ==
  /\ selectedId \in results.tracks /\ queued' = [of |-> results.of, tracks |-> {selectedId}]
  /\ UNCHANGED <<searchQuery, phase, results, selectedId, searches, searchRequestId, settingsVars>>

(***************************************************************************)
(* The settings: a call's answer is taken by the backend when it gets it.  *)
(***************************************************************************)
\* after: the call whose handler this one ends.
Call(kind, arg) == [kind |-> kind, after |-> kind, arg |-> arg, served |-> FALSE, signed |-> {}, order |-> NoOrder]

\* Calls that end in the store.
Storing(list) == {n \in DOMAIN list : list[n].kind \in {"reload", "patch"}}

Begin(list, call) ==
  /\ calls' = Append(list, call)
  /\ overlapped' = IF Storing(list) # {} THEN TRUE ELSE overlapped /\ call.kind # "reload"
  /\ lost' = (lost \/ Storing(list) # {})

Free == Len(calls) < MaxCalls /\ writes < MaxWrites

EnsureLoaded ==
  /\ ~loaded /\ Len(calls) < MaxCalls /\ loaded' = TRUE /\ Begin(calls, Call("reload", NoOrder))
  /\ UNCHANGED <<services, config, writes, session, busy, signed, order, meant, searchVars>>

OrderedServices == IF config = NoOrder THEN Services ELSE config

Swapped(list, i, j) == [list EXCEPT ![i] = list[j], ![j] = list[i]]

Nudged(list, s, up) ==
  LET i == CHOOSE n \in DOMAIN list : list[n] = s
      j == IF up THEN i - 1 ELSE i + 1
  IN  IF j \in DOMAIN list THEN Swapped(list, i, j) ELSE list

\* A row's arrow: the whole order, as it is shown, with the two swapped.
NudgePriority(s, up) ==
  /\ Free /\ services # {} /\ Nudged(OrderedServices, s, up) # OrderedServices
  /\ Begin(calls, Call("patch", Nudged(OrderedServices, s, up)))
  /\ writes' = writes + 1 /\ meant' = Nudged(meant, s, up)
  /\ UNCHANGED <<services, config, loaded, session, busy, signed, order, searchVars>>

\* An account is added or removed; for Spotify, a session is begun and then completed.
ChangeAccount(kind) ==
  /\ Free /\ services # {} /\ ~busy
  /\ \/ kind = "remove" /\ Account \in services /\ UNCHANGED busy
     \/ kind = "add" /\ Account \notin services /\ ~session /\ UNCHANGED busy
     \/ kind = "start" /\ Account \notin services /\ ~session /\ busy' = TRUE
     \/ kind = "complete" /\ Account \notin services /\ session /\ busy' = TRUE
  /\ Begin(calls, Call(kind, NoOrder)) /\ writes' = writes + 1
  /\ UNCHANGED <<services, config, loaded, session, signed, order, meant, searchVars>>

\* The backend gets a call.
Serve(n) ==
  LET call == calls[n] IN
  /\ ~call.served
  /\ order' = IF call.kind = "patch" THEN call.arg ELSE order
  /\ signed' = CASE call.kind \in {"add", "complete"} -> {Account}
                 [] call.kind = "remove"              -> {}
                 [] OTHER                             -> signed
  /\ calls' = [calls EXCEPT ![n].served = TRUE, ![n].signed = signed', ![n].order = order']
  /\ UNCHANGED <<services, config, loaded, writes, overlapped, lost, session, busy, meant, searchVars>>

\* Mutant: removing an account leaves the list as it is.
RemovedOnly == {"add", "complete"}

ThenReload == {"add", "remove", "complete"}

Completes(call) == call.kind = "reload" /\ call.after = "complete"

Reload(call) == [Call("reload", NoOrder) EXCEPT !.after = call.kind]

\* A reload's two requests are one here: what changes between them has an answer
\* of its own to come.  SpotifyOAuthControls waits for the reload too.
Answered(n) ==
  LET call == calls[n]
      rest == RemoveAt(calls, n)
  IN  /\ call.served
      /\ services' = IF call.kind = "reload" THEN {"listed"} \union call.signed ELSE services
      /\ config' = IF call.kind \in {"reload", "patch"} THEN call.order ELSE config
      /\ session' = (call.kind = "start" \/ (session /\ ~Completes(call)))
      /\ busy' = (busy /\ call.kind # "start" /\ ~Completes(call))
      /\ IF call.kind \in ThenReload THEN Begin(rest, Reload(call))
         ELSE calls' = rest /\ UNCHANGED <<overlapped, lost>>
      /\ UNCHANGED <<loaded, writes, signed, order, meant, searchVars>>

\* It fails, before the backend had it or after; a load that fails is made anew when the panel next opens.
Fails(n) ==
  /\ calls' = RemoveAt(calls, n)
  /\ loaded' = (loaded /\ calls[n].kind # "reload")
  /\ busy' = (busy /\ calls[n].after \notin {"start", "complete"})
  /\ session' = (session /\ ~Completes(calls[n]))
  /\ overlapped' = TRUE /\ lost' = TRUE
  /\ UNCHANGED <<services, config, writes, signed, order, meant, searchVars>>

SearchesNext ==
  \/ Search \/ AddSelectedToQueue
  \/ \E q \in Queries : SetQuery(q)
  \/ \E n \in DOMAIN searches : Searched(n)
  \/ \E id \in {"first", "second"} : SelectResult(id)

SettingsNext ==
  \/ EnsureLoaded
  \/ \E s \in Catalog, up \in BOOLEAN : NudgePriority(s, up)
  \/ \E kind \in {"add", "remove", "start", "complete"} : ChangeAccount(kind)
  \/ \E n \in DOMAIN calls : Serve(n) \/ Answered(n) \/ Fails(n)

PanelNext == SearchesNext \/ SettingsNext
PanelSpec == PanelInit /\ [][PanelNext]_panelVars

(***************************************************************************)
(* Properties                                                              *)
(***************************************************************************)
PanelTypes ==
  /\ phase \in {"idle", "searching", "no-results", "error", "results"}
  /\ Len(order) = Len(Services) /\ Len(config) \in {0, Len(Services)}
  /\ searchRequestId = Len(searches) /\ Len(calls) <= MaxCalls

\* The panel is searching exactly while the last search is; what it shows then is
\* that search's, and what can be added to the queue is seen on it.
SearchRight ==
  /\ (phase = "searching") = (searches # <<>> /\ Last(searches).pending)
  /\ phase \in {"results", "no-results"} => results.of = Last(searches).of
  /\ selectedId # NoQuery => phase = "results" /\ selectedId \in results.tracks

\* Once nothing is under way, and unless requests overlapped or failed, the
\* panel shows what the backend has, and every press on an arrow has counted:
\* two that overlap each send the order that was shown, and one is lost.
SettingsKept ==
  calls = <<>> /\ loaded =>
    /\ ~overlapped => config = order /\ (Account \in services) = (Account \in signed)
    /\ ~lost => order = meant

\* Signing in with Spotify is busy exactly while one of its calls is under way.
SignInRight == busy = (\E n \in DOMAIN calls : calls[n].after \in {"start", "complete"})

PanelRight == SearchRight /\ SettingsKept /\ SignInRight
=============================================================================
