------------------------------ MODULE AppShell ------------------------------
(***************************************************************************)
(* What outlives a page: its settings, kept in localStorage and shared by  *)
(* every window of the app (frontend/src/settings/), the server it is set  *)
(* up with (server_setup/), and the updates of the app itself (updates/).  *)
(***************************************************************************)
EXTENDS Integers, Sequences, FiniteSets, SequencesExt

CONSTANTS Windows,
          MinSize, MaxSize, DefaultSize,   \* of the lyrics' font
          Modes, DefaultMode,              \* the settings that are one of a few words
          Feed, Current,                   \* the releases there are, [version, published]; the app's version
          MaxChecks

\* The settings, by how they are read back; the server is "" for the app's own.
Servers  == {"", "up", "other", "down"}    \* answers, answers but isn't one, doesn't
Settings == [mode : Modes, size : MinSize..MaxSize, server : Servers]
Defaults == [mode |-> DefaultMode, size |-> DefaultSize, server |-> ""]

VARIABLES store, saved, works, writer,     \* each window's settings; what is kept, whether it can be; who kept it
          typed, setup, error,             \* a window's ServerSetup: the address, what is left to probe, its error
          version, newer, checking,        \* the updates' store; the version is <<>> until the shell tells
          install, problem, checks, begun, \* and its error; checks made, hourly ones begun
          fetching, installing             \* a request for the releases and an install under way

settingsVars == <<store, saved, works, writer, typed, setup, error>>
updateVars   == <<version, newer, checking, install, problem, checks, begun, fetching, installing>>
shellVars    == <<settingsVars, updateVars>>

Bad == "bad"              \* a value of no use: of another type, or unknown
NoSize == -1              \* and a size that is none
Absent == [none |-> TRUE] \* nothing is kept, or nothing that parses

NotConnecting == [left |-> <<>>, notServer |-> FALSE, connecting |-> FALSE]

(***************************************************************************)
(* Settings.                                                               *)
(***************************************************************************)
\* setLyricsFontSize()
Clamped(n) == IF n < MinSize THEN MinSize ELSE IF n > MaxSize THEN MaxSize ELSE n

Kept == [mode : {DefaultMode, Bad}, size : {MinSize - 1, DefaultSize, MaxSize + 1, NoSize},
         server : {"", "up", Bad}]

\* Mutant: one field of no use loses the rest.
LoadAllOrNone(k) == IF k = Absent \/ (\E f \in {"mode", "server"} : k[f] = Bad) THEN Defaults ELSE k

\* load(): each field that can be used.
Load(k) ==
  IF k = Absent THEN Defaults
  ELSE [mode   |-> IF k.mode = Bad THEN Defaults.mode ELSE k.mode,
        size   |-> IF k.size = NoSize THEN Defaults.size ELSE Clamped(k.size),
        server |-> IF k.server = Bad THEN Defaults.server ELSE k.server]

\* The autorun: everything is kept, as this window has it.
Persist(w, s) ==
  /\ store' = [store EXCEPT ![w] = s]
  /\ IF works THEN saved' = s /\ writer' = w ELSE UNCHANGED <<saved, writer>>

\* The window is opened or loaded anew, which keeps at once what it could use.
Boot(w) ==
  /\ Persist(w, Load(saved))
  /\ typed' = [typed EXCEPT ![w] = Load(saved).server]
  /\ setup' = [setup EXCEPT ![w] = NotConnecting] /\ error' = [error EXCEPT ![w] = "none"]
  /\ UNCHANGED <<works, updateVars>>

\* Mutant: a size is kept as it is typed.
SizeAsTyped(n) == n

SizeSet(n) == Clamped(n)

Change(w, s) == s # store[w] /\ Persist(w, s) /\ UNCHANGED <<works, typed, setup, error, updateVars>>

Set(w) ==
  \/ \E m \in Modes : Change(w, [store[w] EXCEPT !.mode = m])
  \/ \E n \in {MinSize - 1, DefaultSize, MaxSize + 1} : Change(w, [store[w] EXCEPT !.size = SizeSet(n)])

(***************************************************************************)
(* Setting up the server.                                                  *)
(***************************************************************************)
SetUrl(w, s) ==
  /\ s # typed[w] /\ typed' = [typed EXCEPT ![w] = s]
  /\ UNCHANGED <<store, saved, works, writer, setup, error, updateVars>>

\* serverCandidates(): as typed, or with both schemes; one may answer where the other doesn't.
Candidates(s) == IF s = "" THEN {<<>>} ELSE {<<s>>} \union {<<s, t>> : t \in Servers \ {""}}

Connect(w) ==
  /\ typed[w] # "" /\ ~setup[w].connecting
  /\ \E list \in Candidates(typed[w]) :
       setup' = [setup EXCEPT ![w] = [left |-> list, notServer |-> FALSE, connecting |-> TRUE]]
  /\ error' = [error EXCEPT ![w] = "none"]
  /\ UNCHANGED <<store, saved, works, writer, typed, updateVars>>

\* Mutant: what answers is the server.
AnyServer(s) == s # "down"

Healthy(s) == s = "up"

\* probe(), of the next candidate; the page is loaded anew on the first that is healthy.
Probe(w) ==
  LET todo == setup[w] IN
  /\ todo.connecting /\ todo.left # <<>>
  /\ IF Healthy(Head(todo.left))
     THEN /\ Persist(w, [store[w] EXCEPT !.server = Head(todo.left)])
          /\ setup' = [setup EXCEPT ![w].left = <<>>] /\ UNCHANGED error
     ELSE /\ LET missed == todo.notServer \/ Head(todo.left) = "other"
                 rest   == Tail(todo.left)
             IN  IF rest # <<>>
                 THEN setup' = [setup EXCEPT ![w].left = rest, ![w].notServer = missed] /\ UNCHANGED error
                 ELSE /\ setup' = [setup EXCEPT ![w] = NotConnecting]
                      /\ error' = [error EXCEPT ![w] = IF missed THEN "isn't a server" ELSE "unreachable"]
          /\ UNCHANGED <<store, saved, writer>>
  /\ UNCHANGED <<works, typed, updateVars>>

(***************************************************************************)
(* Updates.                                                                *)
(***************************************************************************)
\* Mutant: a part that isn't there comes before any.
RankShort(v, n) == IF n <= Len(v) THEN v[n] ELSE -2

\* compareVersions(): a part that isn't there is 0, one that's no number -1.
Rank(v, n) == IF n <= Len(v) THEN v[n] ELSE 0

Longer(a, b) == IF Len(a) > Len(b) THEN Len(a) ELSE Len(b)

Above(a, b) ==
  \E n \in 1..Longer(a, b) : Rank(a, n) > Rank(b, n) /\ \A m \in 1..(n - 1) : Rank(a, m) = Rank(b, m)

\* newerReleases(): published, newer, the newest first.
NewerReleases(v) ==
  LET some == {r.version : r \in {r \in Feed : r.published /\ Above(r.version, v)}} IN
  SetToSortSeq(some, Above)

StartUpdates ==
  /\ version = <<>> /\ problem = "none"
  /\ \/ version' = Current /\ checking' = TRUE /\ fetching' = TRUE /\ UNCHANGED problem
     \/ problem' = "version" /\ UNCHANGED <<version, checking, fetching>>
  /\ UNCHANGED <<newer, install, checks, begun, installing, settingsVars>>

\* Mutant: a check is made beside another.
MayCheckAgain == version # <<>>

MayCheck == version # <<>> /\ ~checking

\* An hour has passed, or the button was pressed, which is disabled while an update is installed.
Check(hourly) ==
  /\ checks < MaxChecks /\ (hourly \/ (install = "idle" /\ ~checking)) /\ (hourly => checks > 0)
  /\ IF MayCheck THEN checking' = TRUE /\ fetching' = TRUE /\ begun' = begun + (IF fetching THEN 1 ELSE 0)
                 ELSE UNCHANGED <<checking, fetching, begun>>
  /\ checks' = checks + 1
  /\ UNCHANGED <<version, newer, install, problem, installing, settingsVars>>

Checked ==
  /\ fetching /\ fetching' = FALSE /\ checking' = FALSE
  /\ \/ newer' = NewerReleases(version) /\ problem' = "none"
     \/ problem' = "check" /\ UNCHANGED newer
  /\ checks' = checks + 1
  /\ UNCHANGED <<version, install, begun, installing, settingsVars>>

Latest == Head(newer)

\* install(), where the app can replace itself; elsewhere it opens the download.
Install(can) ==
  /\ newer # <<>> /\ install = "idle"
  /\ IF can THEN install' = "downloading" /\ installing' = TRUE /\ problem' = "none"
            ELSE problem' \in {problem, "open"} /\ UNCHANGED <<install, installing>>
  /\ UNCHANGED <<version, newer, checking, checks, begun, fetching, settingsVars>>

Progress ==
  /\ installing /\ install' = "restarting"
  /\ UNCHANGED <<version, newer, checking, problem, checks, begun, fetching, installing, settingsVars>>

InstallFails ==
  /\ installing /\ installing' = FALSE /\ install' = "idle" /\ problem' = "install"
  /\ UNCHANGED <<version, newer, checking, checks, begun, fetching, settingsVars>>

\* The app relaunches into what it installed.
Relaunch ==
  /\ install = "restarting"
  /\ \E v \in {r.version : r \in Feed} : Above(v, version) /\ version' = v
  /\ newer' = <<>> /\ checking' = FALSE /\ install' = "idle" /\ problem' = "none"
  /\ fetching' = FALSE /\ installing' = FALSE
  /\ UNCHANGED <<checks, begun, settingsVars>>

\* Every window loads what was kept by whatever version of the app ran before.
ShellInit ==
  /\ works \in BOOLEAN /\ writer \in Windows
  /\ \E k \in Kept \union {Absent} :
       /\ store = [w \in Windows |-> Load(k)] /\ saved = IF works THEN Load(k) ELSE k
       /\ typed = [w \in Windows |-> Load(k).server]
  /\ setup = [w \in Windows |-> NotConnecting] /\ error = [w \in Windows |-> "none"]
  /\ version = <<>> /\ newer = <<>> /\ checking = FALSE /\ install = "idle" /\ problem = "none"
  /\ checks = 0 /\ begun = 0 /\ fetching = FALSE /\ installing = FALSE

\* Nothing that was kept matters.
Fresh == works /\ saved = Defaults

SettingsNext == \E w \in Windows : Boot(w) \/ Set(w)

SetupOf(w) == Boot(w) \/ Connect(w) \/ Probe(w) \/ \E s \in Servers : SetUrl(w, s)

UpdatesNext ==
  \/ StartUpdates \/ Checked \/ Progress \/ InstallFails \/ Relaunch
  \/ \E b \in BOOLEAN : Check(b) \/ Install(b)

ShellNext == SettingsNext \/ (\E w \in Windows : SetupOf(w)) \/ UpdatesNext
ShellSpec == ShellInit /\ [][ShellNext]_shellVars

(***************************************************************************)
(* Properties                                                              *)
(***************************************************************************)
ShellTypes ==
  /\ store \in [Windows -> Settings] /\ version \in {<<>>, Current} \union {r.version : r \in Feed}
  /\ install \in {"idle", "downloading", "restarting"}

\* Where settings can be kept, a window that is loaded anew has the settings of
\* the one that changed any last, all of them: what others changed before is lost
\* to it unless it was loaded since.  What is of no use doesn't take the rest with it.
SettingsKept ==
  /\ works => Load(saved) = store[writer]
  /\ Load(saved) \in Settings
  /\ saved \in Kept =>
       /\ \A f \in {"mode", "server"} : saved[f] # Bad => Load(saved)[f] = saved[f]
       /\ saved.size \in MinSize..MaxSize => Load(saved).size = saved.size

\* Only a server that is one is ever connected to; an error is told when none of
\* those tried is, and as the page is loaded anew on one, nothing else is tried after.
ServerFound ==
  \A w \in Windows :
    /\ store[w].server \in {"", "up"}
    /\ error[w] # "none" => ~setup[w].connecting

\* One check and one install at a time; each is shown to go on as long as it does.
UpdatesRight ==
  /\ begun = 0 /\ checking = fetching
  /\ (install # "idle") = installing
  /\ problem = "install" => install = "idle"

\* A version's place among all: its first four parts as digits of a number, one
\* that isn't there as 0 and one that is a word below that.
Place(v) ==
  LET part(n) == IF n <= Len(v) THEN v[n] + 1 ELSE 1 IN 100 * (100 * (100 * part(1) + part(2)) + part(3)) + part(4)

\* The releases offered are every published one that comes after this one, the newest
\* first: 1.10 is after 1.3, and 1.3.0 after its beta.
NewestFirst ==
  newer # <<>> =>
    /\ ToSet(newer) = {r.version : r \in {r \in Feed : r.published /\ Place(r.version) > Place(version)}}
    /\ \A n \in 1..(Len(newer) - 1) : Place(newer[n]) >= Place(newer[n + 1])

ShellRight == SettingsKept /\ ServerFound /\ UpdatesRight /\ NewestFirst
=============================================================================
